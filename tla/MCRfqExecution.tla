-------------------------- MODULE MCRfqExecution --------------------------
(* Small instances of RfqExecution for TLC. *)
EXTENDS RfqExecution, TLC

CONSTANTS rd1, r1, r2

\* Payloads: two compliant ones that expire at different times and one that
\* misses a mandatory requirement.
MCSubmission == {"short", "long", "incomplete"}
MCValidUntil == [s \in MCSubmission |-> IF s = "short" THEN 1 ELSE 3]
MCCompliant  == [s \in MCSubmission |-> s # "incomplete"]

OneRound  == [r \in {r1, r2} |-> rd1]
OneRecipient == [r \in {r1} |-> rd1]

Suppliers == Permutations({r1, r2})
=============================================================================
