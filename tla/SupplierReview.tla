---------------------------- MODULE SupplierReview ----------------------------
(***************************************************************************)
(* The review of a supplier's extracted profile by the supplier itself:    *)
(* SupplierReviewService, its session and its signed links.  Between two   *)
(* awaits a call runs undisturbed; while it awaits the audit trail or the  *)
(* core's activation, other calls, of the same link or another, run.       *)
(***************************************************************************)
EXTENDS FiniteSets, Sequences, SequencesExt, Naturals

CONSTANTS
  Field,         \* the reviewed fields
  Required,      \* those the core demands to be confirmed
  Link,          \* review links of the one recipient, each with its own nonce
  Call,          \* requests the service handles at a time
  MaxRevisions   \* bound on the decisions on a field

ASSUME FieldsAssumption == Required \subseteq Field

VARIABLES
  history,           \* the decisions on each field, oldest first
  projected_status,  \* of the session
  aggregate_version, \* the core's version as the session knows it
  consumed,          \* links whose single submission is spent
  expired,           \* links past their time
  call,              \* what each request awaits
  audit,             \* the audit trail
  core               \* the core: links whose command activated the supplier, version

reviewVars == <<history, projected_status, aggregate_version, consumed, expired, call, audit, core>>

FieldDecision == {"CONFIRMED", "CORRECTED", "NOT_APPLICABLE"}

Accepted == {"CONFIRMED", "CORRECTED"}

Idle == [at |-> "idle"]

ReviewInit ==
  /\ history = [f \in Field |-> << >>]
  /\ projected_status = "AWAITING_SUPPLIER_REVIEW"
  /\ aggregate_version = 0
  /\ consumed = {}
  /\ expired = {}
  /\ call = [c \in Call |-> Idle]
  /\ audit = {}
  /\ core = [activated |-> {}, version |-> 0]

Confirmed == {f \in Field : history[f] # << >> /\ Last(history[f]) \in Accepted}

Missing == Required \ Confirmed

\* The three decisions: made on the current version, then awaiting the audit.
Decide(c, l, f, d) ==
  /\ call[c] = Idle
  /\ l \notin expired
  /\ projected_status # "ACTIVE"
  /\ Len(history[f]) < MaxRevisions
  /\ history' = [history EXCEPT ![f] = Append(@, d)]
  /\ call' = [call EXCEPT ![c] = [at |-> "decided", link |-> l]]
  /\ UNCHANGED <<projected_status, aggregate_version, consumed, expired, audit, core>>

\* A submission with fields missing is only audited.
SubmitIncomplete(c, l) ==
  /\ call[c] = Idle
  /\ l \notin expired
  /\ Missing # {}
  /\ call' = [call EXCEPT ![c] = [at |-> "blocked", link |-> l]]
  /\ UNCHANGED <<history, projected_status, aggregate_version, consumed, expired, audit, core>>

\* Mutant: the link's nonce is not checked.
MayConsume_Again(l) == l \notin expired

MayConsume(l) == l \notin expired /\ l \notin consumed

\* A complete submission spends the link and awaits the audit trail.
Submit(c, l) ==
  /\ call[c] = Idle
  /\ Missing = {}
  /\ MayConsume(l)
  /\ consumed' = consumed \cup {l}
  /\ projected_status' = "CONFIRMED"
  /\ call' = [call EXCEPT ![c] = [at |-> "submitted", link |-> l]]
  /\ UNCHANGED <<history, aggregate_version, expired, audit, core>>

EventOf(at) ==
  CASE at = "decided"   -> "SUPPLIER_FIELD_DECIDED"
    [] at = "blocked"   -> "SUPPLIER_ACTIVATION_BLOCKED"
    [] at = "submitted" -> "SUPPLIER_REVIEW_SUBMITTED"
    [] at = "projected" -> "SUPPLIER_ACTIVATED"

\* The audit trail takes the event.  A submission goes on to the core with the
\* fields that are confirmed by now.
Audited(c) ==
  LET pending == call[c] IN
  /\ pending.at \in {"decided", "blocked", "submitted", "projected"}
  /\ audit' = audit \cup {<<EventOf(pending.at), pending.link>>}
  /\ call' = [call EXCEPT ![c] =
                IF pending.at = "submitted"
                THEN [at |-> "activating", link |-> pending.link, confirmed |-> Confirmed]
                ELSE Idle]
  /\ UNCHANGED <<history, projected_status, aggregate_version, consumed, expired, core>>

\* The audit trail fails, and the request with it; what it did stays.
AuditFails(c) ==
  /\ call[c].at \in {"decided", "blocked", "submitted", "projected"}
  /\ call' = [call EXCEPT ![c] = Idle]
  /\ UNCHANGED <<history, projected_status, aggregate_version, consumed, expired, audit, core>>

\* The core activates a supplier whose command names every required field.
CoreActivates(c) ==
  /\ call[c].at = "activating"
  /\ Required \subseteq call[c].confirmed
  /\ core' = [activated |-> core.activated \cup {call[c].link}, version |-> core.version + 1]
  /\ call' = [call EXCEPT ![c] =
                [at |-> "answered", link |-> call[c].link, version |-> core'.version]]
  /\ UNCHANGED <<history, projected_status, aggregate_version, consumed, expired, audit>>

\* Mutant: a failed activation gives the link back.
Spent_GivenBack(l) == consumed \ {l}

Spent(l) == consumed

\* The port refuses, fails, or loses the answer of an activation.
ActivationFails(c) ==
  /\ call[c].at \in {"activating", "answered"}
  /\ call' = [call EXCEPT ![c] = [at |-> "blocked", link |-> call[c].link]]
  /\ consumed' = Spent(call[c].link)
  /\ UNCHANGED <<history, projected_status, aggregate_version, expired, audit, core>>

\* The answer arrives and the session follows it.
Project(c) ==
  /\ call[c].at = "answered"
  /\ projected_status' = "ACTIVE"
  /\ aggregate_version' = call[c].version
  /\ call' = [call EXCEPT ![c] = [at |-> "projected", link |-> call[c].link]]
  /\ UNCHANGED <<history, consumed, expired, audit, core>>

Expire(l) ==
  /\ l \notin expired
  /\ expired' = expired \cup {l}
  /\ UNCHANGED <<history, projected_status, aggregate_version, consumed, call, audit, core>>

ReviewNext ==
  \/ \E c \in Call, l \in Link :
       \/ \E f \in Field, d \in FieldDecision : Decide(c, l, f, d)
       \/ SubmitIncomplete(c, l)
       \/ Submit(c, l)
  \/ \E c \in Call :
       Audited(c) \/ AuditFails(c) \/ CoreActivates(c) \/ ActivationFails(c) \/ Project(c)
  \/ \E l \in Link : Expire(l)

ReviewSpec == ReviewInit /\ [][ReviewNext]_reviewVars

-----------------------------------------------------------------------------
\* Properties.

\* The supplier is activated at most once for every link that was spent,
\* however many requests race with the same link (consume_for_submit).
OneActivationPerLink == core.version <= Cardinality(consumed)

\* The activation has failed, and no link is left that could be submitted.
Stranded ==
  /\ projected_status = "CONFIRMED"
  /\ \A c \in Call : call[c].at \in {"idle", "decided", "blocked"}
  /\ Link \subseteq consumed \cup expired

\* A review that is CONFIRMED when its activation has failed and its links are
\* spent stays so: no request can activate the supplier any more (submit
\* consumes the link first and never returns it).
StrandedForGood == [][Stranded => Stranded']_reviewVars

-----------------------------------------------------------------------------
(* What makes the first property inductive *)

\* What a request awaits, with the link it came by.
Awaiting ==
  [at : {"decided", "blocked", "submitted", "projected"}, link : Link]
  \cup [at : {"activating"}, link : Link, confirmed : SUBSET Field]
  \cup [at : {"answered"}, link : Link, version : Nat]

\* The session, its links and its requests have the shapes the service gives them.
ReviewTypeOK ==
  /\ history \in [Field -> Seq(FieldDecision)]
  /\ projected_status \in {"AWAITING_SUPPLIER_REVIEW", "CONFIRMED", "ACTIVE"}
  /\ aggregate_version \in Nat
  /\ consumed \subseteq Link /\ IsFiniteSet(consumed)
  /\ expired \subseteq Link
  /\ call \in [Call -> Awaiting \cup {Idle}]
  /\ core \in [activated : SUBSET Link, version : Nat]

\* The requests whose submission is on its way to the core.
Submitting == {c \in Call : call[c].at \in {"submitted", "activating"}}

\* Each has spent a link of its own, which has activated nothing so far.
SubmissionsHoldLinks ==
  /\ \A c \in Submitting : call[c].link \in consumed \ core.activated
  /\ \A b, c \in Submitting : call[b].link = call[c].link => b = c

\* The core has counted an activation for each link that activated, all spent.
ActivationsAreCounted ==
  /\ core.activated \subseteq consumed
  /\ core.version = Cardinality(core.activated)

ReviewInv ==
  /\ ReviewTypeOK
  /\ SubmissionsHoldLinks
  /\ ActivationsAreCounted
=============================================================================
