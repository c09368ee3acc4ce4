---------------------------- MODULE CommandLedger ----------------------------
(***************************************************************************)
(* What the live runtime promises its clients about commands: each         *)
(* idempotency key takes effect at most once, in some order, and every     *)
(* answer to a request with that key reports that one effect.  There are   *)
(* no transactions, locks, crashes or retries here.                        *)
(***************************************************************************)
EXTENDS Commands

VARIABLES
  effects,  \* the commands that took effect, in order, by key
  memory,   \* what is remembered of each key: its payload and its result
  answer    \* what the client of each request was told

ledgerVars == <<effects, memory, answer>>

LedgerInit ==
  /\ effects = << >>
  /\ memory = [k \in Key |-> None]
  /\ answer = [r \in Request |-> None]

\* The command of request r takes effect.
Apply(r) ==
  /\ memory[KeyOf[r]] = None
  /\ effects' = Append(effects, KeyOf[r])
  /\ memory' = [memory EXCEPT ![KeyOf[r]] =
                  [payload |-> PayloadOf[r], result |-> Len(effects) + 1]]
  /\ UNCHANGED answer

Reply(r) ==
  /\ answer[r] = None
  /\ memory[KeyOf[r]] # None
  /\ answer' = [answer EXCEPT ![r] = Remembered(r, memory[KeyOf[r]])]
  /\ UNCHANGED <<effects, memory>>

\* A guard of the command fails; nothing is remembered.
Refuse(r) ==
  /\ answer[r] = None
  /\ answer' = [answer EXCEPT ![r] = [kind |-> "REFUSED", result |-> 0]]
  /\ UNCHANGED <<effects, memory>>

LedgerNext == \E r \in Request : Apply(r) \/ Reply(r) \/ Refuse(r)

LedgerSpec == LedgerInit /\ [][LedgerNext]_ledgerVars
=============================================================================
