---------------------------- MODULE LiveCommands ----------------------------
(***************************************************************************)
(* The command boundary of the live runtime: concurrent requests, each     *)
(* running one command of the execution service in a unit of work          *)
(* (live/uow.py) on the checkpointed store of live/repository.py, with     *)
(* process crashes and clients that retry.  It shows why RfqExecution may  *)
(* take a command for one atomic action.                                   *)
(*                                                                         *)
(* The business state is abstracted to the sequence of the keys whose      *)
(* command took effect; the id that a command creates (id_counters) is its *)
(* place in it.  Each effect writes one audit event, of the same number.   *)
(***************************************************************************)
EXTENDS Commands

CONSTANT MaxCrashes   \* bound on crashes and lost connections

ASSUME CrashAssumption == MaxCrashes \in Nat

VARIABLES
  db,       \* the committed rows: business state, idempotency, audit events
  lock,     \* who holds the row lock of dev4_execution_snapshot_lock
  pc,       \* where the unit of work of each request is
  store,    \* the ExecutionStore a unit of work loaded and works on
  outcome,  \* the value its handler is going to return
  answer,   \* what the client of each request was told
  crashes

liveVars == <<db, lock, pc, store, outcome, answer, crashes>>

Rows == [effects : Seq(Key), memory : [Key -> Memory \cup {None}],
         audit : SUBSET (Nat \X Key)]

EmptyStore ==
  [effects |-> << >>, memory |-> [k \in Key |-> None], audit |-> {}]

Init ==
  /\ db = EmptyStore
  /\ lock = None
  /\ pc = [r \in Request |-> "idle"]
  /\ store = [r \in Request |-> EmptyStore]
  /\ outcome = [r \in Request |-> None]
  /\ crashes = 0
  /\ answer = [r \in Request |-> None]

-----------------------------------------------------------------------------

Step(r, from, to) == pc[r] = from /\ pc' = [pc EXCEPT ![r] = to]

\* Mutant: FOR UPDATE is missing, so nobody waits.
Lockable_Always(r) == TRUE

Lockable(r) == lock = None

\* __enter__: wait for the lock row ...
AcquireSnapshotLock(r) ==
  /\ Step(r, "idle", "locked")
  /\ answer[r] = None
  /\ Lockable(r)
  /\ lock' = r
  /\ UNCHANGED <<db, store, outcome, crashes, answer>>

\* ... and then read all rows.
Load(r) ==
  /\ Step(r, "locked", "loaded")
  /\ store' = [store EXCEPT ![r] = db]
  /\ UNCHANGED <<db, lock, outcome, crashes, answer>>

\* _facade_replay and _raw_idempotent_replay.
ReplayOf(r, s) == s.memory[KeyOf[r]]

\* Mutant: the lock is not released by the end of the transaction.
Released_Never(r) == r

\* Whatever ends the transaction, the database releases its lock.
Released(r) == None

\* The command finds its key remembered: it returns the remembered result, or
\* IDEMPOTENCY_CONFLICT.  The transaction is rolled back, or an unchanged
\* store is committed; the rows stay as they are either way.
Replay(r) ==
  /\ Step(r, "loaded", "ended")
  /\ ReplayOf(r, store[r]) # None
  /\ outcome' = [outcome EXCEPT ![r] = Remembered(r, ReplayOf(r, store[r]))]
  /\ lock' = Released(r)
  /\ UNCHANGED <<db, store, answer, crashes>>

\* Mutant: the result is not remembered.
Executed_Forgets(r, s) ==
  LET id == Len(s.effects) + 1
  IN  [effects |-> Append(s.effects, KeyOf[r]),
       memory  |-> s.memory,
       audit   |-> s.audit \cup {<<id, KeyOf[r]>>}]

\* The store after a command: new state, an audit event, the result remembered.
Executed(r, s) ==
  LET id == Len(s.effects) + 1
  IN  [effects |-> Append(s.effects, KeyOf[r]),
       memory  |-> [s.memory EXCEPT ![KeyOf[r]] =
                      [payload |-> PayloadOf[r], result |-> id]],
       audit   |-> s.audit \cup {<<id, KeyOf[r]>>}]

Execute(r) ==
  /\ Step(r, "loaded", "executed")
  /\ ReplayOf(r, store[r]) = None
  /\ store' = [store EXCEPT ![r] = Executed(r, store[r])]
  /\ outcome' = [outcome EXCEPT ![r] =
                   [kind |-> "OK", result |-> Len(store[r].effects) + 1]]
  /\ UNCHANGED <<db, lock, crashes, answer>>

\* A guard of the command raises DomainError: the transaction is rolled back.
Refused(r) ==
  /\ Step(r, "loaded", "ended")
  /\ ReplayOf(r, store[r]) = None
  /\ outcome' = [outcome EXCEPT ![r] = [kind |-> "REFUSED", result |-> 0]]
  /\ lock' = Released(r)
  /\ UNCHANGED <<db, store, answer, crashes>>

\* The rows of s cannot be saved over those of d: an idempotency row or an
\* audit event that is already there has other contents.
IntegrityError(s, d) ==
  \/ \E k \in Key : /\ s.memory[k] # None /\ d.memory[k] # None
                    /\ s.memory[k] # d.memory[k]
  \/ \E e \in s.audit, f \in d.audit : e[1] = f[1] /\ e # f

\* save: the business rows are replaced, the idempotency rows and audit events
\* are only ever added to.
Saved(s, d) ==
  [effects |-> s.effects,
   memory  |-> [k \in Key |-> IF d.memory[k] # None THEN d.memory[k] ELSE s.memory[k]],
   audit   |-> d.audit \cup s.audit]

\* commit: save and commit in one transaction, or PersistenceIntegrityError
\* and a rollback.
Commit(r) ==
  LET error == IntegrityError(store[r], db)
  IN  /\ Step(r, "executed", IF error THEN "failed" ELSE "ended")
      /\ db' = IF error THEN db ELSE Saved(store[r], db)
      /\ lock' = Released(r)
      /\ UNCHANGED <<store, outcome, answer, crashes>>

\* Mutant: the client is answered before the commit.
Respond_Early(r) ==
  /\ Step(r, "executed", "done")
  /\ answer' = [answer EXCEPT ![r] = outcome[r]]
  /\ UNCHANGED <<db, lock, store, outcome, crashes>>

Respond(r) ==
  /\ Step(r, "ended", "done")
  /\ answer' = [answer EXCEPT ![r] = outcome[r]]
  /\ UNCHANGED <<db, lock, store, outcome, crashes>>

\* The process dies, or the answer is lost: an open transaction is rolled back
\* and the client, who knows nothing, will send the request again.
Crash(r) ==
  /\ pc[r] \in {"locked", "loaded", "executed", "ended"}
  /\ crashes < MaxCrashes
  /\ crashes' = crashes + 1
  /\ pc' = [pc EXCEPT ![r] = "idle"]
  /\ lock' = IF pc[r] = "ended" THEN lock ELSE Released(r)
  /\ UNCHANGED <<db, store, outcome, answer>>

-----------------------------------------------------------------------------

Progress(r) ==
  \/ AcquireSnapshotLock(r)
  \/ Load(r)
  \/ Replay(r)
  \/ Execute(r)
  \/ Refused(r)
  \/ Commit(r)
  \/ Respond(r)

Next == \E r \in Request : Progress(r) \/ Crash(r)

\* A handler runs to its end once it holds the lock, a waiter is woken when the
\* lock is free, and a client without an answer retries; crashes are finite.
Fairness == \A r \in Request : WF_liveVars(Progress(r))

Spec == Init /\ [][Next]_liveVars /\ Fairness

-----------------------------------------------------------------------------

TypeOK ==
  /\ db \in Rows
  /\ lock \in Request \cup {None}
  /\ pc \in [Request -> {"idle", "locked", "loaded", "executed", "ended",
                         "failed", "done"}]
  /\ store \in [Request -> Rows]
  /\ outcome \in [Request -> Answer \cup {None}]
  /\ crashes \in Nat
  /\ answer \in [Request -> Answer \cup {None}]

\* A command takes effect at most once, however often its client retries it,
\* whether the crash came before or after the commit.
EffectsHappenOnce ==
  \A i, j \in 1..Len(db.effects) : db.effects[i] = db.effects[j] => i = j

\* What a client was told stands: the effect it was given the id of is in the
\* database for ever, under that id (no update of a concurrent command is lost).
AnswersAreDurable ==
  \A r \in Request :
    answer[r] # None /\ answer[r].kind = "OK" =>
      /\ answer[r].result \in 1..Len(db.effects)
      /\ db.effects[answer[r].result] = KeyOf[r]

\* The audit trail tells the business state: one event for each effect, with
\* its id, and no event of anything that was rolled back or overwritten.
AuditMatchesState ==
  db.audit = {<<i, db.effects[i]>> : i \in 1..Len(db.effects)}

\* The integrity checks of save are never what stops a command: under the
\* snapshot lock no two checkpoints collide.
CheckpointsNeverCollide == \A r \in Request : pc[r] # "failed"

\* Every request is answered, if its client keeps retrying: the lock is free
\* again whatever happens to its holder.
EveryRequestAnswered == \A r \in Request : <>(answer[r] # None)

\* The refinement: a committed command is applied, an answer reports it.
Ledger == INSTANCE CommandLedger WITH effects <- db.effects, memory <- db.memory

\* Locks, checkpoints, crashes and retries together give the clients the
\* ledger: one effect for a key and one result in all its answers.
ImplementsLedger == Ledger!LedgerSpec

-----------------------------------------------------------------------------
(* What makes these properties inductive *)

\* The rows agree: a key is remembered with its place among the effects, and
\* every effect is remembered.
RowsAgree ==
  /\ \A k \in Key : db.memory[k] # None =>
       /\ db.memory[k].result \in 1..Len(db.effects)
       /\ db.effects[db.memory[k].result] = k
  /\ \A i \in 1..Len(db.effects) :
       /\ db.memory[db.effects[i]] # None
       /\ db.memory[db.effects[i]].result = i
  /\ AuditMatchesState

\* A unit of work between lock and commit is alone, and its store is the rows
\* or the rows with its command executed.
WorkIsCurrent ==
  \A r \in Request :
    /\ pc[r] \in {"locked", "loaded", "executed"} => lock = r
    /\ pc[r] = "loaded" => store[r] = db
    /\ pc[r] = "executed" =>
         /\ db.memory[KeyOf[r]] = None
         /\ store[r] = Executed(r, db)

\* What a client is or is about to be told is a refusal or what is remembered.
Truthful(r, a) ==
  \/ a.kind = "REFUSED"
  \/ /\ db.memory[KeyOf[r]] # None
     /\ a = Remembered(r, db.memory[KeyOf[r]])

OutcomesAreTruthful ==
  \A r \in Request :
    /\ pc[r] = "executed" => outcome[r] = [kind |-> "OK", result |-> Len(db.effects) + 1]
    /\ pc[r] = "ended" => outcome[r] \in Answer /\ Truthful(r, outcome[r])
    /\ IF pc[r] = "done" THEN answer[r] \in Answer /\ Truthful(r, answer[r])
       ELSE answer[r] = None

LiveInv ==
  /\ TypeOK
  /\ CheckpointsNeverCollide
  /\ RowsAgree
  /\ WorkIsCurrent
  /\ OutcomesAreTruthful
=============================================================================
