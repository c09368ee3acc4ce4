------------------------- MODULE LiveCommandsProofs -------------------------
(***************************************************************************)
(* The live runtime gives its clients the ledger, for any number of        *)
(* requests, keys and crashes.                                             *)
(***************************************************************************)
EXTENDS LiveCommands, TLAPS

\* The rows after a commit are the rows with the command executed, because the
\* key was not remembered before; and the checks of save do not object.
LEMMA SaveUnderLock ==
  ASSUME NEW r \in Request, db \in Rows, RowsAgree, db.memory[KeyOf[r]] = None
  PROVE  /\ ~IntegrityError(Executed(r, db), db)
         /\ Saved(Executed(r, db), db) = Executed(r, db)
<1> DEFINE id == Len(db.effects) + 1
<1>1. /\ db.memory \in [Key -> Memory \cup {None}]
      /\ db.effects \in Seq(Key)
      /\ KeyOf[r] \in Key
      /\ id \in Nat
  BY RequestAssumption DEF Rows
<1>2. /\ Executed(r, db).effects = Append(db.effects, KeyOf[r])
      /\ Executed(r, db).memory = [db.memory EXCEPT ![KeyOf[r]] =
                                     [payload |-> PayloadOf[r], result |-> id]]
      /\ Executed(r, db).audit = db.audit \cup {<<id, KeyOf[r]>>}
  BY DEF Executed
<1>3. db.audit = {<<i, db.effects[i]>> : i \in 1..Len(db.effects)}
  BY DEF RowsAgree, AuditMatchesState
<1>4. ASSUME NEW k \in Key, db.memory[k] # None
      PROVE  Executed(r, db).memory[k] = db.memory[k]
  BY <1>1, <1>2, <1>4
<1>5. ASSUME NEW e \in Executed(r, db).audit, NEW f \in db.audit, e[1] = f[1]
      PROVE  e = f
  <2>1. PICK i \in 1..Len(db.effects) : f = <<i, db.effects[i]>>
    BY <1>3
  <2>2. CASE e = <<id, KeyOf[r]>>
    BY <1>1, <1>5, <2>1, <2>2
  <2>3. CASE e \in db.audit
    <3>1. PICK j \in 1..Len(db.effects) : e = <<j, db.effects[j]>>
      BY <1>3, <2>3
    <3> QED
      BY <1>5, <2>1, <3>1
  <2> QED
    BY <1>2, <2>2, <2>3
<1>6. ~IntegrityError(Executed(r, db), db)
  BY <1>4, <1>5 DEF IntegrityError
<1>7. [k \in Key |-> IF db.memory[k] # None THEN db.memory[k] ELSE Executed(r, db).memory[k]]
        = Executed(r, db).memory
  BY <1>1, <1>2, <1>4
<1>8. db.audit \cup Executed(r, db).audit = Executed(r, db).audit
  BY <1>2
<1>9. Saved(Executed(r, db), db) =
        [effects |-> Executed(r, db).effects,
         memory  |-> Executed(r, db).memory,
         audit   |-> Executed(r, db).audit]
  BY <1>7, <1>8 DEF Saved
<1> QED
  BY <1>6, <1>9 DEF Executed

\* Executing a command on agreeing rows gives agreeing rows.
LEMMA ExecutedAgrees ==
  ASSUME NEW r \in Request, db \in Rows, RowsAgree, db.memory[KeyOf[r]] = None,
         db' = Executed(r, db)
  PROVE  db' \in Rows /\ RowsAgree'
<1> DEFINE id == Len(db.effects) + 1
<1>1. /\ db.memory \in [Key -> Memory \cup {None}]
      /\ db.effects \in Seq(Key)
      /\ db.audit \in SUBSET (Nat \X Key)
      /\ KeyOf[r] \in Key
      /\ PayloadOf[r] \in Payload
      /\ id \in Nat /\ id > 0
  BY RequestAssumption DEF Rows
<1>2. /\ db'.effects = Append(db.effects, KeyOf[r])
      /\ db'.memory = [db.memory EXCEPT ![KeyOf[r]] =
                         [payload |-> PayloadOf[r], result |-> id]]
      /\ db'.audit = db.audit \cup {<<id, KeyOf[r]>>}
  BY DEF Executed
<1>3. [payload |-> PayloadOf[r], result |-> id] \in Memory
  BY <1>1 DEF Memory
<1>4. [payload |-> PayloadOf[r], result |-> id] # None
  BY <1>3, RequestAssumption DEF Memory
<1>5. /\ db'.effects \in Seq(Key)
      /\ Len(db'.effects) = id
      /\ db'.effects[id] = KeyOf[r]
      /\ \A i \in 1..Len(db.effects) : db'.effects[i] = db.effects[i]
      /\ 1..id = (1..Len(db.effects)) \cup {id}
  BY <1>1, <1>2
<1>6. db' \in Rows
  <2>1. db'.memory \in [Key -> Memory \cup {None}]
    BY <1>1, <1>2, <1>3
  <2>2. db'.audit \in SUBSET (Nat \X Key)
    BY <1>1, <1>2
  <2> QED
    BY <1>5, <2>1, <2>2 DEF Rows, Executed
<1>7. ASSUME NEW k \in Key, db'.memory[k] # None
      PROVE  /\ db'.memory[k].result \in 1..Len(db'.effects)
             /\ db'.effects[db'.memory[k].result] = k
  <2>1. CASE k = KeyOf[r]
    <3>1. db'.memory[k].result = id
      BY <1>1, <1>2, <2>1
    <3> QED
      BY <1>1, <1>5, <2>1, <3>1
  <2>2. CASE k # KeyOf[r]
    <3>1. db'.memory[k] = db.memory[k]
      BY <1>1, <1>2, <2>2
    <3>2. /\ db.memory[k].result \in 1..Len(db.effects)
          /\ db.effects[db.memory[k].result] = k
      BY <1>7, <3>1 DEF RowsAgree
    <3> QED
      BY <1>5, <3>1, <3>2
  <2> QED
    BY <2>1, <2>2
<1>8. ASSUME NEW i \in 1..Len(db'.effects)
      PROVE  /\ db'.memory[db'.effects[i]] # None
             /\ db'.memory[db'.effects[i]].result = i
  <2>1. CASE i = id
    BY <1>1, <1>2, <1>4, <1>5, <2>1
  <2>2. CASE i \in 1..Len(db.effects)
    <3>1. /\ db'.effects[i] = db.effects[i]
          /\ db.effects[i] \in Key
          /\ db.memory[db.effects[i]] # None
          /\ db.memory[db.effects[i]].result = i
      BY <1>1, <1>5, <2>2 DEF RowsAgree
    <3>2. db.effects[i] # KeyOf[r]
      BY <3>1
    <3> QED
      BY <1>1, <1>2, <3>1, <3>2
  <2> QED
    BY <1>5, <2>1, <2>2
<1>9. AuditMatchesState'
  <2>1. db.audit = {<<i, db.effects[i]>> : i \in 1..Len(db.effects)}
    BY DEF RowsAgree, AuditMatchesState
  <2>2. db'.audit = {<<i, db'.effects[i]>> : i \in 1..Len(db'.effects)}
    BY <1>2, <1>5, <2>1
  <2> QED
    BY <2>2 DEF AuditMatchesState
<1> QED
  BY <1>6, <1>7, <1>8, <1>9 DEF RowsAgree

\* An empty database and idle requests.
LEMMA InitLive == Init => LiveInv
<1> SUFFICES ASSUME Init PROVE LiveInv
  OBVIOUS
<1>1. EmptyStore \in Rows
  BY DEF EmptyStore, Rows
<1>2. TypeOK
  BY <1>1 DEF Init, TypeOK
<1>3. RowsAgree
  BY DEF Init, RowsAgree, AuditMatchesState, EmptyStore
<1> QED
  BY <1>2, <1>3 DEF Init, LiveInv, CheckpointsNeverCollide, WorkIsCurrent, OutcomesAreTruthful

\* A commit: the rows become the executed ones, nobody else is in a unit of
\* work, and what others were told still is what is remembered.
LEMMA CommitLive ==
  ASSUME LiveInv, NEW r \in Request, Commit(r)
  PROVE  /\ LiveInv'
         /\ db' = Executed(r, db)
         /\ db.memory[KeyOf[r]] = None
         /\ UNCHANGED answer
<1>1. /\ db.memory[KeyOf[r]] = None
      /\ store[r] = Executed(r, db)
      /\ db \in Rows
      /\ RowsAgree
      /\ lock = r
      /\ pc \in [Request -> {"idle", "locked", "loaded", "executed", "ended", "failed", "done"}]
  BY DEF LiveInv, TypeOK, WorkIsCurrent, Commit, Step
<1>2. /\ ~IntegrityError(store[r], db)
      /\ Saved(store[r], db) = Executed(r, db)
  BY <1>1, SaveUnderLock
<1>3. /\ db' = Executed(r, db)
      /\ pc[r] = "executed"
      /\ pc' = [pc EXCEPT ![r] = "ended"]
      /\ lock' = None
      /\ UNCHANGED <<store, outcome, answer, crashes>>
  BY <1>2 DEF Commit, Step, Released
<1>4. db' \in Rows /\ RowsAgree'
  BY <1>1, <1>3, ExecutedAgrees
<1>5. TypeOK' /\ CheckpointsNeverCollide'
  BY <1>1, <1>3, <1>4 DEF LiveInv, TypeOK, CheckpointsNeverCollide
<1>6. ASSUME NEW q \in Request, q # r
      PROVE  pc'[q] = pc[q] /\ pc[q] \notin {"locked", "loaded", "executed"}
  BY <1>1, <1>3, <1>6 DEF LiveInv, WorkIsCurrent
<1>7. pc'[r] = "ended"
  BY <1>1, <1>3
<1>8. WorkIsCurrent'
  BY <1>6, <1>7 DEF WorkIsCurrent
<1>9. /\ db.memory \in [Key -> Memory \cup {None}]
      /\ KeyOf[r] \in Key
      /\ db'.memory = [db.memory EXCEPT ![KeyOf[r]] =
                         [payload |-> PayloadOf[r], result |-> Len(db.effects) + 1]]
      /\ Len(db.effects) \in Nat
  <2>1. /\ db.memory \in [Key -> Memory \cup {None}]
        /\ KeyOf[r] \in Key
        /\ Len(db.effects) \in Nat
    BY <1>1, RequestAssumption DEF Rows
  <2>2. db'.memory = [db.memory EXCEPT ![KeyOf[r]] =
                        [payload |-> PayloadOf[r], result |-> Len(db.effects) + 1]]
    BY <1>3 DEF Executed
  <2> QED
    BY <2>1, <2>2
<1>10. ASSUME NEW q \in Request, NEW a, Truthful(q, a)
       PROVE  Truthful(q, a)'
  BY <1>1, <1>9, <1>10, RequestAssumption DEF Truthful
<1>11. outcome[r] \in Answer /\ Truthful(r, outcome[r])'
  <2>1. outcome[r] = [kind |-> "OK", result |-> Len(db.effects) + 1]
    BY <1>3 DEF LiveInv, OutcomesAreTruthful
  <2>2. db'.memory[KeyOf[r]] = [payload |-> PayloadOf[r], result |-> Len(db.effects) + 1]
    BY <1>9
  <2>3. db'.memory[KeyOf[r]] # None
    BY <1>9, <2>2, RequestAssumption
  <2>4. outcome[r] = Remembered(r, db'.memory[KeyOf[r]])
    BY <2>1, <2>2 DEF Remembered
  <2> QED
    <3>1. outcome[r] \in Answer
      BY <1>9, <2>1 DEF Answer
    <3>2. Truthful(r, outcome[r])'
      BY <1>3, <2>3, <2>4 DEF Truthful
    <3> QED
      BY <3>1, <3>2
<1>12. OutcomesAreTruthful'
  BY <1>3, <1>6, <1>7, <1>10, <1>11 DEF LiveInv, OutcomesAreTruthful
<1> QED
  BY <1>1, <1>3, <1>4, <1>5, <1>8, <1>12 DEF LiveInv

\* Every step that leaves the rows alone.
LEMMA QuietLive ==
  ASSUME LiveInv, NEW r \in Request,
         \/ AcquireSnapshotLock(r) \/ Load(r) \/ Replay(r) \/ Execute(r)
         \/ Refused(r) \/ Respond(r) \/ Crash(r)
  PROVE  LiveInv' /\ UNCHANGED db
<1> DEFINE Places == {"idle", "locked", "loaded", "executed", "ended", "failed", "done"}
<1>1. /\ db \in Rows /\ lock \in Request \cup {None} /\ pc \in [Request -> Places]
      /\ store \in [Request -> Rows] /\ outcome \in [Request -> Answer \cup {None}]
      /\ answer \in [Request -> Answer \cup {None}] /\ crashes \in Nat
  BY DEF LiveInv, TypeOK
<1>2. /\ UNCHANGED db
      /\ \A q \in Request : q # r =>
           /\ pc'[q] = pc[q] /\ store'[q] = store[q]
           /\ outcome'[q] = outcome[q] /\ answer'[q] = answer[q]
  BY <1>1 DEF AcquireSnapshotLock, Load, Replay, Execute, Refused, Respond, Crash, Step
<1>3. RowsAgree'
  BY <1>2 DEF LiveInv, RowsAgree, AuditMatchesState
<1>4. db.memory \in [Key -> Memory \cup {None}] /\ KeyOf[r] \in Key /\ PayloadOf[r] \in Payload
      /\ db.effects \in Seq(Key) /\ Len(db.effects) \in Nat /\ None \notin Request
  BY <1>1, RequestAssumption DEF Rows
<1>5. ASSUME NEW m \in Memory PROVE Remembered(r, m) \in Answer
  BY <1>5 DEF Remembered, Memory, Answer
<1>6. [kind |-> "REFUSED", result |-> 0] \in Answer
  BY DEF Answer
<1>7. TypeOK' /\ CheckpointsNeverCollide'
  <2>1. CASE AcquireSnapshotLock(r)
    BY <1>1, <2>1 DEF AcquireSnapshotLock, Step, TypeOK, LiveInv, CheckpointsNeverCollide
  <2>2. CASE Load(r)
    BY <1>1, <2>2 DEF Load, Step, TypeOK, LiveInv, CheckpointsNeverCollide
  <2>3. CASE Replay(r)
    <3>1. Remembered(r, ReplayOf(r, store[r])) \in Answer
      BY <1>4, <1>5, <2>3 DEF Replay, ReplayOf, LiveInv, WorkIsCurrent, Step
    <3> QED
      BY <1>1, <2>3, <3>1 DEF Replay, Step, Released, TypeOK, LiveInv, CheckpointsNeverCollide
  <2>4. CASE Execute(r)
    <3>1. store[r] = db /\ ReplayOf(r, store[r]) = None
      BY <2>4 DEF Execute, Step, LiveInv, WorkIsCurrent
    <3>2. Executed(r, db) \in Rows
      <4>1. [payload |-> PayloadOf[r], result |-> Len(db.effects) + 1] \in Memory
        BY <1>4 DEF Memory
      <4>2. [db.memory EXCEPT ![KeyOf[r]] =
               [payload |-> PayloadOf[r], result |-> Len(db.effects) + 1]]
              \in [Key -> Memory \cup {None}]
        BY <1>4, <4>1
      <4>3. db.audit \cup {<<Len(db.effects) + 1, KeyOf[r]>>} \in SUBSET (Nat \X Key)
        BY <1>1, <1>4 DEF Rows
      <4>4. Append(db.effects, KeyOf[r]) \in Seq(Key)
        BY <1>4
      <4> QED
        BY <4>2, <4>3, <4>4 DEF Executed, Rows
    <3>3. [kind |-> "OK", result |-> Len(store[r].effects) + 1] \in Answer
      BY <1>4, <3>1 DEF Answer
    <3> QED
      BY <1>1, <2>4, <3>1, <3>2, <3>3 DEF Execute, Step, TypeOK, LiveInv, CheckpointsNeverCollide
  <2>5. CASE Refused(r)
    BY <1>1, <1>6, <2>5 DEF Refused, Step, Released, TypeOK, LiveInv, CheckpointsNeverCollide
  <2>6. CASE Respond(r)
    BY <1>1, <2>6 DEF Respond, Step, TypeOK, LiveInv, CheckpointsNeverCollide
  <2>7. CASE Crash(r)
    BY <1>1, <2>7 DEF Crash, Released, TypeOK, LiveInv, CheckpointsNeverCollide
  <2> QED
    BY <2>1, <2>2, <2>3, <2>4, <2>5, <2>6, <2>7
<1>8. WorkIsCurrent'
  <2> SUFFICES ASSUME NEW q \in Request
               PROVE  /\ pc'[q] \in {"locked", "loaded", "executed"} => lock' = q
                      /\ pc'[q] = "loaded" => store'[q] = db
                      /\ pc'[q] = "executed" =>
                           /\ db.memory[KeyOf[q]] = None
                           /\ store'[q] = Executed(q, db)
    BY <1>2 DEF WorkIsCurrent, Executed
  <2>0. /\ pc[q] \in {"locked", "loaded", "executed"} => lock = q
        /\ pc[q] = "loaded" => store[q] = db
        /\ pc[q] = "executed" => db.memory[KeyOf[q]] = None /\ store[q] = Executed(q, db)
        /\ pc[r] \in {"locked", "loaded", "executed"} => lock = r
        /\ pc[r] = "loaded" => store[r] = db
    BY DEF LiveInv, WorkIsCurrent
  <2>1. CASE AcquireSnapshotLock(r)
    BY <1>1, <1>2, <1>4, <2>0, <2>1 DEF AcquireSnapshotLock, Step, Lockable
  <2>2. CASE Load(r)
    BY <1>1, <1>2, <2>0, <2>2 DEF Load, Step
  <2>3. CASE Replay(r)
    BY <1>1, <1>2, <2>0, <2>3 DEF Replay, Step, Released
  <2>4. CASE Execute(r)
    BY <1>1, <1>2, <2>0, <2>4 DEF Execute, Step, ReplayOf
  <2>5. CASE Refused(r)
    BY <1>1, <1>2, <2>0, <2>5 DEF Refused, Step, Released
  <2>6. CASE Respond(r)
    BY <1>1, <1>2, <2>0, <2>6 DEF Respond, Step
  <2>7. CASE Crash(r)
    BY <1>1, <1>2, <2>0, <2>7 DEF Crash, Released
  <2> QED
    BY <2>1, <2>2, <2>3, <2>4, <2>5, <2>6, <2>7
<1>9. OutcomesAreTruthful'
  <2> SUFFICES ASSUME NEW q \in Request
               PROVE  /\ pc'[q] = "executed" =>
                           outcome'[q] = [kind |-> "OK", result |-> Len(db.effects) + 1]
                      /\ pc'[q] = "ended" => outcome'[q] \in Answer /\ Truthful(q, outcome'[q])
                      /\ IF pc'[q] = "done" THEN answer'[q] \in Answer /\ Truthful(q, answer'[q])
                         ELSE answer'[q] = None
    BY <1>2 DEF OutcomesAreTruthful, Truthful
  <2>0. /\ pc[q] = "executed" => outcome[q] = [kind |-> "OK", result |-> Len(db.effects) + 1]
        /\ pc[q] = "ended" => outcome[q] \in Answer /\ Truthful(q, outcome[q])
        /\ pc[q] = "done" => answer[q] \in Answer /\ Truthful(q, answer[q])
        /\ pc[q] # "done" => answer[q] = None
        /\ pc[r] = "loaded" => store[r] = db
    BY DEF LiveInv, OutcomesAreTruthful, WorkIsCurrent
  <2>1. CASE q # r
    BY <1>2, <2>0, <2>1
  <2>2. CASE q = r
    <3>1. CASE AcquireSnapshotLock(r) \/ Load(r) \/ Crash(r)
      BY <1>1, <2>0, <2>2, <3>1 DEF AcquireSnapshotLock, Load, Crash, Step
    <3>2. CASE Replay(r)
      <4>1. /\ db.memory[KeyOf[r]] # None
            /\ outcome'[r] = Remembered(r, db.memory[KeyOf[r]])
            /\ pc'[r] = "ended" /\ answer'[r] = None
        BY <1>1, <2>0, <2>2, <3>2 DEF Replay, ReplayOf, Step
      <4>2. Remembered(r, db.memory[KeyOf[r]]) \in Answer
        BY <1>4, <1>5, <4>1
      <4> QED
        BY <2>2, <4>1, <4>2 DEF Truthful
    <3>3. CASE Execute(r)
      BY <1>1, <2>0, <2>2, <3>3 DEF Execute, Step
    <3>4. CASE Refused(r)
      <4>1. /\ outcome'[r] = [kind |-> "REFUSED", result |-> 0]
            /\ pc'[r] = "ended" /\ answer'[r] = None
        BY <1>1, <2>0, <2>2, <3>4 DEF Refused, Step
      <4> QED
        BY <1>6, <2>2, <4>1 DEF Truthful
    <3>5. CASE Respond(r)
      BY <1>1, <2>0, <2>2, <3>5 DEF Respond, Step
    <3> QED
      BY <3>1, <3>2, <3>3, <3>4, <3>5
  <2> QED
    BY <2>1, <2>2
<1> QED
  BY <1>2, <1>3, <1>7, <1>8, <1>9 DEF LiveInv

\* Every step preserves the invariant.
LEMMA NextLive == LiveInv /\ [Next]_liveVars => LiveInv'
<1> SUFFICES ASSUME LiveInv, [Next]_liveVars PROVE LiveInv'
  OBVIOUS
<1>1. CASE Next
  BY <1>1, QuietLive, CommitLive DEF Next, Progress
<1>2. CASE UNCHANGED liveVars
  BY <1>2 DEF liveVars, LiveInv, TypeOK, CheckpointsNeverCollide, RowsAgree, AuditMatchesState,
              WorkIsCurrent, OutcomesAreTruthful, Truthful, Executed
<1> QED
  BY <1>1, <1>2

\* The runtime keeps its invariant for ever.
LEMMA LiveInvariant == Spec => []LiveInv
BY InitLive, NextLive, PTL DEF Spec

\* A command takes effect at most once, however often it is retried.
THEOREM CommandsHappenOnce == Spec => []EffectsHappenOnce
<1>1. LiveInv => EffectsHappenOnce
  BY DEF LiveInv, RowsAgree, EffectsHappenOnce
<1> QED
  BY <1>1, LiveInvariant, PTL

\* What a client was told stands for ever.
THEOREM AnswersStand == Spec => []AnswersAreDurable
<1>1. LiveInv => AnswersAreDurable
  <2> SUFFICES ASSUME LiveInv, NEW r \in Request, answer[r] # None, answer[r].kind = "OK"
               PROVE  /\ answer[r].result \in 1..Len(db.effects)
                      /\ db.effects[answer[r].result] = KeyOf[r]
    BY DEF AnswersAreDurable
  <2>1. Truthful(r, answer[r])
    BY DEF LiveInv, OutcomesAreTruthful
  <2>2. /\ db.memory[KeyOf[r]] # None
        /\ answer[r].result = db.memory[KeyOf[r]].result
    BY <2>1 DEF Truthful, Remembered
  <2> QED
    BY <2>2, RequestAssumption DEF LiveInv, RowsAgree
<1> QED
  BY <1>1, LiveInvariant, PTL

\* The audit trail tells exactly the effects that are in the database, after any
\* number of crashes, rollbacks and retries.
THEOREM AuditTellsTheState == Spec => []AuditMatchesState
<1>1. LiveInv => AuditMatchesState
  BY DEF LiveInv, RowsAgree
<1> QED
  BY <1>1, LiveInvariant, PTL

\* Checkpoints never collide: save never meets foreign rows (uow.py).
THEOREM NoCollision == Spec => []CheckpointsNeverCollide
<1>1. LiveInv => CheckpointsNeverCollide
  BY DEF LiveInv
<1> QED
  BY <1>1, LiveInvariant, PTL

\* The runtime implements the ledger: every step of locking, loading, saving,
\* crashing and retrying is a step of the ledger or invisible in it.
THEOREM RuntimeImplementsLedger == Spec => ImplementsLedger
<1>1. Init => Ledger!LedgerInit
  BY DEF Init, EmptyStore, Ledger!LedgerInit
<1>2. LiveInv /\ [Next]_liveVars => [Ledger!LedgerNext]_(Ledger!ledgerVars)
  <2> SUFFICES ASSUME LiveInv, [Next]_liveVars
               PROVE  Ledger!LedgerNext \/ UNCHANGED Ledger!ledgerVars
    OBVIOUS
  <2>1. CASE UNCHANGED liveVars
    BY <2>1 DEF liveVars, Ledger!ledgerVars
  <2>2. ASSUME NEW r \in Request, Commit(r)
        PROVE  Ledger!Apply(r)
    BY <2>2, CommitLive DEF Executed, Ledger!Apply
  <2>3. ASSUME NEW r \in Request, Respond(r)
        PROVE  Ledger!Reply(r) \/ Ledger!Refuse(r)
    <3>1. /\ answer[r] = None
          /\ outcome[r] \in Answer
          /\ Truthful(r, outcome[r])
          /\ answer' = [answer EXCEPT ![r] = outcome[r]]
          /\ UNCHANGED db
      BY <2>3 DEF Respond, Step, LiveInv, OutcomesAreTruthful
    <3>2. CASE outcome[r].kind = "REFUSED"
      <4>1. outcome[r] = [kind |-> "REFUSED", result |-> 0]
        BY <3>1, <3>2 DEF Answer
      <4> QED
        BY <3>1, <4>1 DEF Ledger!Refuse
    <3>3. CASE outcome[r].kind # "REFUSED"
      BY <3>1, <3>3 DEF Truthful, Remembered, Ledger!Reply, Ledger!Remembered
    <3> QED
      BY <3>2, <3>3
  <2>4. ASSUME NEW r \in Request,
               \/ AcquireSnapshotLock(r) \/ Load(r) \/ Replay(r) \/ Execute(r)
               \/ Refused(r) \/ Crash(r)
        PROVE  UNCHANGED Ledger!ledgerVars
    BY <2>4 DEF AcquireSnapshotLock, Load, Replay, Execute, Refused, Crash, Ledger!ledgerVars
  <2> QED
    BY <2>1, <2>2, <2>3, <2>4 DEF Next, Progress, Ledger!LedgerNext
<1> QED
  BY <1>1, <1>2, LiveInvariant, PTL DEF Spec, ImplementsLedger, Ledger!LedgerSpec
=============================================================================
