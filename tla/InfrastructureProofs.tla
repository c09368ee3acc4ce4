------------------------ MODULE InfrastructureProofs ------------------------
(***************************************************************************)
(* Theorems about app/infrastructure.  The outbox fences its tasks, for any *)
(* number of items, tasks and attempts, any lease and any staleness of the  *)
(* clocks; units of work lose no update, audit what they change and use     *)
(* once what is for one use, for any number of units, aggregates, keys,     *)
(* links.                                                                   *)
(***************************************************************************)
EXTENDS Outbox, UnitOfWork, TLAPS

-----------------------------------------------------------------------------
(* The transactional outbox: Outbox *)

\* What the methods preserve: the listed invariants, and that nobody holds an
\* attempt that the row has not counted yet.
FencingInv ==
  /\ OutboxTypeOK
  /\ AttemptsAreCounted
  /\ OutcomeOfLatestAttempt
  /\ AttemptsAreExclusive
  /\ ReceiptIsOfLatestAttempt

\* Timers run down within their range (Tick).
LEMMA TimersRunDown ==
  ASSUME NEW row \in ItemRecord
  PROVE  LET next == [row EXCEPT !.lockedUntil = Closer(@), !.nextAttempt = Closer(@)]
         IN  /\ next \in ItemRecord
             /\ next.status = row.status
             /\ next.attempts = row.attempts
             /\ next.ack = row.ack
<1>1. ASSUME NEW t \in TimeLeft PROVE Closer(t) \in TimeLeft
  BY TimeAssumption DEF TimeLeft, Closer
<1>2. /\ Closer(row.lockedUntil) \in TimeLeft
      /\ Closer(row.nextAttempt) \in TimeLeft
  BY <1>1 DEF ItemRecord
<1>3. ASSUME NEW s \in TimeLeft, NEW t \in TimeLeft
      PROVE  LET next == [row EXCEPT !.lockedUntil = s, !.nextAttempt = t]
             IN  /\ next \in ItemRecord
                 /\ next.status = row.status
                 /\ next.attempts = row.attempts
                 /\ next.ack = row.ack
  BY DEF ItemRecord
<1> QED
  BY <1>2, <1>3

\* The initial outbox is empty.
LEMMA InitFencing == OutboxInit => FencingInv
<1> SUFFICES ASSUME OutboxInit PROVE FencingInv
  OBVIOUS
<1>1. 0 - MaxLag \in TimeLeft /\ 0 \in Attempt
  BY TimeAssumption, OutboxBounds DEF TimeLeft, Attempt
<1>2. OutboxTypeOK
  BY <1>1 DEF OutboxInit, OutboxTypeOK, ItemRecord
<1> QED
  BY <1>2 DEF OutboxInit, FencingInv, AttemptsAreCounted, OutcomeOfLatestAttempt,
              AttemptsAreExclusive, ReceiptIsOfLatestAttempt

\* A row of the outbox has the fields of ItemRecord, and an attempt is a number.
LEMMA RowType ==
  ASSUME OutboxTypeOK, NEW i \in Item
  PROVE  /\ items[i] \in ItemRecord
         /\ items[i].attempts \in Attempt
         /\ writer[i] \in Attempt
BY DEF OutboxTypeOK, ItemRecord

\* Claiming gives the next attempt of each row to one worker, and to no other:
\* the attempts in hand elsewhere are smaller.
LEMMA ClaimFencing ==
  ASSUME FencingInv, NEW w \in Worker, NEW S \in SUBSET Item, NEW lag \in Lag,
         ClaimDue(w, S, lag)
  PROVE  FencingInv'
<1>1. OutboxTypeOK /\ UNCHANGED <<sent, writer>>
  BY DEF FencingInv, ClaimDue
<1>2. /\ claims \in [Worker -> SUBSET (Item \X Attempt)]
      /\ claims' = [claims EXCEPT ![w] = @ \cup {<<i, NextAttemptCount(i)>> : i \in S}]
  BY <1>1 DEF OutboxTypeOK, ClaimDue
<1>3. ASSUME NEW i \in S
      PROVE  /\ NextAttemptCount(i) \in Attempt
             /\ NextAttemptCount(i) = items[i].attempts + 1
             /\ items[i].status \in {"PENDING", "FAILED", "PROCESSING"}
             /\ items'[i] \in ItemRecord
             /\ items'[i].status = "PROCESSING"
             /\ items'[i].attempts = NextAttemptCount(i)
  <2>1. items[i] \in ItemRecord /\ items[i].attempts \in Attempt /\ i \in Item
    BY <1>1, RowType
  <2>2. NextAttemptCount(i) \in Attempt /\ NextAttemptCount(i) = items[i].attempts + 1
    <3>1. items[i].attempts < MaxAttempts
      BY DEF ClaimDue
    <3> QED
      BY <2>1, <3>1, OutboxBounds DEF NextAttemptCount, Attempt
  <2>3. LeaseFor - lag \in TimeLeft
    BY TimeAssumption DEF Lag, TimeLeft
  <2>4. items'[i] = [items[i] EXCEPT !.status = "PROCESSING",
                                     !.attempts = NextAttemptCount(i),
                                     !.lockedBy = w,
                                     !.lockedUntil = LeaseFor - lag]
    BY <2>1 DEF ClaimDue
  <2>5. items[i].status \in {"PENDING", "FAILED", "PROCESSING"}
    BY DEF ClaimDue, Due
  <2> QED
    BY <2>1, <2>2, <2>3, <2>4, <2>5 DEF ItemRecord
<1>4. ASSUME NEW i \in Item, i \notin S
      PROVE  items'[i] = items[i]
  BY <1>4 DEF ClaimDue
<1>5. ASSUME NEW v \in Worker, NEW i \in Item, NEW n \in Attempt, <<i, n>> \in claims'[v]
      PROVE  <<i, n>> \in claims[v] \/ (v = w /\ i \in S /\ n = NextAttemptCount(i))
  BY <1>2, <1>5
<1>6. OutboxTypeOK'
  <2>1. items' \in [Item -> ItemRecord]
    <3>1. ASSUME NEW i \in Item PROVE items'[i] \in ItemRecord
      BY <1>1, <1>3, <1>4, RowType
    <3> QED
      BY <3>1 DEF ClaimDue
  <2>2. claims' \in [Worker -> SUBSET (Item \X Attempt)]
    BY <1>2, <1>3
  <2> QED
    BY <1>1, <2>1, <2>2 DEF OutboxTypeOK
<1>7. ASSUME NEW i \in Item
      PROVE  items[i].attempts \in Nat /\ items'[i].attempts \in Nat
             /\ items[i].attempts <= items'[i].attempts
  BY <1>1, <1>3, <1>4, RowType DEF Attempt
<1>8. ASSUME NEW v \in Worker, NEW i \in Item, NEW n \in Attempt, <<i, n>> \in claims[v]
      PROVE  n <= items[i].attempts
  BY <1>8 DEF FencingInv, AttemptsAreCounted
<1>9. AttemptsAreCounted'
  <2>1. ASSUME NEW v \in Worker, NEW i \in Item, NEW n \in Attempt, <<i, n>> \in claims'[v]
        PROVE  n <= items'[i].attempts
    BY <1>3, <1>5, <1>7, <1>8, <2>1 DEF Attempt
  <2>2. ASSUME NEW i \in Item, items'[i].status = "ABSENT"
        PROVE  items'[i].attempts = 0
    BY <1>3, <1>4, <2>2 DEF FencingInv, AttemptsAreCounted
  <2> QED
    BY <2>1, <2>2 DEF AttemptsAreCounted
<1>10. OutcomeOfLatestAttempt' /\ ReceiptIsOfLatestAttempt'
  BY <1>1, <1>3, <1>4 DEF FencingInv, OutcomeOfLatestAttempt, ReceiptIsOfLatestAttempt
<1>11. AttemptsAreExclusive'
  <2> SUFFICES ASSUME NEW u \in Worker, NEW v \in Worker, NEW i \in Item, NEW n \in Attempt,
                      <<i, n>> \in claims'[u], <<i, n>> \in claims'[v]
               PROVE  u = v
    BY DEF AttemptsAreExclusive
  <2>1. ASSUME NEW x \in Worker, <<i, n>> \in claims[x]
        PROVE  ~(i \in S /\ n = NextAttemptCount(i))
    BY <1>3, <1>7, <1>8, <2>1 DEF Attempt
  <2> QED
    BY <1>5, <2>1 DEF FencingInv, AttemptsAreExclusive
<1> QED
  BY <1>6, <1>9, <1>10, <1>11 DEF FencingInv

\* An outcome is written under the row's current attempt only.
LEMMA MarkFencing ==
  ASSUME FencingInv, NEW w \in Worker, NEW i \in Item, NEW n \in Attempt, NEW lag \in Lag,
         MarkFailed(w, i, n, lag) \/ MarkDelivered(w, i, n, lag)
  PROVE  FencingInv'
<1>1. /\ OutboxTypeOK
      /\ UNCHANGED <<claims, sent>>
      /\ writer' = [writer EXCEPT ![i] = n]
      /\ items[i].attempts = n
      /\ items[i].status = "PROCESSING"
  BY DEF FencingInv, MarkFailed, MarkDelivered, MayAcknowledge, ActiveLease
<1>2. items[i] \in ItemRecord
  BY <1>1, RowType
<1>3. /\ 0 - MaxLag \in TimeLeft
      /\ RetryDelay - lag \in TimeLeft
  BY TimeAssumption DEF Lag, TimeLeft
<1>4. items \in [Item -> ItemRecord]
  BY <1>1 DEF OutboxTypeOK
<1>5. /\ items' \in [Item -> ItemRecord]
      /\ items'[i].attempts = n
      /\ items'[i].status \in {"FAILED", "DELIVERED"}
      /\ items'[i].status = "DELIVERED" => items'[i].ack = n /\ <<i, n>> \in sent
      /\ \A j \in Item : j # i => items'[j] = items[j]
  <2>1. CASE MarkFailed(w, i, n, lag)
    BY <1>1, <1>2, <1>3, <1>4, <2>1 DEF MarkFailed, ItemRecord
  <2>2. CASE MarkDelivered(w, i, n, lag)
    BY <1>1, <1>2, <1>3, <1>4, <2>2 DEF MarkDelivered, ItemRecord
  <2> QED
    BY <2>1, <2>2
<1>6. OutboxTypeOK'
  BY <1>1, <1>5 DEF OutboxTypeOK
<1>7. AttemptsAreCounted' /\ AttemptsAreExclusive'
  BY <1>1, <1>5 DEF FencingInv, AttemptsAreCounted, AttemptsAreExclusive
<1>8. OutcomeOfLatestAttempt'
  BY <1>1, <1>5 DEF FencingInv, OutcomeOfLatestAttempt, OutboxTypeOK
<1>9. ReceiptIsOfLatestAttempt'
  BY <1>1, <1>5 DEF FencingInv, ReceiptIsOfLatestAttempt
<1> QED
  BY <1>6, <1>7, <1>8, <1>9 DEF FencingInv

\* Every step of the outbox preserves the invariant.
LEMMA NextFencing == FencingInv /\ [OutboxNext]_outboxVars => FencingInv'
<1> SUFFICES ASSUME FencingInv, [OutboxNext]_outboxVars PROVE FencingInv'
  OBVIOUS
<1>1. OutboxTypeOK
  BY DEF FencingInv
<1>2. ASSUME NEW i \in Item, NEW next \in FirstAttempt, Enqueue(i, next) PROVE FencingInv'
  <2>1. items \in [Item -> ItemRecord]
    BY <1>1 DEF OutboxTypeOK
  <2>2. next \in TimeLeft
    BY TimeAssumption DEF FirstAttempt, TimeLeft
  <2>3. items' = [items EXCEPT ![i] = [items[i] EXCEPT !.status = "PENDING",
                                                       !.nextAttempt = next]]
    BY <1>2, <2>1 DEF Enqueue
  <2>4. /\ items'[i] = [items[i] EXCEPT !.status = "PENDING", !.nextAttempt = next]
        /\ items'[i] \in ItemRecord
        /\ items'[i].status = "PENDING"
        /\ items'[i].attempts = items[i].attempts
    <3>1. items[i] \in ItemRecord
      BY <2>1
    <3>2. items'[i] = [items[i] EXCEPT !.status = "PENDING", !.nextAttempt = next]
      BY <2>1, <2>3
    <3> QED
      BY <2>2, <3>1, <3>2 DEF ItemRecord
  <2>5. /\ items' \in [Item -> ItemRecord]
        /\ items'[i].status = "PENDING"
        /\ items'[i].attempts = items[i].attempts
        /\ \A j \in Item : j # i => items'[j] = items[j]
        /\ UNCHANGED <<claims, sent, writer>>
    BY <1>2, <2>1, <2>3, <2>4 DEF Enqueue
  <2> QED
    BY <2>5 DEF FencingInv, OutboxTypeOK, AttemptsAreCounted, OutcomeOfLatestAttempt,
                AttemptsAreExclusive, ReceiptIsOfLatestAttempt
<1>3. CASE Tick
  <2>1. ASSUME NEW i \in Item
        PROVE  /\ items'[i] \in ItemRecord
               /\ items'[i].status = items[i].status
               /\ items'[i].attempts = items[i].attempts
               /\ items'[i].ack = items[i].ack
    BY <1>1, <1>3, RowType, TimersRunDown DEF Tick
  <2>2. items' \in [Item -> ItemRecord] /\ UNCHANGED <<claims, sent, writer>>
    BY <1>3, <2>1 DEF Tick
  <2> QED
    BY <2>1, <2>2 DEF FencingInv, OutboxTypeOK, AttemptsAreCounted, OutcomeOfLatestAttempt,
                      AttemptsAreExclusive, ReceiptIsOfLatestAttempt
<1>4. CASE ClaimNext
  BY <1>4, ClaimFencing DEF ClaimNext
<1>5. CASE TaskNext
  <2> PICK w \in Worker, i \in Item, n \in Attempt :
        \/ \E lag \in Lag : MarkFailed(w, i, n, lag) \/ MarkDelivered(w, i, n, lag)
        \/ Send(w, i, n)
        \/ Drop(w, i, n)
    BY <1>5 DEF TaskNext
  <2>1. CASE \E lag \in Lag : MarkFailed(w, i, n, lag) \/ MarkDelivered(w, i, n, lag)
    BY <2>1, MarkFencing
  <2>2. CASE Send(w, i, n)
    BY <2>2 DEF Send, FencingInv, OutboxTypeOK, AttemptsAreCounted, OutcomeOfLatestAttempt,
                AttemptsAreExclusive, ReceiptIsOfLatestAttempt
  <2>3. CASE Drop(w, i, n)
    BY <2>3 DEF Drop, FencingInv, OutboxTypeOK, AttemptsAreCounted, OutcomeOfLatestAttempt,
                AttemptsAreExclusive, ReceiptIsOfLatestAttempt
  <2> QED
    BY <2>1, <2>2, <2>3
<1>6. ASSUME NEW w \in Worker, Crash(w) PROVE FencingInv'
  BY <1>6 DEF Crash, FencingInv, OutboxTypeOK, AttemptsAreCounted, OutcomeOfLatestAttempt,
              AttemptsAreExclusive, ReceiptIsOfLatestAttempt
<1>7. CASE UNCHANGED outboxVars
  BY <1>7 DEF outboxVars, FencingInv, OutboxTypeOK, AttemptsAreCounted, OutcomeOfLatestAttempt,
              AttemptsAreExclusive, ReceiptIsOfLatestAttempt
<1> QED
  BY <1>2, <1>3, <1>4, <1>5, <1>6, <1>7 DEF OutboxNext

\* The outbox keeps its invariant for ever.
LEMMA Fenced == OutboxSpec => []FencingInv
BY InitFencing, NextFencing, PTL DEF OutboxSpec

\* The outcome a row shows is always that of its latest attempt: no stale
\* worker overwrites a successor (_assert_active_lease).
THEOREM OutcomesAreFenced == OutboxSpec => []OutcomeOfLatestAttempt
<1>1. FencingInv => OutcomeOfLatestAttempt
  BY DEF FencingInv
<1> QED
  BY <1>1, Fenced, PTL

\* Two tasks never hold the same attempt of an item (claim_due).
THEOREM ClaimsAreExclusive == OutboxSpec => []AttemptsAreExclusive
<1>1. FencingInv => AttemptsAreExclusive
  BY DEF FencingInv
<1> QED
  BY <1>1, Fenced, PTL

\* A delivered row carries the receipt of its latest attempt (mark_delivered).
THEOREM ReceiptsAreReal == OutboxSpec => []ReceiptIsOfLatestAttempt
<1>1. FencingInv => ReceiptIsOfLatestAttempt
  BY DEF FencingInv
<1> QED
  BY <1>1, Fenced, PTL

\* A delivered row never changes again, whatever late workers report.
THEOREM DeliveryIsFinal == OutboxSpec => DeliveredIsFinal
<1> DEFINE Final == \A i \in Item :
                      items[i].status = "DELIVERED" =>
                        /\ items'[i].status = "DELIVERED"
                        /\ items'[i].ack = items[i].ack
                        /\ items'[i].attempts = items[i].attempts
                        /\ writer'[i] = writer[i]
<1>1. FencingInv /\ [OutboxNext]_outboxVars => [Final]_outboxVars
  <2> SUFFICES ASSUME FencingInv, OutboxNext, NEW i \in Item, items[i].status = "DELIVERED"
               PROVE  /\ items'[i].status = "DELIVERED"
                      /\ items'[i].ack = items[i].ack
                      /\ items'[i].attempts = items[i].attempts
                      /\ writer'[i] = writer[i]
    BY DEF OutboxNext
  <2>1. /\ items \in [Item -> ItemRecord]
        /\ writer \in [Item -> Attempt]
        /\ items[i] \in ItemRecord
    BY DEF FencingInv, OutboxTypeOK
  <2>2. ASSUME NEW j \in Item, NEW next \in FirstAttempt, Enqueue(j, next)
        PROVE  j # i /\ items'[i] = items[i] /\ writer' = writer
    BY <2>1, <2>2 DEF Enqueue
  <2>3. CASE Tick
    BY <2>1, <2>3, TimersRunDown DEF Tick
  <2>4. CASE ClaimNext
    BY <2>4 DEF ClaimNext, ClaimDue, Due
  <2>5. CASE TaskNext
    <3> PICK w \in Worker, j \in Item, n \in Attempt :
          \/ \E lag \in Lag : MarkFailed(w, j, n, lag) \/ MarkDelivered(w, j, n, lag)
          \/ Send(w, j, n)
          \/ Drop(w, j, n)
      BY <2>5 DEF TaskNext
    <3>1. ASSUME NEW lag \in Lag, MarkFailed(w, j, n, lag)
          PROVE  items'[i] = items[i] /\ writer'[i] = writer[i]
      <4>1. items[j].status = "PROCESSING"
        BY <3>1 DEF MarkFailed, ActiveLease
      <4> QED
        BY <2>1, <3>1, <4>1 DEF MarkFailed
    <3>2. ASSUME NEW lag \in Lag, MarkDelivered(w, j, n, lag)
          PROVE  items'[i] = items[i] /\ writer'[i] = writer[i]
      <4>1. items[j].status = "PROCESSING"
        BY <3>2 DEF MarkDelivered, MayAcknowledge, ActiveLease
      <4> QED
        BY <2>1, <3>2, <4>1 DEF MarkDelivered
    <3>3. CASE Send(w, j, n) \/ Drop(w, j, n)
      BY <3>3 DEF Send, Drop
    <3> QED
      BY <3>1, <3>2, <3>3
  <2>6. ASSUME NEW w \in Worker, Crash(w) PROVE items' = items /\ writer' = writer
    BY <2>6 DEF Crash
  <2> QED
    BY <2>2, <2>3, <2>4, <2>5, <2>6 DEF OutboxNext
<1> QED
  BY <1>1, Fenced, PTL DEF OutboxSpec, DeliveredIsFinal

-----------------------------------------------------------------------------
(* The core database: UnitOfWork *)

(* Types *)

\* Initially the rows and the units have their types.
LEMMA TypeInit == Init => TypeOK
<1> SUFFICES ASSUME Init PROVE TypeOK
  OBVIOUS
<1>1. 0 \in Versions /\ 1 \in Versions /\ 0 \in 0..MaxRollbacks
  BY UnitOfWorkAssumption DEF Versions
<1>2. content \in [Aggregates -> SUBSET Transition]
  <2> SUFFICES ASSUME NEW a \in Aggregates
               PROVE {[to |-> v, by |-> NoAnswer] : v \in {1} \cap {version[a]}}
                       \subseteq Transition
    BY DEF Init
  <2> QED
    BY <1>1 DEF Transition
<1>3. /\ version \in [Aggregates -> Versions]
      /\ done \in [Aggregates -> SUBSET Transition]
  BY <1>1, <1>2 DEF Init
<1>4. /\ events \subseteq (Aggregates \X Versions)
      /\ keyStatus \in [Keys -> Statuses]
      /\ keyPrint \in [Keys -> Prints \cup {NoAnswer}]
      /\ keyAnswer \in [Keys -> Answers \cup {NoAnswer}]
      /\ consumed \subseteq Nonces
      /\ phase \in [Units -> Phases]
  BY DEF Init, Statuses, Phases
<1>5. /\ held \in [Units -> [Aggregates -> Versions]]
      /\ image \in [Units -> [Aggregates -> SUBSET Transition]]
      /\ wrote \in [Units -> [Aggregates -> Versions]]
      /\ draft \in [Units -> [Aggregates -> SUBSET Transition]]
  BY <1>1 DEF Init
<1>6. /\ staged \in [Units -> SUBSET (Aggregates \X Versions)]
      /\ lost \in [Units -> SUBSET (Aggregates \X Versions)]
      /\ saved \in [Units -> SUBSET (Aggregates \X Versions)]
      /\ appended \in [Units -> SUBSET (Aggregates \X Versions)]
      /\ print \in [Units -> Prints \cup {NoAnswer}]
      /\ claim \in [Units -> Statuses]
      /\ answer \in [Units -> Answers \cup {NoAnswer}]
      /\ taken \in [Units -> SUBSET Nonces]
      /\ rollbacks \in [Units -> 0..MaxRollbacks]
      /\ told \in [Units -> SUBSET (Answers \cup {NoAnswer})]
      /\ granted \in [Units -> SUBSET Nonces]
      /\ claimants \in [Keys -> SUBSET Units]
  BY <1>1 DEF Init, Statuses
<1> QED
  BY <1>2, <1>3, <1>4, <1>5, <1>6 DEF TypeOK

\* Saving gives the row the next version.
LEMMA UpdateTypes ==
  ASSUME TypeOK, NEW u \in Units, NEW a \in Aggregates, UpdateRow(u, a)
  PROVE  /\ held[u][a] + 1 \in Versions
         /\ image[u][a] \cup {[to |-> held[u][a] + 1, by |-> u]} \in SUBSET Transition
         /\ wrote' \in [Units -> [Aggregates -> Versions]]
         /\ draft' \in [Units -> [Aggregates -> SUBSET Transition]]
         /\ saved' \in [Units -> SUBSET (Aggregates \X Versions)]
<1> DEFINE next == held[u][a] + 1
           change == image[u][a] \cup {[to |-> next, by |-> u]}
<1>1. next \in Versions
  BY UnitOfWorkAssumption DEF UpdateRow, Versions
<1>2. change \in SUBSET Transition
  BY <1>1 DEF TypeOK, Transition
<1>3. /\ wrote' = [wrote EXCEPT ![u][a] = next]
      /\ draft' = [draft EXCEPT ![u][a] = change]
      /\ saved' = [saved EXCEPT ![u] = @ \cup {<<a, next>>}]
  BY DEF UpdateRow
<1> HIDE DEF next, change
<1>4. wrote' \in [Units -> [Aggregates -> Versions]]
  BY <1>1, <1>3 DEF TypeOK
<1>5. draft' \in [Units -> [Aggregates -> SUBSET Transition]]
  BY <1>2, <1>3 DEF TypeOK
<1>6. saved' \in [Units -> SUBSET (Aggregates \X Versions)]
  BY <1>1, <1>3 DEF TypeOK
<1> QED
  BY <1>1, <1>2, <1>4, <1>5, <1>6 DEF next, change

\* And the unit a copy of it.
LEMMA SaveTypes ==
  ASSUME TypeOK, NEW u \in Units, NEW a \in Aggregates, Save(u, a)
  PROVE  /\ held' \in [Units -> [Aggregates -> Versions]]
         /\ image' \in [Units -> [Aggregates -> SUBSET Transition]]
         /\ wrote' \in [Units -> [Aggregates -> Versions]]
         /\ draft' \in [Units -> [Aggregates -> SUBSET Transition]]
         /\ saved' \in [Units -> SUBSET (Aggregates \X Versions)]
<1> DEFINE next == held[u][a] + 1
           change == image[u][a] \cup {[to |-> next, by |-> u]}
<1>1. UpdateRow(u, a)
  BY DEF Save
<1>2. next \in Versions /\ change \in SUBSET Transition
  BY <1>1, UpdateTypes
<1>3. /\ held' = [held EXCEPT ![u][a] = next]
      /\ image' = [image EXCEPT ![u][a] = change]
  BY DEF Save, TypeOK
<1> HIDE DEF next, change
<1>4. held' \in [Units -> [Aggregates -> Versions]]
  BY <1>2, <1>3 DEF TypeOK
<1>5. image' \in [Units -> [Aggregates -> SUBSET Transition]]
  BY <1>2, <1>3 DEF TypeOK
<1> QED
  BY <1>1, <1>4, <1>5, UpdateTypes

\* An event that is recorded, or counted and refused.
LEMMA EventTypes ==
  ASSUME TypeOK, NEW u \in Units, NEW entry \in Aggregates \X Versions,
         RecordEvent(u, entry) \/ RefuseEvent(u, entry)
  PROVE  /\ staged' \in [Units -> SUBSET (Aggregates \X Versions)]
         /\ lost' \in [Units -> SUBSET (Aggregates \X Versions)]
         /\ appended' \in [Units -> SUBSET (Aggregates \X Versions)]
         /\ phase' \in [Units -> Phases]
<1> DEFINE Event == Aggregates \X Versions
<1>0. /\ staged \in [Units -> SUBSET Event] /\ lost \in [Units -> SUBSET Event]
      /\ appended \in [Units -> SUBSET Event] /\ entry \in Event
  BY DEF TypeOK
<1> HIDE DEF Event
<1>1. appended' \in [Units -> SUBSET Event]
  BY <1>0 DEF RecordEvent, RefuseEvent, Count
<1>2. staged' \in [Units -> SUBSET Event] /\ lost' \in [Units -> SUBSET Event]
  BY <1>0 DEF RecordEvent, RefuseEvent
<1>3. phase' \in [Units -> Phases]
  BY DEF RecordEvent, RefuseEvent, TypeOK, Phases
<1> QED
  BY <1>1, <1>2, <1>3 DEF Event

\* Rolling back empties what a unit has written.
LEMMA DiscardTypes ==
  ASSUME TypeOK, NEW u \in Units, Discard(u)
  PROVE  /\ wrote' \in [Units -> [Aggregates -> Versions]]
         /\ draft' \in [Units -> [Aggregates -> SUBSET Transition]]
         /\ staged' \in [Units -> SUBSET (Aggregates \X Versions)]
         /\ lost' \in [Units -> SUBSET (Aggregates \X Versions)]
         /\ claim' \in [Units -> Statuses]
         /\ answer' \in [Units -> Answers \cup {NoAnswer}]
         /\ taken' \in [Units -> SUBSET Nonces]
         /\ told' \in [Units -> SUBSET (Answers \cup {NoAnswer})]
         /\ granted' \in [Units -> SUBSET Nonces]
         /\ print' = print
<1>1. 0 \in Versions
  BY UnitOfWorkAssumption DEF Versions
<1>2. /\ wrote' \in [Units -> [Aggregates -> Versions]]
      /\ draft' \in [Units -> [Aggregates -> SUBSET Transition]]
  BY <1>1 DEF TypeOK, Discard
<1>3. /\ staged' \in [Units -> SUBSET (Aggregates \X Versions)]
      /\ lost' \in [Units -> SUBSET (Aggregates \X Versions)]
      /\ claim' \in [Units -> Statuses]
      /\ answer' \in [Units -> Answers \cup {NoAnswer}]
  BY DEF TypeOK, Discard, Statuses
<1>4. /\ taken' \in [Units -> SUBSET Nonces]
      /\ told' \in [Units -> SUBSET (Answers \cup {NoAnswer})]
      /\ granted' \in [Units -> SUBSET Nonces]
      /\ print' = print
  BY DEF TypeOK, Discard
<1> QED
  BY <1>2, <1>3, <1>4

\* Every step keeps the types.
LEMMA TypeStep == TypeOK /\ [Next]_vars => TypeOK'
<1> SUFFICES ASSUME TypeOK, [Next]_vars PROVE TypeOK'
  OBVIOUS
<1>1. CASE UNCHANGED vars
  BY <1>1 DEF TypeOK, vars, database, copies, rows, transitionKeys, reservation,
              links, history
<1>2. ASSUME NEW u \in Units, Enter(u) PROVE TypeOK'
  <2>1. phase' \in [Units -> Phases] /\ print' \in [Units -> Prints \cup {NoAnswer}]
    BY <1>2 DEF Enter, TypeOK, Phases
  <2> QED
    BY <1>2, <2>1 DEF Enter, TypeOK, database, copies, rows, transitionKeys, links, history
<1>3. ASSUME NEW u \in Units, NEW a \in Aggregates, Get(u, a) PROVE TypeOK'
  <2>1. Visible(u, a) \in Versions /\ VisibleContent(u, a) \in SUBSET Transition
    BY DEF TypeOK, Visible, VisibleContent
  <2>2. /\ held' \in [Units -> [Aggregates -> Versions]]
        /\ image' \in [Units -> [Aggregates -> SUBSET Transition]]
    BY <1>3, <2>1 DEF Get, TypeOK
  <2> QED
    BY <1>3, <2>2 DEF Get, TypeOK, database, rows, transitionKeys, reservation, links,
                      history
<1>4. ASSUME NEW u \in Units, NEW a \in Aggregates, Add(u, a) PROVE TypeOK'
  <2>1. 1 \in Versions /\ {[to |-> 1, by |-> u]} \in SUBSET Transition
    BY UnitOfWorkAssumption DEF Versions, Transition
  <2>2. /\ held' \in [Units -> [Aggregates -> Versions]]
        /\ wrote' \in [Units -> [Aggregates -> Versions]]
    BY <1>4, <2>1 DEF Add, TypeOK
  <2>3. /\ image' \in [Units -> [Aggregates -> SUBSET Transition]]
        /\ draft' \in [Units -> [Aggregates -> SUBSET Transition]]
    BY <1>4, <2>1 DEF Add, TypeOK
  <2> QED
    BY <1>4, <2>2, <2>3 DEF Add, TypeOK, database, transitionKeys, reservation, links,
                            history
<1>5. ASSUME NEW u \in Units, NEW a \in Aggregates, AddExisting(u, a) PROVE TypeOK'
  <2>1. phase' \in [Units -> Phases]
    BY <1>5 DEF AddExisting, TypeOK, Phases
  <2> QED
    BY <1>5, <2>1 DEF AddExisting, TypeOK, database, copies, rows, transitionKeys,
                      reservation, links, history
<1>6. ASSUME NEW u \in Units, NEW a \in Aggregates, SaveOnly(u, a) PROVE TypeOK'
  BY <1>6, SaveTypes DEF SaveOnly, TypeOK, database, reservation, links, history
<1>7. ASSUME NEW u \in Units, NEW a \in Aggregates, SaveTransition(u, a) PROVE TypeOK'
  <2>1. Save(u, a) /\ UpdateRow(u, a) /\ RecordEvent(u, <<a, held[u][a] + 1>>)
    BY <1>7 DEF SaveTransition, Save
  <2>2. <<a, held[u][a] + 1>> \in Aggregates \X Versions
    BY <2>1, UpdateTypes
  <2>3. /\ staged' \in [Units -> SUBSET (Aggregates \X Versions)]
        /\ lost' \in [Units -> SUBSET (Aggregates \X Versions)]
        /\ appended' \in [Units -> SUBSET (Aggregates \X Versions)]
        /\ phase' \in [Units -> Phases]
    BY <2>1, <2>2, EventTypes
  <2> QED
    BY <1>7, <2>1, <2>3, SaveTypes DEF SaveTransition, TypeOK, database, reservation,
                                       links, history
<1>7a. ASSUME NEW u \in Units, NEW a \in Aggregates, SaveTransitionFails(u, a) PROVE TypeOK'
  <2>1. UpdateRow(u, a)
    BY <1>7a DEF SaveTransitionFails
  <2>2. <<a, held[u][a] + 1>> \in Aggregates \X Versions
    BY <2>1, UpdateTypes
  <2>3. RefuseEvent(u, <<a, held[u][a] + 1>>) \/ UNCHANGED <<appended, lost, phase, staged>>
    BY <1>7a DEF SaveTransitionFails
  <2>4. /\ staged' \in [Units -> SUBSET (Aggregates \X Versions)]
        /\ lost' \in [Units -> SUBSET (Aggregates \X Versions)]
        /\ appended' \in [Units -> SUBSET (Aggregates \X Versions)]
        /\ phase' \in [Units -> Phases]
    <3>1. CASE RefuseEvent(u, <<a, held[u][a] + 1>>)
      BY <2>2, <3>1, EventTypes
    <3>2. CASE UNCHANGED <<appended, lost, phase, staged>>
      BY <3>2 DEF TypeOK
    <3> QED
      BY <2>3, <3>1, <3>2
  <2> QED
    BY <1>7a, <2>1, <2>4, UpdateTypes DEF SaveTransitionFails, TypeOK, database, copies,
                                          reservation, links, history
<1>8. ASSUME NEW u \in Units, NEW a \in Aggregates, SaveConflict(u, a) PROVE TypeOK'
  <2>1. /\ held' \in [Units -> [Aggregates -> Versions]]
        /\ image' \in [Units -> [Aggregates -> SUBSET Transition]]
    BY <1>8, UnitOfWorkAssumption DEF SaveConflict, TypeOK, Versions
  <2> QED
    BY <1>8, <2>1 DEF SaveConflict, TypeOK, database, rows, transitionKeys, reservation,
                      links, history
<1>9. ASSUME NEW u \in Units, NEW a \in Aggregates, Append(u, a) PROVE TypeOK'
  <2>1. PICK v \in {held[u][a], held[u][a] + 1} \cap 2..MaxVersion :
          RecordEvent(u, <<a, v>>) \/ RefuseEvent(u, <<a, v>>)
    BY <1>9 DEF Append
  <2>2. <<a, v>> \in Aggregates \X Versions
    BY UnitOfWorkAssumption DEF Versions
  <2>3. /\ staged' \in [Units -> SUBSET (Aggregates \X Versions)]
        /\ lost' \in [Units -> SUBSET (Aggregates \X Versions)]
        /\ appended' \in [Units -> SUBSET (Aggregates \X Versions)]
        /\ phase' \in [Units -> Phases]
    BY <2>1, <2>2, EventTypes
  <2> QED
    BY <1>9, <2>3 DEF Append, TypeOK, database, copies, reservation, links, history
<1>10. ASSUME NEW u \in Units, ReserveClaimed(u) PROVE TypeOK'
  BY <1>10 DEF ReserveClaimed, TypeOK, Statuses, database, copies, rows, transitionKeys,
               links, history
<1>11. ASSUME NEW u \in Units, ReserveExisting(u) PROVE TypeOK'
  <2>1. FoundAnswer(u) \in Answers \cup {NoAnswer}
    BY UnitOfWorkAssumption DEF TypeOK, FoundAnswer
  <2>2. told' \in [Units -> SUBSET (Answers \cup {NoAnswer})]
    BY <1>11, <2>1 DEF ReserveExisting, TypeOK
  <2> QED
    BY <1>11, <2>2 DEF ReserveExisting, TypeOK, database, copies, rows, transitionKeys,
                       links, history
<1>12. ASSUME NEW u \in Units, Complete(u) PROVE TypeOK'
  <2>1. claim' \in [Units -> Statuses]
    BY <1>12 DEF Complete, TypeOK, Statuses
  <2>2. answer' \in [Units -> Answers \cup {NoAnswer}]
    <3>1. answer \in [Units -> Answers \cup {NoAnswer}]
      BY DEF TypeOK
    <3>2. answer' = answer \/ \E r \in Answers : answer' = [answer EXCEPT ![u] = r]
      BY <1>12 DEF Complete
    <3> QED
      BY <3>1, <3>2
  <2>3. told' \in [Units -> SUBSET (Answers \cup {NoAnswer})]
    <3>1. answer[u] \in Answers \cup {NoAnswer}
      BY DEF TypeOK
    <3>2. PICK r \in Answers \cup {NoAnswer} : told' = [told EXCEPT ![u] = @ \cup {r}]
      BY <1>12, <3>1 DEF Complete
    <3> QED
      BY <3>2 DEF TypeOK
  <2> QED
    BY <1>12, <2>1, <2>2, <2>3 DEF Complete, TypeOK, database, copies, rows,
                       transitionKeys, links,
                       history
<1>13. ASSUME NEW u \in Units, NEW n \in Nonces, Consume(u, n) PROVE TypeOK'
  BY <1>13 DEF Consume, TypeOK, database, copies, rows, transitionKeys, reservation,
               history
<1>14. ASSUME NEW u \in Units, Commit(u) PROVE TypeOK'
  <2>1. \A a \in Aggregates : Visible(u, a) \in Versions
                              /\ VisibleContent(u, a) \in SUBSET Transition
    BY DEF TypeOK, Visible, VisibleContent
  <2>2. /\ version' \in [Aggregates -> Versions]
        /\ content' \in [Aggregates -> SUBSET Transition]
    BY <1>14, <2>1 DEF Commit
  <2>3. done' \in [Aggregates -> SUBSET Transition]
    BY <1>14 DEF Commit, TypeOK
  <2>4. /\ keyStatus' \in [Keys -> Statuses]
        /\ keyPrint' \in [Keys -> Prints \cup {NoAnswer}]
        /\ keyAnswer' \in [Keys -> Answers \cup {NoAnswer}]
        /\ claimants' \in [Keys -> SUBSET Units]
    <3>1. CASE claim[u] = "None"
      BY <1>14, <3>1 DEF Commit, TypeOK
    <3>2. CASE claim[u] # "None"
      <4>1. KeyOf[u] \in Keys
        BY UnitOfWorkAssumption
      <4>2. /\ claim[u] \in Statuses /\ print[u] \in Prints \cup {NoAnswer}
            /\ answer[u] \in Answers \cup {NoAnswer}
        BY DEF TypeOK
      <4>3. /\ keyStatus' = [keyStatus EXCEPT ![KeyOf[u]] = claim[u]]
            /\ keyPrint' = [keyPrint EXCEPT ![KeyOf[u]] = print[u]]
            /\ keyAnswer' = [keyAnswer EXCEPT ![KeyOf[u]] = answer[u]]
            /\ claimants' = [claimants EXCEPT ![KeyOf[u]] = @ \cup {u}]
        BY <1>14, <3>2 DEF Commit
      <4> QED
        BY <4>1, <4>2, <4>3 DEF TypeOK
    <3> QED
      BY <3>1, <3>2
  <2>5. /\ events' \subseteq (Aggregates \X Versions)
        /\ consumed' \subseteq Nonces
        /\ phase' \in [Units -> Phases]
    BY <1>14 DEF Commit, TypeOK, Phases
  <2>6. /\ wrote' \in [Units -> [Aggregates -> Versions]]
        /\ draft' \in [Units -> [Aggregates -> SUBSET Transition]]
    BY <1>14, UnitOfWorkAssumption DEF Commit, TypeOK, Versions
  <2>7. /\ staged' \in [Units -> SUBSET (Aggregates \X Versions)]
        /\ claim' \in [Units -> Statuses]
        /\ taken' \in [Units -> SUBSET Nonces]
    BY <1>14 DEF Commit, TypeOK, Statuses
  <2> QED
    BY <1>14, <2>2, <2>3, <2>4, <2>5, <2>6, <2>7 DEF Commit, TypeOK, copies,
                                                     transitionKeys
<1>15. ASSUME NEW u \in Units, Leave(u) PROVE TypeOK'
  <2>1. phase' \in [Units -> Phases] /\ Discard(u)
    BY <1>15 DEF Leave, TypeOK, Phases
  <2> QED
    BY <1>15, <2>1, DiscardTypes DEF Leave, TypeOK, database, copies, transitionKeys,
                                     history
<1>16. ASSUME NEW u \in Units, Rollback(u) PROVE TypeOK'
  <2>1. phase' \in [Units -> Phases] /\ Discard(u)
    BY <1>16 DEF Rollback, TypeOK, Phases
  <2>2. /\ held' \in [Units -> [Aggregates -> Versions]]
        /\ image' \in [Units -> [Aggregates -> SUBSET Transition]]
    BY <1>16, UnitOfWorkAssumption DEF Rollback, TypeOK, Versions
  <2>3. rollbacks' \in [Units -> 0..MaxRollbacks]
    BY <1>16, UnitOfWorkAssumption DEF Rollback, TypeOK
  <2> QED
    BY <1>16, <2>1, <2>2, <2>3, DiscardTypes DEF Rollback, TypeOK, database,
                                                 transitionKeys, history
<1> QED
  BY <1>1, <1>2, <1>3, <1>4, <1>5, <1>6, <1>7, <1>8, <1>9, <1>10, <1>11, <1>12, <1>13,
     <1>14, <1>15, <1>16, <1>7a DEF Next

\* Every row and every unit keeps its type.
THEOREM TypeCorrect == Spec => []TypeOK
BY TypeInit, TypeStep, PTL DEF Spec

-----------------------------------------------------------------------------
(* Links *)

\* What a unit was granted it has inserted, or it is committed; nothing is
\* granted twice, and what a unit inserts was not there.
LinksAreApart ==
    /\ \A u \in Units : /\ granted[u] \subseteq taken[u] \cup consumed
                        /\ taken[u] \subseteq granted[u]
    /\ \A u, v \in Units : u # v => granted[u] \cap granted[v] = {}

\* The steps that touch no link.
LEMMA LinksUntouched ==
  ASSUME NEW u \in Units, NEW a \in Aggregates,
         \/ Get(u, a) \/ Add(u, a) \/ AddExisting(u, a)
         \/ SaveOnly(u, a) \/ SaveTransition(u, a) \/ SaveTransitionFails(u, a)
         \/ SaveConflict(u, a) \/ Append(u, a)
  PROVE  consumed' = consumed /\ taken' = taken /\ granted' = granted
BY DEF Get, Add, AddExisting, SaveOnly, SaveTransition, SaveTransitionFails,
       SaveConflict, Append, database, links

\* Nor do those that enter, and reserve and complete a key.
LEMMA LinksUntouchedByKeys ==
  ASSUME NEW u \in Units,
         Enter(u) \/ ReserveClaimed(u) \/ ReserveExisting(u) \/ Complete(u)
  PROVE  consumed' = consumed /\ taken' = taken /\ granted' = granted
BY DEF Enter, ReserveClaimed, ReserveExisting, Complete, database, links

\* Every step keeps the links apart.
LEMMA LinksStep == TypeOK /\ LinksAreApart /\ [Next]_vars => LinksAreApart'
<1> SUFFICES ASSUME TypeOK, LinksAreApart, [Next]_vars PROVE LinksAreApart'
  OBVIOUS
<1>0. /\ taken \in [Units -> SUBSET Nonces]
      /\ granted \in [Units -> SUBSET Nonces]
  BY DEF TypeOK
<1>1. ASSUME consumed' = consumed /\ taken' = taken /\ granted' = granted
      PROVE LinksAreApart'
  BY <1>1 DEF LinksAreApart
<1>2. ASSUME NEW u \in Units, NEW n \in Nonces, Consume(u, n) PROVE LinksAreApart'
  <2>1. /\ consumed' = consumed
        /\ taken' = [taken EXCEPT ![u] = @ \cup {n}]
        /\ granted' = [granted EXCEPT ![u] = @ \cup {n}]
    BY <1>2 DEF Consume, database
  <2>2. \A v \in Units \ {u} : n \notin granted[v]
    BY <1>2 DEF Consume, NonceLocked, LinksAreApart
  <2> QED
    BY <1>0, <2>1, <2>2 DEF LinksAreApart
<1>3. ASSUME NEW u \in Units, Commit(u) PROVE LinksAreApart'
  <2>1. /\ consumed' = consumed \cup taken[u]
        /\ taken' = [taken EXCEPT ![u] = {}]
        /\ granted' = granted
    BY <1>3 DEF Commit
  <2> QED
    BY <1>0, <2>1 DEF LinksAreApart
<1>4. ASSUME NEW u \in Units, Discard(u), consumed' = consumed PROVE LinksAreApart'
  <2>1. /\ taken' = [taken EXCEPT ![u] = {}]
        /\ granted' = [granted EXCEPT ![u] = {}]
    BY <1>4 DEF Discard
  <2> QED
    BY <1>0, <1>4, <2>1 DEF LinksAreApart
<1>5. ASSUME NEW u \in Units, Leave(u) \/ Rollback(u) PROVE LinksAreApart'
  BY <1>4, <1>5 DEF Leave, Rollback, database
<1>6. CASE UNCHANGED vars
  BY <1>1, <1>6 DEF vars, database, links
<1>7. ASSUME NEW u \in Units, NEW a \in Aggregates,
             \/ Get(u, a) \/ Add(u, a) \/ AddExisting(u, a)
             \/ SaveOnly(u, a) \/ SaveTransition(u, a) \/ SaveTransitionFails(u, a)
             \/ SaveConflict(u, a) \/ Append(u, a)
      PROVE LinksAreApart'
  BY <1>1, <1>7, LinksUntouched
<1>8. ASSUME NEW u \in Units,
             Enter(u) \/ ReserveClaimed(u) \/ ReserveExisting(u) \/ Complete(u)
      PROVE LinksAreApart'
  BY <1>1, <1>8, LinksUntouchedByKeys
<1> QED
  BY <1>2, <1>3, <1>5, <1>6, <1>7, <1>8 DEF Next

-----------------------------------------------------------------------------
(* Keys *)

\* A key is claimed by one unit at a time, and only while no row of it is
\* committed; a committed row is of the one unit that claimed it.  Whoever was
\* given an answer has claimed and completed the key, or was given what is
\* committed, for the payload that is committed.
KeysAreApart ==
    /\ \A u, v \in Units :
         u # v /\ KeyOf[u] = KeyOf[v] => claim[u] = "None" \/ claim[v] = "None"
    /\ \A u \in Units : claim[u] # "None" => keyStatus[KeyOf[u]] = "None"
    /\ \A k \in Keys : keyStatus[k] = "None" => claimants[k] = {}
    /\ \A k \in Keys : \A u, v \in claimants[k] : u = v
    /\ \A u \in Units : phase[u] = "New" => told[u] = {}
    /\ \A u \in Units : \A r \in told[u] :
         \/ claim[u] = "COMPLETED" /\ r = answer[u]
         \/ /\ keyStatus[KeyOf[u]] = "COMPLETED"
            /\ keyAnswer[KeyOf[u]] = r /\ keyPrint[KeyOf[u]] = print[u]

\* The steps that touch no key but may open or abort the unit.
LEMMA KeysUntouched ==
  ASSUME NEW u \in Units, NEW a \in Aggregates,
         \/ Get(u, a) \/ Add(u, a) \/ AddExisting(u, a)
         \/ SaveOnly(u, a) \/ SaveTransition(u, a) \/ SaveTransitionFails(u, a)
         \/ SaveConflict(u, a) \/ Append(u, a)
  PROVE  /\ keyStatus' = keyStatus /\ keyPrint' = keyPrint /\ keyAnswer' = keyAnswer
         /\ claimants' = claimants
         /\ claim' = claim /\ answer' = answer /\ print' = print /\ told' = told
         /\ phase' = phase \/ phase' = [phase EXCEPT ![u] = "Aborted"]
BY DEF Get, Add, AddExisting, SaveOnly, SaveTransition, SaveTransitionFails,
       SaveConflict, Append, RecordEvent, RefuseEvent, database, reservation, history

\* Every step keeps the keys apart.
LEMMA KeysStep == TypeOK /\ KeysAreApart /\ [Next]_vars => KeysAreApart'
<1> SUFFICES ASSUME TypeOK, KeysAreApart, [Next]_vars PROVE KeysAreApart'
  OBVIOUS
<1>0. /\ KeyOf \in [Units -> Keys]
      /\ keyStatus \in [Keys -> Statuses]
      /\ keyPrint \in [Keys -> Prints \cup {NoAnswer}]
      /\ keyAnswer \in [Keys -> Answers \cup {NoAnswer}]
      /\ claimants \in [Keys -> SUBSET Units]
      /\ phase \in [Units -> Phases]
      /\ print \in [Units -> Prints \cup {NoAnswer}]
      /\ claim \in [Units -> Statuses]
      /\ answer \in [Units -> Answers \cup {NoAnswer}]
      /\ told \in [Units -> SUBSET (Answers \cup {NoAnswer})]
  BY UnitOfWorkAssumption DEF TypeOK
<1> DEFINE rowsKept == /\ keyStatus' = keyStatus /\ keyPrint' = keyPrint
                       /\ keyAnswer' = keyAnswer /\ claimants' = claimants
<1>1. ASSUME NEW u \in Units, rowsKept,
             claim' = claim, answer' = answer, print' = print, told' = told,
             phase' = phase \/ phase' = [phase EXCEPT ![u] = "Aborted"]
      PROVE KeysAreApart'
  <2>1. \A v \in Units : phase'[v] = "New" => phase[v] = "New"
    BY <1>0, <1>1
  <2> QED
    BY <1>0, <1>1, <2>1 DEF KeysAreApart
<1>2. ASSUME NEW u \in Units, Enter(u) PROVE KeysAreApart'
  <2>1. /\ rowsKept /\ claim' = claim /\ answer' = answer /\ told' = told
        /\ phase' = [phase EXCEPT ![u] = "Open"]
        /\ told[u] = {}
        /\ \A v \in Units \ {u} : print'[v] = print[v]
    BY <1>0, <1>2 DEF Enter, database, history, KeysAreApart
  <2> QED
    BY <1>0, <2>1 DEF KeysAreApart
<1>3. ASSUME NEW u \in Units, ReserveClaimed(u) PROVE KeysAreApart'
  <2>1. /\ rowsKept /\ answer' = answer /\ told' = told /\ print' = print
        /\ phase' = phase
        /\ claim' = [claim EXCEPT ![u] = "PENDING"]
        /\ claim[u] = "None" /\ keyStatus[KeyOf[u]] = "None"
        /\ \A v \in Units \ {u} : KeyOf[v] = KeyOf[u] => claim[v] = "None"
    BY <1>3 DEF ReserveClaimed, KeyLocked, database, history
  <2> QED
    BY <1>0, <2>1 DEF KeysAreApart
<1>4. ASSUME NEW u \in Units, ReserveExisting(u) PROVE KeysAreApart'
  <2>1. /\ rowsKept /\ answer' = answer /\ claim' = claim /\ print' = print
        /\ phase' = phase /\ phase[u] = "Open"
        /\ told' = [told EXCEPT ![u] = @ \cup {FoundAnswer(u)}]
    BY <1>4 DEF ReserveExisting, database, history
  <2>2. \/ claim[u] = "COMPLETED" /\ FoundAnswer(u) = answer[u]
        \/ /\ keyStatus[KeyOf[u]] = "COMPLETED"
           /\ keyAnswer[KeyOf[u]] = FoundAnswer(u) /\ keyPrint[KeyOf[u]] = print[u]
    BY <1>4 DEF ReserveExisting, FoundStatus, FoundPrint, FoundAnswer
  <2> HIDE DEF FoundAnswer
  <2> QED
    BY <1>0, <2>1, <2>2 DEF KeysAreApart
<1>5. ASSUME NEW u \in Units, Complete(u) PROVE KeysAreApart'
  <2>0. /\ rowsKept /\ print' = print /\ phase' = phase /\ phase[u] = "Open"
    BY <1>5 DEF Complete, database, history
  <2>1. CASE claim[u] = "PENDING"
    <3>1. PICK r \in Answers : /\ answer' = [answer EXCEPT ![u] = r]
                               /\ told' = [told EXCEPT ![u] = @ \cup {r}]
      BY <1>5, <2>1 DEF Complete
    <3>2. claim' = [claim EXCEPT ![u] = "COMPLETED"]
      BY <1>5, <2>1 DEF Complete
    <3>3. told[u] = {}
      BY <2>1 DEF KeysAreApart
    <3> QED
      BY <1>0, <2>0, <2>1, <3>1, <3>2, <3>3 DEF KeysAreApart
  <2>2. CASE claim[u] # "PENDING"
    <3>1. /\ claim[u] = "COMPLETED" /\ claim' = claim /\ answer' = answer
          /\ told' = [told EXCEPT ![u] = @ \cup {answer[u]}]
      BY <1>5, <2>2 DEF Complete
    <3> QED
      BY <1>0, <2>0, <3>1 DEF KeysAreApart
  <2> QED
    BY <2>1, <2>2
<1>6. ASSUME NEW u \in Units, NEW n \in Nonces, Consume(u, n) PROVE KeysAreApart'
  BY <1>1, <1>6 DEF Consume, database, reservation, history
<1>7. ASSUME NEW u \in Units, Commit(u) PROVE KeysAreApart'
  <2>0. /\ print' = print /\ answer' = answer /\ told' = told
        /\ claim' = [claim EXCEPT ![u] = "None"]
        /\ phase' = [phase EXCEPT ![u] = "Committed"]
    BY <1>7 DEF Commit
  <2>1. CASE claim[u] = "None"
    <3>1. rowsKept /\ claim' = claim
      BY <1>0, <1>7, <2>0, <2>1 DEF Commit
    <3> QED
      BY <1>0, <2>0, <3>1 DEF KeysAreApart
  <2>2. CASE claim[u] # "None"
    <3>1. /\ keyStatus' = [keyStatus EXCEPT ![KeyOf[u]] = claim[u]]
          /\ keyPrint' = [keyPrint EXCEPT ![KeyOf[u]] = print[u]]
          /\ keyAnswer' = [keyAnswer EXCEPT ![KeyOf[u]] = answer[u]]
          /\ claimants' = [claimants EXCEPT ![KeyOf[u]] = @ \cup {u}]
      BY <1>7, <2>2 DEF Commit
    <3>2. /\ keyStatus[KeyOf[u]] = "None" /\ claimants[KeyOf[u]] = {}
          /\ \A v \in Units \ {u} : KeyOf[v] = KeyOf[u] => claim[v] = "None"
      BY <1>0, <2>2 DEF KeysAreApart
    <3>3. \A v \in Units \ {u} : KeyOf[v] = KeyOf[u] => told[v] = {}
      BY <1>0, <3>2 DEF KeysAreApart
    <3>4. \A r \in told[u] : claim[u] = "COMPLETED" /\ r = answer[u]
      BY <3>2 DEF KeysAreApart
    <3> QED
      BY <1>0, <2>0, <2>2, <3>1, <3>2, <3>3, <3>4 DEF KeysAreApart
  <2> QED
    BY <2>1, <2>2
<1>8. ASSUME NEW u \in Units, Leave(u) \/ Rollback(u) PROVE KeysAreApart'
  <2>1. /\ rowsKept /\ Discard(u)
        /\ phase' = [phase EXCEPT ![u] = "Left"] \/ phase' = [phase EXCEPT ![u] = "Open"]
    BY <1>8 DEF Leave, Rollback, database, history
  <2>2. /\ claim' = [claim EXCEPT ![u] = "None"]
        /\ answer' = [answer EXCEPT ![u] = NoAnswer]
        /\ told' = [told EXCEPT ![u] = {}]
        /\ print' = print
    BY <2>1 DEF Discard
  <2>3. \A v \in Units : phase'[v] = "New" => phase[v] = "New"
    BY <1>0, <2>1
  <2> QED
    BY <1>0, <2>1, <2>2, <2>3 DEF KeysAreApart
<1>9. CASE UNCHANGED vars
  BY <1>9 DEF vars, database, reservation, history, KeysAreApart
<1> QED
  BY <1>1, <1>2, <1>3, <1>4, <1>5, <1>6, <1>7, <1>8, <1>9, KeysUntouched DEF Next

\* What is for one use is used once: a key has one effect and one answer, a
\* link is granted once, for any number of units and keys.
THEOREM EverythingIsUsedOnce == Spec => []UsedOnce
<1>1. Init => LinksAreApart /\ KeysAreApart
  BY UnitOfWorkAssumption DEF Init, LinksAreApart, KeysAreApart
<1>2. TypeOK /\ KeysAreApart /\ LinksAreApart => UsedOnce
  <2> SUFFICES ASSUME TypeOK, KeysAreApart, LinksAreApart PROVE UsedOnce
    OBVIOUS
  <2>1. ASSUME NEW u \in Units, NEW v \in Units, KeyOf[u] = KeyOf[v],
               NEW r \in told[u], NEW s \in told[v]
        PROVE  r = s /\ print[u] = print[v]
    <3>1. CASE keyStatus[KeyOf[u]] = "COMPLETED"
      BY <2>1, <3>1 DEF KeysAreApart
    <3>2. CASE keyStatus[KeyOf[u]] # "COMPLETED"
      BY <2>1, <3>2 DEF KeysAreApart
    <3> QED
      BY <3>1, <3>2
  <2> QED
    BY <2>1 DEF UsedOnce, KeysAreApart, LinksAreApart
<1>3. TypeOK /\ KeysAreApart /\ LinksAreApart /\ [Next]_vars
        => KeysAreApart' /\ LinksAreApart'
  BY LinksStep, KeysStep
<1> QED
  BY <1>1, <1>2, <1>3, TypeCorrect, PTL DEF Spec

-----------------------------------------------------------------------------
(* Rows *)

\* The transitions i to j of unit u.
Own(u, i, j) == {[to |-> n, by |-> u] : n \in i..j}

\* One more transition.
LEMMA OwnGrows ==
  ASSUME NEW u, NEW i \in Nat, NEW j \in Nat, i <= j + 1
  PROVE  Own(u, i, j + 1) = Own(u, i, j) \cup {[to |-> j + 1, by |-> u]}
<1>1. i..(j + 1) = (i..j) \cup {j + 1}
  OBVIOUS
<1> QED
  BY <1>1 DEF Own

Running(u) == phase[u] \notin {"Committed", "Left"}

\* One unit at a time has an uncommitted write of an aggregate: its
\* transitions, computed from the committed ones.  The committed ones are
\* numbered as their versions.
RowsAreCurrent ==
    /\ \A a \in Aggregates : \A u, v \in Units :
         u # v => wrote[u][a] = 0 \/ wrote[v][a] = 0
    /\ \A a \in Aggregates : \A u \in Units : wrote[u][a] # 0 =>
         /\ version[a] < wrote[u][a]
         /\ draft[u][a] = content[a] \cup Own(u, version[a] + 1, wrote[u][a])
    /\ \A a \in Aggregates : \A t \in content[a] : t.to \in 1..version[a]

\* A copy whose version is what the unit sees now has what it sees now.
CopiesAreTrue ==
    \A u \in Units : Running(u) => \A a \in Aggregates :
       /\ held[u][a] <= Visible(u, a)
       /\ held[u][a] # 0 /\ held[u][a] = Visible(u, a) => image[u][a] = VisibleContent(u, a)

RowsInv == RowsAreCurrent /\ CopiesAreTrue /\ NoLostUpdate

\* The steps that write no row.
LEMMA RowsUntouched ==
  ASSUME NEW u \in Units,
         \/ Enter(u) \/ ReserveClaimed(u) \/ ReserveExisting(u) \/ Complete(u)
         \/ \E n \in Nonces : Consume(u, n)
         \/ \E a \in Aggregates : AddExisting(u, a) \/ Append(u, a)
  PROVE  /\ version' = version /\ content' = content /\ done' = done
         /\ held' = held /\ image' = image /\ wrote' = wrote /\ draft' = draft
         /\ \/ phase' = phase
            \/ phase[u] = "New" /\ phase' = [phase EXCEPT ![u] = "Open"]
            \/ phase' = [phase EXCEPT ![u] = "Aborted"] /\ phase[u] = "Open"
BY DEF Enter, ReserveClaimed, ReserveExisting, Complete, Consume, AddExisting, Append,
       RecordEvent, RefuseEvent, database, copies, rows, history

\* What the invariants of the rows need of the types.
LEMMA RowTypes ==
  ASSUME TypeOK
  PROVE  /\ version \in [Aggregates -> Nat]
         /\ content \in [Aggregates -> SUBSET Transition]
         /\ done \in [Aggregates -> SUBSET Transition]
         /\ held \in [Units -> [Aggregates -> Nat]]
         /\ image \in [Units -> [Aggregates -> SUBSET Transition]]
         /\ wrote \in [Units -> [Aggregates -> Nat]]
         /\ draft \in [Units -> [Aggregates -> SUBSET Transition]]
         /\ phase \in [Units -> Phases]
<1>1. Versions \subseteq Nat
  BY UnitOfWorkAssumption DEF Versions
<1>2. /\ version \in [Aggregates -> Versions]
      /\ held \in [Units -> [Aggregates -> Versions]]
      /\ wrote \in [Units -> [Aggregates -> Versions]]
  BY DEF TypeOK
<1>3. version \in [Aggregates -> Nat]
  BY <1>1, <1>2
<1>4. \A u \in Units : held[u] \in [Aggregates -> Nat] /\ wrote[u] \in [Aggregates -> Nat]
  BY <1>1, <1>2
<1>5. /\ held \in [Units -> [Aggregates -> Nat]]
      /\ wrote \in [Units -> [Aggregates -> Nat]]
  BY <1>2, <1>4
<1> QED
  BY <1>3, <1>5 DEF TypeOK

\* A write that makes the next version of what the unit sees, and gives the
\* unit a copy of it or leaves its copies alone.
LEMMA WritesKeepRows ==
  ASSUME TypeOK, RowsInv, NEW u \in Units, NEW a \in Aggregates, ~RowLocked(u, a),
         UNCHANGED <<version, content, done>>, \A v \in Units : Running(v)' => Running(v),
         wrote' = [wrote EXCEPT ![u][a] = Visible(u, a) + 1],
         draft' = [draft EXCEPT ![u][a] = VisibleContent(u, a)
                                            \cup {[to |-> Visible(u, a) + 1, by |-> u]}],
         \/ UNCHANGED <<held, image>>
         \/ /\ held' = [held EXCEPT ![u][a] = Visible(u, a) + 1]
            /\ image' = [image EXCEPT ![u][a] = VisibleContent(u, a)
                                              \cup {[to |-> Visible(u, a) + 1, by |-> u]}]
  PROVE  RowsInv'
<1> DEFINE next == Visible(u, a) + 1
           change == VisibleContent(u, a) \cup {[to |-> next, by |-> u]}
<1>1. version' = version /\ content' = content /\ done' = done
  OBVIOUS
<1>2. /\ Visible(u, a) \in Nat
      /\ version[a] <= Visible(u, a)
  BY RowTypes DEF RowsInv, RowsAreCurrent, Visible
<1>3. change = content[a] \cup Own(u, version[a] + 1, next)
  <2>1. CASE wrote[u][a] = 0
    <3>1. /\ next = version[a] + 1 /\ VisibleContent(u, a) = content[a]
          /\ version[a] \in Nat
      BY <2>1, RowTypes DEF Visible, VisibleContent
    <3>2. (version[a] + 1)..(version[a] + 1) = {version[a] + 1}
      BY <3>1
    <3> QED
      BY <3>1, <3>2 DEF Own
  <2>2. CASE wrote[u][a] # 0
    <3>1. /\ next = wrote[u][a] + 1 /\ VisibleContent(u, a) = draft[u][a]
          /\ version[a] \in Nat /\ wrote[u][a] \in Nat /\ version[a] + 1 <= wrote[u][a]
          /\ draft[u][a] = content[a] \cup Own(u, version[a] + 1, wrote[u][a])
      BY <2>2, RowTypes DEF Visible, VisibleContent, RowsInv, RowsAreCurrent
    <3>2. Own(u, version[a] + 1, wrote[u][a] + 1) =
            Own(u, version[a] + 1, wrote[u][a]) \cup {[to |-> wrote[u][a] + 1, by |-> u]}
      BY <3>1, OwnGrows
    <3> QED
      BY <3>1, <3>2
  <2> QED
    BY <2>1, <2>2
<1>4. \A v \in Units : \A b \in Aggregates :
        /\ wrote'[v][b] = IF v = u /\ b = a THEN next ELSE wrote[v][b]
        /\ draft'[v][b] = IF v = u /\ b = a THEN change ELSE draft[v][b]
  BY RowTypes
<1>5. \A v \in Units : \A b \in Aggregates :
        \/ held'[v][b] = held[v][b] /\ image'[v][b] = image[v][b]
        \/ v = u /\ b = a /\ held'[v][b] = next /\ image'[v][b] = change
  <2>1. CASE UNCHANGED <<held, image>>
    BY <2>1
  <2>2. CASE /\ held' = [held EXCEPT ![u][a] = next]
             /\ image' = [image EXCEPT ![u][a] = change]
    BY <2>2, RowTypes
  <2> QED
    BY <2>1, <2>2
<1> HIDE DEF next, change
<1>6. RowsAreCurrent'
  <2>1. \A b \in Aggregates : \A v, w \in Units :
          v # w => wrote'[v][b] = 0 \/ wrote'[w][b] = 0
    BY <1>4 DEF RowLocked, RowsInv, RowsAreCurrent
  <2>2. \A b \in Aggregates : \A v \in Units : wrote'[v][b] # 0 =>
          /\ version[b] < wrote'[v][b]
          /\ draft'[v][b] = content[b] \cup Own(v, version[b] + 1, wrote'[v][b])
    <3> SUFFICES ASSUME NEW b \in Aggregates, NEW v \in Units, wrote'[v][b] # 0
                 PROVE  /\ version[b] < wrote'[v][b]
                        /\ draft'[v][b] = content[b] \cup Own(v, version[b] + 1, wrote'[v][b])
      OBVIOUS
    <3>1. CASE v = u /\ b = a
      <4>1. wrote'[u][a] = next /\ draft'[u][a] = change
        BY <1>4
      <4>2. version[a] < next
        BY <1>2, RowTypes DEF next
      <4> QED
        BY <1>3, <3>1, <4>1, <4>2
    <3>2. CASE ~(v = u /\ b = a)
      BY <1>4, <3>2 DEF RowsInv, RowsAreCurrent
    <3> QED
      BY <3>1, <3>2
  <2> QED
    BY <1>1, <2>1, <2>2 DEF RowsInv, RowsAreCurrent, Own
<1>7. CopiesAreTrue'
  <2> SUFFICES ASSUME NEW v \in Units, Running(v)', NEW b \in Aggregates
               PROVE  /\ held'[v][b] <= Visible(v, b)'
                      /\ held'[v][b] # 0 /\ held'[v][b] = Visible(v, b)'
                           => image'[v][b] = VisibleContent(v, b)'
    BY DEF CopiesAreTrue
  <2>1. /\ held[v][b] <= Visible(v, b)
        /\ held[v][b] # 0 /\ held[v][b] = Visible(v, b) => image[v][b] = VisibleContent(v, b)
    BY DEF RowsInv, CopiesAreTrue
  <2>2. CASE v = u /\ b = a
    <3>1. next = Visible(u, a) + 1 /\ next \in Nat \ {0}
      BY <1>2 DEF next
    <3>2. Visible(u, a)' = next /\ VisibleContent(u, a)' = change
      BY <1>4, <3>1 DEF Visible, VisibleContent
    <3>3. CASE held'[u][a] = held[u][a]
      <4>1. held'[u][a] < next
        BY <1>2, <2>1, <2>2, <3>1, <3>3, RowTypes
      <4>2. held'[u][a] \in Nat
        BY <3>3, RowTypes
      <4> QED
        BY <2>2, <3>1, <3>2, <4>1, <4>2
    <3>4. CASE held'[u][a] = next /\ image'[u][a] = change
      BY <2>2, <3>1, <3>2, <3>4
    <3> QED
      BY <1>5, <3>3, <3>4
  <2>3. CASE ~(v = u /\ b = a)
    <3>1. Visible(v, b)' = Visible(v, b) /\ VisibleContent(v, b)' = VisibleContent(v, b)
      BY <1>1, <1>4, <2>3 DEF Visible, VisibleContent
    <3> QED
      BY <1>5, <2>1, <2>3, <3>1
  <2> QED
    BY <2>2, <2>3
<1>8. NoLostUpdate'
  BY <1>1 DEF RowsInv, NoLostUpdate
<1> QED
  BY <1>6, <1>7, <1>8 DEF RowsInv

\* A copy that is taken or dropped.
LEMMA CopiesKeepRows ==
  ASSUME TypeOK, RowsInv, NEW u \in Units, NEW a \in Aggregates, NEW h, NEW c,
         h = 0 \/ (h = Visible(u, a) /\ c = VisibleContent(u, a)),
         UNCHANGED <<version, content, done, phase, wrote, draft>>,
         held' = [held EXCEPT ![u][a] = h], image' = [image EXCEPT ![u][a] = c]
  PROVE  RowsInv'
<1>1. /\ version' = version /\ content' = content /\ done' = done /\ phase' = phase
      /\ wrote' = wrote /\ draft' = draft
  OBVIOUS
<1>2. \A v \in Units : \A b \in Aggregates :
        /\ held'[v][b] = IF v = u /\ b = a THEN h ELSE held[v][b]
        /\ image'[v][b] = IF v = u /\ b = a THEN c ELSE image[v][b]
  BY RowTypes
<1>3. \A v \in Units : \A b \in Aggregates :
        /\ Visible(v, b)' = Visible(v, b) /\ VisibleContent(v, b)' = VisibleContent(v, b)
        /\ Visible(v, b) \in Nat
  BY <1>1, RowTypes DEF Visible, VisibleContent
<1>4. CopiesAreTrue'
  <2> SUFFICES ASSUME NEW v \in Units, Running(v)', NEW b \in Aggregates
               PROVE  /\ held'[v][b] <= Visible(v, b)
                      /\ held'[v][b] # 0 /\ held'[v][b] = Visible(v, b)
                           => image'[v][b] = VisibleContent(v, b)
    BY <1>3 DEF CopiesAreTrue
  <2>1. Running(v)
    BY <1>1 DEF Running
  <2>2. CASE v = u /\ b = a
    <3>1. held'[u][a] = h /\ image'[u][a] = c
      BY <1>2
    <3> QED
      BY <1>3, <2>2, <3>1
  <2>3. CASE ~(v = u /\ b = a)
    BY <1>2, <1>3, <2>1, <2>3 DEF RowsInv, CopiesAreTrue
  <2> QED
    BY <2>2, <2>3
<1> QED
  BY <1>1, <1>4 DEF RowsInv, RowsAreCurrent, NoLostUpdate

\* A unit that ends without its writes, or starts over without its copies.
LEMMA DiscardKeepsRows ==
  ASSUME TypeOK, RowsInv, NEW u \in Units, Discard(u),
         UNCHANGED <<version, content, done>>,
         \/ phase' = [phase EXCEPT ![u] = "Left"] /\ UNCHANGED <<held, image>>
         \/ /\ \E p \in Phases : phase' = [phase EXCEPT ![u] = p]
            /\ held' = [held EXCEPT ![u] = [a \in Aggregates |-> 0]]
            /\ image' = [image EXCEPT ![u] = [a \in Aggregates |-> {}]]
  PROVE  RowsInv'
<1>1. version' = version /\ content' = content /\ done' = done
  OBVIOUS
<1>2. /\ \A a \in Aggregates : wrote'[u][a] = 0
      /\ \A v \in Units \ {u} : wrote'[v] = wrote[v] /\ draft'[v] = draft[v]
  BY RowTypes DEF Discard
<1>3. \A v \in Units \ {u} : held'[v] = held[v] /\ image'[v] = image[v] /\ phase'[v] = phase[v]
  BY RowTypes
<1>4. Running(u)' => \A a \in Aggregates : held'[u][a] = 0
  BY RowTypes DEF Running
<1>5. RowsAreCurrent'
  BY <1>1, <1>2 DEF RowsInv, RowsAreCurrent
<1>6. CopiesAreTrue'
  <2> SUFFICES ASSUME NEW v \in Units, Running(v)', NEW a \in Aggregates
               PROVE  /\ held'[v][a] <= Visible(v, a)'
                      /\ held'[v][a] # 0 /\ held'[v][a] = Visible(v, a)'
                           => image'[v][a] = VisibleContent(v, a)'
    BY DEF CopiesAreTrue
  <2>1. CASE v = u
    <3>1. Visible(u, a)' = version[a] /\ version[a] \in Nat
      BY <1>1, <1>2, RowTypes DEF Visible
    <3> QED
      BY <1>4, <2>1, <3>1
  <2>2. CASE v # u
    <3>1. Visible(v, a)' = Visible(v, a) /\ VisibleContent(v, a)' = VisibleContent(v, a)
      BY <1>1, <1>2, <2>2 DEF Visible, VisibleContent
    <3>2. Running(v)
      BY <1>3, <2>2 DEF Running
    <3> QED
      BY <1>3, <2>2, <3>1, <3>2 DEF RowsInv, CopiesAreTrue
  <2> QED
    BY <2>1, <2>2
<1> QED
  BY <1>1, <1>5, <1>6 DEF RowsInv, NoLostUpdate

\* What a unit adds to a row when it commits.
Added(u, a) ==
  IF wrote[u][a] = 0 THEN {} ELSE Own(u, version[a] + 1, wrote[u][a])

\* commit adds the unit's transitions to the snapshot and to the history alike.
LEMMA CommitAdds ==
  ASSUME TypeOK, RowsInv, NEW u \in Units, NEW a \in Aggregates, Commit(u)
  PROVE  /\ version'[a] = Visible(u, a) /\ version[a] <= version'[a]
         /\ content'[a] = content[a] \cup Added(u, a)
         /\ done'[a] = done[a] \cup Added(u, a)
         /\ \A t \in Added(u, a) : t.to \in (version[a] + 1)..version'[a] /\ t.by = u
         /\ \A n \in (version[a] + 1)..version'[a] : \E t \in Added(u, a) : t.to = n
         /\ \A s, t \in Added(u, a) : s.to = t.to => s = t
<1>1. /\ version'[a] = Visible(u, a) /\ content'[a] = VisibleContent(u, a)
      /\ done'[a] = IF wrote[u][a] = 0 THEN done[a]
                    ELSE done[a] \cup {t \in draft[u][a] : t.by = u /\ t.to > version[a]}
  BY DEF Commit
<1>2. version[a] \in Nat /\ wrote[u][a] \in Nat
  BY RowTypes
<1>3. CASE wrote[u][a] = 0
  BY <1>1, <1>2, <1>3 DEF Visible, VisibleContent, Added
<1>4. CASE wrote[u][a] # 0
  <2>1. /\ version'[a] = wrote[u][a] /\ version[a] < wrote[u][a]
        /\ content'[a] = content[a] \cup Own(u, version[a] + 1, wrote[u][a])
        /\ draft[u][a] = content[a] \cup Own(u, version[a] + 1, wrote[u][a])
        /\ Added(u, a) = Own(u, version[a] + 1, wrote[u][a])
    BY <1>1, <1>4 DEF Visible, VisibleContent, Added, RowsInv, RowsAreCurrent
  <2>2. \A t \in content[a] : ~(t.to > version[a])
    BY <1>2 DEF RowsInv, RowsAreCurrent
  <2>3. \A t \in Own(u, version[a] + 1, wrote[u][a]) :
          /\ t.to \in (version[a] + 1)..wrote[u][a] /\ t.by = u /\ t.to > version[a]
    BY <1>2 DEF Own
  <2>4. {t \in draft[u][a] : t.by = u /\ t.to > version[a]}
          = Own(u, version[a] + 1, wrote[u][a])
    BY <2>1, <2>2, <2>3
  <2>5. \A n \in (version[a] + 1)..wrote[u][a] :
          \E t \in Own(u, version[a] + 1, wrote[u][a]) : t.to = n
    <3> SUFFICES ASSUME NEW n \in (version[a] + 1)..wrote[u][a]
                 PROVE  \E t \in Own(u, version[a] + 1, wrote[u][a]) : t.to = n
      OBVIOUS
    <3>1. [to |-> n, by |-> u] \in Own(u, version[a] + 1, wrote[u][a])
      BY DEF Own
    <3> QED
      BY <3>1
  <2>6. \A s, t \in Own(u, version[a] + 1, wrote[u][a]) : s.to = t.to => s = t
    BY DEF Own
  <2> QED
    BY <1>1, <1>2, <1>4, <2>1, <2>3, <2>4, <2>5, <2>6
<1> QED
  BY <1>3, <1>4


\* commit gives every unit a newer row or leaves what it sees.
LEMMA CommitKeepsRows ==
  ASSUME TypeOK, RowsInv, NEW u \in Units, Commit(u)
  PROVE  RowsInv'
<1>1. \A a \in Aggregates :
        /\ version[a] \in Nat /\ version'[a] \in Nat /\ version[a] <= version'[a]
        /\ content'[a] = content[a] \cup Added(u, a)
        /\ done'[a] = done[a] \cup Added(u, a)
        /\ \A t \in Added(u, a) : t.to \in (version[a] + 1)..version'[a] /\ t.by = u
        /\ \A n \in (version[a] + 1)..version'[a] : \E t \in Added(u, a) : t.to = n
        /\ \A s, t \in Added(u, a) : s.to = t.to => s = t
  <2> SUFFICES ASSUME NEW a \in Aggregates PROVE version[a] \in Nat /\ Visible(u, a) \in Nat
    BY CommitAdds
  <2> QED
    BY RowTypes DEF Visible
<1>2. /\ \A a \in Aggregates : wrote'[u][a] = 0
      /\ \A v \in Units \ {u} : /\ wrote'[v] = wrote[v] /\ draft'[v] = draft[v]
                                /\ phase'[v] = phase[v]
      /\ phase'[u] = "Committed"
      /\ held' = held /\ image' = image
  BY RowTypes DEF Commit, copies
<1>3. \A a \in Aggregates : wrote[u][a] = 0 => /\ version'[a] = version[a]
                                               /\ content'[a] = content[a]
  BY DEF Commit, Visible, VisibleContent
<1>4. \A a \in Aggregates : wrote[u][a] # 0 => /\ version[a] < version'[a]
                                               /\ \A v \in Units \ {u} : wrote[v][a] = 0
  BY DEF Commit, Visible, RowsInv, RowsAreCurrent
<1>5. \A a \in Aggregates : \A t \in content[a] : t.to \in 1..version[a]
  BY DEF RowsInv, RowsAreCurrent
<1>6. RowsAreCurrent'
  <2>1. \A a \in Aggregates : \A v, w \in Units :
          v # w => wrote'[v][a] = 0 \/ wrote'[w][a] = 0
    BY <1>2 DEF RowsInv, RowsAreCurrent
  <2>2. ASSUME NEW a \in Aggregates, NEW v \in Units, wrote'[v][a] # 0
        PROVE  /\ version'[a] < wrote'[v][a]
               /\ draft'[v][a] = content'[a] \cup Own(v, version'[a] + 1, wrote'[v][a])
    <3>1. v # u /\ wrote[v][a] # 0 /\ wrote'[v] = wrote[v] /\ draft'[v] = draft[v]
      BY <1>2, <2>2
    <3>2. version'[a] = version[a] /\ content'[a] = content[a]
      BY <1>3, <1>4, <3>1
    <3> QED
      BY <3>1, <3>2 DEF RowsInv, RowsAreCurrent
  <2>3. ASSUME NEW a \in Aggregates, NEW t \in content'[a] PROVE t.to \in 1..version'[a]
    <3>1. CASE t \in content[a]
      BY <1>1, <1>5, <3>1
    <3>2. CASE t \in Added(u, a)
      BY <1>1, <3>2
    <3> QED
      BY <1>1, <2>3, <3>1, <3>2
  <2> QED
    BY <2>1, <2>2, <2>3 DEF RowsAreCurrent, Own
<1>7. CopiesAreTrue'
  <2> SUFFICES ASSUME NEW v \in Units, Running(v)', NEW a \in Aggregates
               PROVE  /\ held'[v][a] <= Visible(v, a)'
                      /\ held'[v][a] # 0 /\ held'[v][a] = Visible(v, a)'
                           => image'[v][a] = VisibleContent(v, a)'
    BY DEF CopiesAreTrue
  <2>1. v # u /\ wrote'[v] = wrote[v] /\ draft'[v] = draft[v] /\ Running(v)
    BY <1>2 DEF Running
  <2>2. /\ held[v][a] \in Nat /\ held[v][a] <= Visible(v, a)
        /\ held[v][a] # 0 /\ held[v][a] = Visible(v, a)
             => image[v][a] = VisibleContent(v, a)
    BY <2>1, RowTypes DEF RowsInv, CopiesAreTrue
  <2>3. CASE wrote[u][a] = 0
    <3>1. Visible(v, a)' = Visible(v, a) /\ VisibleContent(v, a)' = VisibleContent(v, a)
      BY <1>3, <2>1, <2>3 DEF Visible, VisibleContent
    <3> QED
      BY <1>2, <2>2, <3>1
  <2>4. CASE wrote[u][a] # 0
    <3>1. Visible(v, a) = version[a] /\ Visible(v, a)' = version'[a]
      BY <1>4, <2>1, <2>4 DEF Visible
    <3> QED
      BY <1>1, <1>2, <1>4, <2>2, <2>4, <3>1
  <2> QED
    BY <2>3, <2>4
<1>8. NoLostUpdate'
  <2> SUFFICES ASSUME NEW a \in Aggregates
               PROVE  /\ content'[a] = done'[a]
                      /\ \A n \in 1..version'[a] : \E t \in done'[a] : t.to = n
                      /\ \A s, t \in done'[a] : s.to = t.to => s = t
    BY DEF NoLostUpdate
  <2>1. /\ content[a] = done[a]
        /\ \A n \in 1..version[a] : \E t \in done[a] : t.to = n
        /\ \A s, t \in done[a] : s.to = t.to => s = t
    BY DEF RowsInv, NoLostUpdate
  <2>2. content'[a] = done'[a]
    <3>1. /\ content'[a] = content[a] \cup Added(u, a)
          /\ done'[a] = done[a] \cup Added(u, a)
      BY <1>1
    <3> HIDE DEF Added
    <3> QED
      BY <2>1, <3>1, Zenon
  <2>3. ASSUME NEW n \in 1..version'[a] PROVE \E t \in done'[a] : t.to = n
    <3>1. n \in 1..version[a] \/ n \in (version[a] + 1)..version'[a]
      BY <1>1
    <3> QED
      BY <1>1, <2>1, <3>1
  <2>4. ASSUME NEW s \in done'[a], NEW t \in done'[a], s.to = t.to PROVE s = t
    <3>1. /\ s \in done[a] \/ s \in Added(u, a)
          /\ t \in done[a] \/ t \in Added(u, a)
      BY <1>1, <2>4
    <3>2. \A r \in done[a] : \A q \in Added(u, a) : r.to # q.to
      <4> SUFFICES ASSUME NEW r \in done[a], NEW q \in Added(u, a) PROVE r.to # q.to
        OBVIOUS
      <4>1. r.to \in 1..version[a]
        BY <1>5, <2>1
      <4>2. q.to \in (version[a] + 1)..version'[a]
        BY <1>1
      <4> QED
        BY <1>1, <4>1, <4>2
    <3> QED
      BY <1>1, <2>1, <2>4, <3>1, <3>2
  <2> QED
    BY <2>2, <2>3, <2>4
<1> QED
  BY <1>6, <1>7, <1>8 DEF RowsInv


\* Every step keeps the rows, the copies and the history in agreement.
LEMMA RowsStep == TypeOK /\ RowsInv /\ [Next]_vars => RowsInv'
<1> SUFFICES ASSUME TypeOK, RowsInv, [Next]_vars PROVE RowsInv'
  OBVIOUS
<1>1. ASSUME NEW u \in Units,
             \/ Enter(u) \/ ReserveClaimed(u) \/ ReserveExisting(u) \/ Complete(u)
             \/ \E n \in Nonces : Consume(u, n)
             \/ \E a \in Aggregates : AddExisting(u, a) \/ Append(u, a)
      PROVE  RowsInv'
  <2>1. /\ version' = version /\ content' = content /\ done' = done
        /\ held' = held /\ image' = image /\ wrote' = wrote /\ draft' = draft
    BY <1>1, RowsUntouched
  <2>2. \A v \in Units : Running(v)' => Running(v)
    <3>1. phase \in [Units -> Phases]
      BY RowTypes
    <3>2. \/ phase' = phase
          \/ phase[u] = "New" /\ phase' = [phase EXCEPT ![u] = "Open"]
          \/ phase' = [phase EXCEPT ![u] = "Aborted"] /\ phase[u] = "Open"
      BY <1>1, RowsUntouched
    <3> QED
      BY <3>1, <3>2 DEF Running
  <2> QED
    BY <2>1, <2>2 DEF RowsInv, RowsAreCurrent, CopiesAreTrue, NoLostUpdate, Visible,
                      VisibleContent
<1>2. ASSUME NEW u \in Units, NEW a \in Aggregates, Get(u, a) PROVE RowsInv'
  <2>1. /\ UNCHANGED <<version, content, done, phase, wrote, draft>>
        /\ held' = [held EXCEPT ![u][a] = Visible(u, a)]
        /\ image' = [image EXCEPT ![u][a] = VisibleContent(u, a)]
    BY <1>2 DEF Get, database, rows, history
  <2> HIDE DEF RowsInv
  <2> QED
    BY <2>1, CopiesKeepRows
<1>3. ASSUME NEW u \in Units, NEW a \in Aggregates, SaveConflict(u, a) PROVE RowsInv'
  <2>1. /\ UNCHANGED <<version, content, done, phase, wrote, draft>>
        /\ held' = [held EXCEPT ![u][a] = 0]
        /\ image' = [image EXCEPT ![u][a] = {}]
    BY <1>3 DEF SaveConflict, database, rows, history
  <2> QED
    BY <2>1, CopiesKeepRows
<1>4. ASSUME NEW u \in Units, NEW a \in Aggregates, Add(u, a) PROVE RowsInv'
  <2>1. Visible(u, a) = 0 /\ ~RowLocked(u, a)
    BY <1>4 DEF Add
  <2>2. wrote[u][a] = 0 /\ version[a] = 0
    BY <2>1 DEF Visible
  <2>3. content[a] = {}
    <3>1. \A t \in content[a] : t.to \in 1..0
      BY <2>2 DEF RowsInv, RowsAreCurrent
    <3> QED
      BY <3>1
  <2>4. VisibleContent(u, a) = {}
    BY <2>2, <2>3 DEF VisibleContent
  <2>5. /\ Visible(u, a) + 1 = 1
        /\ VisibleContent(u, a) \cup {[to |-> Visible(u, a) + 1, by |-> u]}
             = {[to |-> 1, by |-> u]}
    BY <2>1, <2>4
  <2>6. /\ UNCHANGED <<version, content, done>>
        /\ \A v \in Units : Running(v)' => Running(v)
        /\ wrote' = [wrote EXCEPT ![u][a] = Visible(u, a) + 1]
        /\ held' = [held EXCEPT ![u][a] = Visible(u, a) + 1]
        /\ draft' = [draft EXCEPT ![u][a] = VisibleContent(u, a)
                                    \cup {[to |-> Visible(u, a) + 1, by |-> u]}]
        /\ image' = [image EXCEPT ![u][a] = VisibleContent(u, a)
                                    \cup {[to |-> Visible(u, a) + 1, by |-> u]}]
    BY <1>4, <2>5 DEF Add, Running, database, history
  <2> QED
    BY <2>1, <2>6, WritesKeepRows
<1>5. ASSUME NEW u \in Units, NEW a \in Aggregates, UpdateRow(u, a),
             UNCHANGED <<version, content, done>>, Save(u, a) \/ UNCHANGED <<held, image>>,
             \A v \in Units : Running(v)' => Running(v)
      PROVE  RowsInv'
  <2>1. held[u][a] = Visible(u, a) /\ held[u][a] # 0 /\ ~RowLocked(u, a)
    BY <1>5 DEF UpdateRow, ExpectedVersion
  <2>2. Running(u)
    BY <1>5 DEF UpdateRow, Running
  <2>3. image[u][a] = VisibleContent(u, a)
    BY <2>1, <2>2 DEF RowsInv, CopiesAreTrue
  <2>4. /\ wrote' = [wrote EXCEPT ![u][a] = Visible(u, a) + 1]
        /\ draft' = [draft EXCEPT ![u][a] = VisibleContent(u, a)
                                    \cup {[to |-> Visible(u, a) + 1, by |-> u]}]
    BY <1>5, <2>1, <2>3 DEF UpdateRow
  <2>5. ASSUME Save(u, a)
        PROVE  /\ held' = [held EXCEPT ![u][a] = Visible(u, a) + 1]
               /\ image' = [image EXCEPT ![u][a] = VisibleContent(u, a)
                                           \cup {[to |-> Visible(u, a) + 1, by |-> u]}]
    BY <2>1, <2>3, <2>5, RowTypes DEF Save
  <2> HIDE DEF RowsInv
  <2> QED
    BY <1>5, <2>1, <2>4, <2>5, WritesKeepRows
<1>6. ASSUME NEW u \in Units, NEW a \in Aggregates,
             SaveOnly(u, a) \/ SaveTransition(u, a) \/ SaveTransitionFails(u, a)
      PROVE  RowsInv'
  <2>1. /\ UpdateRow(u, a)
        /\ UNCHANGED <<version, content, done>>
        /\ Save(u, a) \/ UNCHANGED <<held, image>>
    BY <1>6 DEF SaveOnly, SaveTransition, SaveTransitionFails, Save, database, copies, history
  <2>2. phase' = phase \/ phase' = [phase EXCEPT ![u] = "Aborted"]
    BY <1>6 DEF SaveOnly, SaveTransition, SaveTransitionFails, RecordEvent, RefuseEvent
  <2>3. phase[u] = "Open"
    BY <2>1 DEF UpdateRow
  <2>4. \A v \in Units : Running(v)' => Running(v)
    BY <2>2, <2>3, RowTypes DEF Running
  <2> QED
    BY <1>5, <2>1, <2>4
<1>7. ASSUME NEW u \in Units, Commit(u) PROVE RowsInv'
  BY <1>7, CommitKeepsRows
<1>8. ASSUME NEW u \in Units, Leave(u) PROVE RowsInv'
  <2>1. /\ Discard(u) /\ UNCHANGED <<version, content, done>>
        /\ phase' = [phase EXCEPT ![u] = "Left"] /\ UNCHANGED <<held, image>>
    BY <1>8 DEF Leave, database, copies, history
  <2> QED
    BY <2>1, DiscardKeepsRows
<1>9. ASSUME NEW u \in Units, Rollback(u) PROVE RowsInv'
  <2>1. /\ Discard(u) /\ UNCHANGED <<version, content, done>>
        /\ \E p \in Phases : phase' = [phase EXCEPT ![u] = p]
        /\ held' = [held EXCEPT ![u] = [a \in Aggregates |-> 0]]
        /\ image' = [image EXCEPT ![u] = [a \in Aggregates |-> {}]]
    BY <1>9 DEF Rollback, database, history, Phases
  <2> QED
    BY <2>1, DiscardKeepsRows
<1>10. CASE UNCHANGED vars
  BY <1>10 DEF vars, database, copies, rows, history, RowsInv, RowsAreCurrent,
               CopiesAreTrue, NoLostUpdate, Visible, VisibleContent, Running
<1> QED
  BY <1>1, <1>2, <1>3, <1>4, <1>6, <1>7, <1>8, <1>9, <1>10 DEF Next

\* Initially the rows hold what nobody of the units has done.
LEMMA RowsInit == Init => RowsInv
<1> SUFFICES ASSUME Init PROVE RowsInv
  OBVIOUS
<1>1. \A a \in Aggregates :
        /\ version[a] \in {0, 1} /\ done[a] = content[a]
        /\ content[a] = {[to |-> v, by |-> NoAnswer] : v \in {1} \cap {version[a]}}
        /\ \A u \in Units : held[u][a] = 0 /\ wrote[u][a] = 0
  BY DEF Init
<1>2. RowsAreCurrent
  BY <1>1 DEF RowsAreCurrent
<1>3. CopiesAreTrue
  BY <1>1 DEF CopiesAreTrue, Visible
<1>4. NoLostUpdate
  <2> SUFFICES ASSUME NEW a \in Aggregates
               PROVE  /\ content[a] = done[a]
                      /\ \A n \in 1..version[a] : \E t \in done[a] : t.to = n
                      /\ \A s, t \in done[a] : s.to = t.to => s = t
    BY DEF NoLostUpdate
  <2>1. CASE version[a] = 0
    BY <1>1, <2>1
  <2>2. CASE version[a] = 1
    <3>1. {1} \cap {version[a]} = {1}
      BY <2>2
    <3>2. done[a] = {[to |-> 1, by |-> NoAnswer]}
      BY <1>1, <3>1
    <3>3. \A t \in done[a] : t = [to |-> 1, by |-> NoAnswer] /\ t.to = 1
      BY <3>2
    <3>4. [to |-> 1, by |-> NoAnswer] \in done[a] /\ 1..version[a] = {1}
      BY <2>2, <3>2
    <3> QED
      BY <1>1, <3>3, <3>4
  <2> QED
    BY <1>1, <2>1, <2>2
<1> QED
  BY <1>2, <1>3, <1>4 DEF RowsInv

\* No update is lost, however many units work on the same aggregates.
THEOREM UpdatesAreKept == Spec => []NoLostUpdate
<1>1. RowsInv => NoLostUpdate
  BY DEF RowsInv
<1> QED
  BY <1>1, RowsInit, RowsStep, TypeCorrect, PTL DEF Spec

-----------------------------------------------------------------------------
(* Audit *)

\* What a unit wrote it has saved, what it counted it has staged or lost, and what
\* was committed is audited, or its event was lost by the unit that made it.
ChangesAreCovered ==
    /\ \A u \in Units : \A a \in Aggregates : wrote[u][a] # 0 =>
         \A n \in (version[a] + 1)..wrote[u][a] : n > 1 => <<a, n>> \in saved[u]
    /\ \A u \in Units : Running(u) => appended[u] \subseteq staged[u] \cup lost[u]
    /\ \A a \in Aggregates : \A t \in done[a] : t.to > 1 =>
         t.by \in Units /\ (<<a, t.to>> \in events \/ <<a, t.to>> \in lost[t.by])

\* What the audit needs of the types.
LEMMA AuditTypes ==
  ASSUME TypeOK
  PROVE  /\ staged \in [Units -> SUBSET (Aggregates \X Versions)]
         /\ lost \in [Units -> SUBSET (Aggregates \X Versions)]
         /\ saved \in [Units -> SUBSET (Aggregates \X Versions)]
         /\ appended \in [Units -> SUBSET (Aggregates \X Versions)]
BY DEF TypeOK

\* The steps that change none of it.
LEMMA AuditUntouched ==
  ASSUME NEW u \in Units, phase \in [Units -> Phases],
         \/ Enter(u) \/ ReserveClaimed(u) \/ ReserveExisting(u) \/ Complete(u)
         \/ \E n \in Nonces : Consume(u, n)
         \/ \E a \in Aggregates : Get(u, a) \/ SaveConflict(u, a) \/ AddExisting(u, a)
  PROVE  /\ version' = version /\ done' = done /\ events' = events /\ wrote' = wrote
         /\ staged' = staged /\ lost' = lost /\ saved' = saved /\ appended' = appended
         /\ \A v \in Units : Running(v)' => Running(v)
<1>1. /\ version' = version /\ done' = done /\ events' = events /\ wrote' = wrote
      /\ staged' = staged /\ lost' = lost /\ saved' = saved /\ appended' = appended
  BY DEF Enter, ReserveClaimed, ReserveExisting, Complete, Consume, Get, SaveConflict,
         AddExisting, database, rows, transitionKeys, history
<1>2. \/ phase' = phase
      \/ phase[u] = "New" /\ phase' = [phase EXCEPT ![u] = "Open"]
      \/ phase[u] = "Open" /\ phase' = [phase EXCEPT ![u] = "Aborted"]
  BY DEF Enter, ReserveClaimed, ReserveExisting, Complete, Consume, Get, SaveConflict,
         AddExisting
<1>3. \A v \in Units : Running(v)' => Running(v)
  BY <1>2 DEF Running
<1> QED
  BY <1>1, <1>3

\* commit lets nothing through that is not audited.
LEMMA CommitIsAudited ==
  ASSUME TypeOK, RowsInv, ChangesAreCovered, NEW u \in Units, Commit(u)
  PROVE  ChangesAreCovered'
<1>1. /\ saved[u] \subseteq appended[u] /\ Running(u)
      /\ events' = events \cup staged[u]
      /\ saved' = saved /\ appended' = appended /\ lost' = lost
  BY DEF Commit, MissingAudit, Running, transitionKeys
<1>2. /\ \A a \in Aggregates : wrote'[u][a] = 0
      /\ \A v \in Units \ {u} : /\ wrote'[v] = wrote[v] /\ staged'[v] = staged[v]
                                /\ phase'[v] = phase[v]
      /\ phase'[u] = "Committed"
  BY RowTypes, AuditTypes DEF Commit
<1>3. \A a \in Aggregates : version[a] \in Nat /\ version'[a] \in Nat /\ version[a] <= version'[a]
  <2> SUFFICES ASSUME NEW a \in Aggregates PROVE version[a] \in Nat /\ Visible(u, a) \in Nat
    BY CommitAdds
  <2> QED
    BY RowTypes DEF Visible
<1>4. ASSUME NEW v \in Units, NEW a \in Aggregates, wrote'[v][a] # 0,
             NEW n \in (version'[a] + 1)..wrote'[v][a], n > 1
      PROVE  <<a, n>> \in saved'[v]
  <2>1. v # u /\ wrote'[v][a] = wrote[v][a] /\ wrote[v][a] \in Nat
    BY <1>2, <1>4, RowTypes
  <2>2. n \in (version[a] + 1)..wrote[v][a]
    BY <1>3, <2>1
  <2> QED
    BY <1>1, <1>4, <2>1, <2>2 DEF ChangesAreCovered
<1>5. \A v \in Units : Running(v)' => appended'[v] \subseteq staged'[v] \cup lost'[v]
  BY <1>1, <1>2 DEF ChangesAreCovered, Running
<1>6. ASSUME NEW a \in Aggregates, NEW t \in done'[a], t.to > 1
      PROVE  t.by \in Units /\ (<<a, t.to>> \in events' \/ <<a, t.to>> \in lost'[t.by])
  <2>1. CASE t \in done[a]
    BY <1>1, <1>6, <2>1 DEF ChangesAreCovered
  <2>2. CASE t \in Added(u, a)
    <3>1. /\ t.to \in (version[a] + 1)..version'[a] /\ t.by = u
          /\ version'[a] = Visible(u, a)
      BY <2>2, CommitAdds
    <3>2. wrote[u][a] # 0 /\ version'[a] = wrote[u][a]
      BY <2>2, <3>1 DEF Added, Visible
    <3>3. <<a, t.to>> \in appended[u]
      BY <1>1, <1>6, <3>1, <3>2 DEF ChangesAreCovered
    <3>4. <<a, t.to>> \in events' \/ <<a, t.to>> \in lost[u]
      BY <1>1, <3>3 DEF ChangesAreCovered
    <3> QED
      BY <1>1, <3>1, <3>4
  <2>3. done'[a] = done[a] \cup Added(u, a)
    BY CommitAdds
  <2> QED
    BY <1>6, <2>1, <2>2, <2>3
<1> QED
  BY <1>4, <1>5, <1>6 DEF ChangesAreCovered


\* What is counted is staged or lost, and what was lost stays so.
EventsAreCounted ==
  \A v \in Units :
    /\ lost[v] \subseteq lost'[v]
    /\ appended[v] \subseteq staged[v] \cup lost[v] => appended'[v] \subseteq staged'[v] \cup lost'[v]

\* An event that is recorded or refused is counted, and aborts its unit at most.
LEMMA EventsCount ==
  ASSUME TypeOK, NEW u \in Units, phase[u] = "Open", NEW entry,
         RecordEvent(u, entry) \/ RefuseEvent(u, entry)
  PROVE  EventsAreCounted /\ \A v \in Units : Running(v)' => Running(v)
<1>1. /\ appended' = [appended EXCEPT ![u] = @ \cup {entry}]
      /\ \/ staged' = [staged EXCEPT ![u] = @ \cup {entry}] /\ lost' = lost
         \/ lost' = [lost EXCEPT ![u] = @ \cup {entry}] /\ staged' = staged
  BY DEF RecordEvent, RefuseEvent, Count
<1>2. phase' = phase \/ phase' = [phase EXCEPT ![u] = "Aborted"]
  BY DEF RecordEvent, RefuseEvent
<1>3. EventsAreCounted
  BY <1>1, AuditTypes DEF EventsAreCounted
<1>4. \A v \in Units : Running(v)' => Running(v)
  BY <1>2, RowTypes DEF Running
<1> QED
  BY <1>3, <1>4

\* A write with the key of its transition saved, or of a new row.
LEMMA SavedKeepsAudit ==
  ASSUME TypeOK, ChangesAreCovered, NEW u \in Units, NEW a \in Aggregates,
         UNCHANGED <<version, done, events>>, \A v \in Units : Running(v)' => Running(v),
         wrote' = [wrote EXCEPT ![u][a] = Visible(u, a) + 1],
         \A v \in Units : saved[v] \subseteq saved'[v],
         Visible(u, a) # 0 => <<a, Visible(u, a) + 1>> \in saved'[u],
         EventsAreCounted
  PROVE  ChangesAreCovered'
<1>1. ASSUME NEW v \in Units, NEW b \in Aggregates, wrote'[v][b] # 0,
             NEW n \in (version[b] + 1)..wrote'[v][b], n > 1
      PROVE  <<b, n>> \in saved'[v]
  <2>1. wrote'[v][b] = IF v = u /\ b = a THEN Visible(u, a) + 1 ELSE wrote[v][b]
    BY RowTypes
  <2>2. CASE ~(v = u /\ b = a)
    BY <1>1, <2>1, <2>2 DEF ChangesAreCovered
  <2>3. CASE v = u /\ b = a
    <3>1. /\ n \in (version[a] + 1)..(Visible(u, a) + 1)
          /\ version[a] \in Nat /\ wrote[u][a] \in Nat /\ Visible(u, a) \in Nat
      BY <1>1, <2>1, <2>3, RowTypes DEF Visible
    <3>2. CASE n = Visible(u, a) + 1
      <4>1. Visible(u, a) # 0
        BY <1>1, <3>1, <3>2
      <4> QED
        BY <2>3, <3>2, <4>1
    <3>3. CASE n # Visible(u, a) + 1
      <4>1. wrote[u][a] # 0 /\ n \in (version[a] + 1)..wrote[u][a]
        BY <3>1, <3>3 DEF Visible
      <4>2. <<a, n>> \in saved[u]
        BY <1>1, <4>1 DEF ChangesAreCovered
      <4> QED
        BY <2>3, <4>2
    <3> QED
      BY <3>2, <3>3
  <2> QED
    BY <2>2, <2>3
<1>2. version' = version /\ done' = done /\ events' = events
  OBVIOUS
<1>3. \A v \in Units : Running(v)' => appended'[v] \subseteq staged'[v] \cup lost'[v]
  BY DEF ChangesAreCovered, EventsAreCounted
<1>4. ASSUME NEW b \in Aggregates, NEW t \in done'[b], t.to > 1
      PROVE  t.by \in Units /\ (<<b, t.to>> \in events' \/ <<b, t.to>> \in lost'[t.by])
  BY <1>2, <1>4 DEF ChangesAreCovered, EventsAreCounted
<1> QED
  BY <1>1, <1>3, <1>4 DEF ChangesAreCovered

\* A unit that ends or starts over: what it had staged is lost.
LEMMA DiscardKeepsAudit ==
  ASSUME TypeOK, ChangesAreCovered, NEW u \in Units, Discard(u),
         UNCHANGED <<version, done, events, saved, appended>>,
         \A v \in Units : Running(v)' => Running(v)
  PROVE  ChangesAreCovered'
<1>1. /\ \A a \in Aggregates : wrote'[u][a] = 0
      /\ \A v \in Units \ {u} : wrote'[v] = wrote[v]
  BY RowTypes DEF Discard
<1>2. \A v \in Units : /\ lost[v] \subseteq lost'[v]
                       /\ staged[v] \cup lost[v] \subseteq staged'[v] \cup lost'[v]
  BY AuditTypes DEF Discard
<1>3. /\ version' = version /\ done' = done /\ events' = events /\ saved' = saved
      /\ appended' = appended
  OBVIOUS
<1>4. \A v \in Units : \A a \in Aggregates : wrote'[v][a] # 0 =>
        \A n \in (version'[a] + 1)..wrote'[v][a] : n > 1 => <<a, n>> \in saved'[v]
  BY <1>1, <1>3 DEF ChangesAreCovered
<1>5. \A v \in Units : Running(v)' => appended'[v] \subseteq staged'[v] \cup lost'[v]
  BY <1>2, <1>3 DEF ChangesAreCovered
<1>6. ASSUME NEW b \in Aggregates, NEW t \in done'[b], t.to > 1
      PROVE  t.by \in Units /\ (<<b, t.to>> \in events' \/ <<b, t.to>> \in lost'[t.by])
  BY <1>2, <1>3, <1>6 DEF ChangesAreCovered
<1> QED
  BY <1>4, <1>5, <1>6 DEF ChangesAreCovered

\* Every step keeps the changes covered.
LEMMA AuditStep ==
  TypeOK /\ RowsInv /\ ChangesAreCovered /\ [Next]_vars => ChangesAreCovered'
<1> SUFFICES ASSUME TypeOK, RowsInv, ChangesAreCovered, [Next]_vars
             PROVE  ChangesAreCovered'
  OBVIOUS
<1>1. ASSUME NEW u \in Units,
             \/ Enter(u) \/ ReserveClaimed(u) \/ ReserveExisting(u) \/ Complete(u)
             \/ \E n \in Nonces : Consume(u, n)
             \/ \E a \in Aggregates : Get(u, a) \/ SaveConflict(u, a) \/ AddExisting(u, a)
      PROVE  ChangesAreCovered'
  <2>1. phase \in [Units -> Phases]
    BY RowTypes
  <2>2. /\ version' = version /\ done' = done /\ events' = events /\ wrote' = wrote
        /\ staged' = staged /\ lost' = lost /\ saved' = saved /\ appended' = appended
        /\ \A v \in Units : Running(v)' => Running(v)
    BY <1>1, <2>1, AuditUntouched
  <2> QED
    BY <2>2 DEF ChangesAreCovered
<1>2. ASSUME NEW u \in Units, NEW a \in Aggregates, Add(u, a) PROVE ChangesAreCovered'
  <2>1. Visible(u, a) = 0
    BY <1>2 DEF Add
  <2>2. /\ UNCHANGED <<version, done, events, phase>>
        /\ wrote' = [wrote EXCEPT ![u][a] = Visible(u, a) + 1]
        /\ saved' = saved /\ appended' = appended /\ staged' = staged /\ lost' = lost
    BY <1>2, <2>1 DEF Add, database, transitionKeys, history
  <2>3. EventsAreCounted /\ \A v \in Units : Running(v)' => Running(v)
    BY <2>2 DEF EventsAreCounted, Running
  <2> QED
    BY <2>1, <2>2, <2>3, SavedKeepsAudit
<1>3. ASSUME NEW u \in Units, NEW a \in Aggregates,
             SaveOnly(u, a) \/ SaveTransition(u, a) \/ SaveTransitionFails(u, a)
      PROVE  ChangesAreCovered'
  <2>1. UpdateRow(u, a)
    BY <1>3 DEF SaveOnly, SaveTransition, SaveTransitionFails, Save
  <2>2. /\ wrote' = [wrote EXCEPT ![u][a] = Visible(u, a) + 1]
        /\ saved' = [saved EXCEPT ![u] = @ \cup {<<a, Visible(u, a) + 1>>}]
        /\ phase[u] = "Open"
    BY <2>1 DEF UpdateRow, ExpectedVersion
  <2>3. /\ \A v \in Units : saved[v] \subseteq saved'[v]
        /\ <<a, Visible(u, a) + 1>> \in saved'[u]
    BY <2>2, AuditTypes
  <2>4. UNCHANGED <<version, done, events>>
    BY <1>3 DEF SaveOnly, SaveTransition, SaveTransitionFails, database, history
  <2>5. EventsAreCounted /\ \A v \in Units : Running(v)' => Running(v)
    <3>1. \/ UNCHANGED <<appended, staged, lost, phase>>
          \/ RecordEvent(u, <<a, held[u][a] + 1>>)
          \/ RefuseEvent(u, <<a, held[u][a] + 1>>)
      BY <1>3 DEF SaveOnly, SaveTransition, SaveTransitionFails
    <3>2. CASE UNCHANGED <<appended, staged, lost, phase>>
      BY <3>2 DEF EventsAreCounted, Running
    <3> QED
      BY <2>2, <3>1, <3>2, EventsCount
  <2> QED
    BY <2>2, <2>3, <2>4, <2>5, SavedKeepsAudit
<1>4. ASSUME NEW u \in Units, NEW a \in Aggregates, Append(u, a) PROVE ChangesAreCovered'
  <2>1. /\ version' = version /\ done' = done /\ events' = events /\ wrote' = wrote
        /\ saved' = saved
    BY <1>4 DEF Append, database, history
  <2>2. EventsAreCounted /\ \A v \in Units : Running(v)' => Running(v)
    <3>1. phase[u] = "Open" /\ \E v : RecordEvent(u, <<a, v>>) \/ RefuseEvent(u, <<a, v>>)
      BY <1>4 DEF Append
    <3> QED
      BY <3>1, EventsCount
  <2>3. ASSUME NEW b \in Aggregates, NEW t \in done'[b], t.to > 1
        PROVE  t.by \in Units /\ (<<b, t.to>> \in events' \/ <<b, t.to>> \in lost'[t.by])
    BY <2>1, <2>2, <2>3 DEF ChangesAreCovered, EventsAreCounted
  <2>4. \A v \in Units : Running(v)' => appended'[v] \subseteq staged'[v] \cup lost'[v]
    BY <2>2 DEF ChangesAreCovered, EventsAreCounted
  <2>5. \A v \in Units : \A b \in Aggregates : wrote'[v][b] # 0 =>
          \A n \in (version'[b] + 1)..wrote'[v][b] : n > 1 => <<b, n>> \in saved'[v]
    BY <2>1 DEF ChangesAreCovered
  <2> QED
    BY <2>3, <2>4, <2>5 DEF ChangesAreCovered
<1>5. ASSUME NEW u \in Units, Commit(u) PROVE ChangesAreCovered'
  BY <1>5, CommitIsAudited
<1>6. ASSUME NEW u \in Units, Leave(u) \/ Rollback(u) PROVE ChangesAreCovered'
  <2>1. Discard(u) /\ UNCHANGED <<version, done, events, saved, appended>>
    BY <1>6 DEF Leave, Rollback, database, transitionKeys, history
  <2>2. /\ phase[u] \in {"Open", "Aborted"}
        /\ phase' = [phase EXCEPT ![u] = "Left"] \/ phase' = [phase EXCEPT ![u] = "Open"]
    BY <1>6 DEF Leave, Rollback
  <2>3. \A v \in Units : Running(v)' => Running(v)
    BY <2>2, RowTypes DEF Running
  <2> QED
    BY <2>1, <2>3, DiscardKeepsAudit
<1>7. CASE UNCHANGED vars
  BY <1>7 DEF vars, database, rows, transitionKeys, history, ChangesAreCovered, Running
<1> QED
  BY <1>1, <1>2, <1>3, <1>4, <1>5, <1>6, <1>7 DEF Next

\* Every committed change is audited, unless the unit that made it had counted the
\* very event and lost it.
THEOREM ChangesAreAudited == Spec => []TransitionsAreAudited
<1>1. Init => ChangesAreCovered
  <2> SUFFICES ASSUME Init PROVE ChangesAreCovered
    OBVIOUS
  <2>1. \A a \in Aggregates : \A t \in done[a] : t.to = 1
    BY DEF Init
  <2> QED
    BY <2>1 DEF Init, ChangesAreCovered
<1>2. ChangesAreCovered => TransitionsAreAudited
  BY DEF ChangesAreCovered, TransitionsAreAudited
<1> QED
  BY <1>1, <1>2, RowsInit, RowsStep, AuditStep, TypeCorrect, PTL DEF Spec
=============================================================================
