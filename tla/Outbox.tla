------------------------------- MODULE Outbox -------------------------------
(***************************************************************************)
(* The transactional outbox of one tenant (OutboxRepository in             *)
(* backend/app/infrastructure/outbox/repository.py) and the workers that   *)
(* drain it.  The repository ships no worker: workers and the provider are *)
(* modelled from the calls the repository's methods expect.                *)
(*                                                                         *)
(* Each method runs under a row lock (FOR UPDATE, SKIP LOCKED when it      *)
(* claims), so it is one action.  It judges time by the `now` its caller   *)
(* passes, which was read up to MaxLag ticks before the lock was granted.  *)
(* The time stamps are kept as the time that is left until them, from      *)
(* -MaxLag up: anything older is equally past for every caller.            *)
(***************************************************************************)
EXTENDS Integers, FiniteSets

CONSTANTS
  Item,         \* idempotency keys; a key has one row
  Worker,       \* worker ids
  NoWorker,     \* locked_by is null
  LeaseFor,     \* lease_for
  RetryDelay,   \* next_attempt_at - now that a worker passes to mark_failed
  MaxLag,       \* age of the clock reading a call uses
  Limit,        \* limit of claim_due
  MaxAttempts   \* bound on attempt_count

ASSUME WorkerAssumption == NoWorker \notin Worker

ASSUME TimeAssumption ==
  LeaseFor \in Nat \ {0} /\ RetryDelay \in Nat /\ MaxLag \in Nat

ASSUME OutboxBounds == Limit \in Nat \ {0} /\ MaxAttempts \in Nat

VARIABLES
  items,    \* the rows of outbox_items
  claims,   \* per worker, the <<item, attempt_count>> pairs it works on
  sent,     \* the <<item, attempt>> pairs whose message the provider took
  writer    \* history: the attempt that last wrote an outcome of the item

outboxVars == <<items, claims, sent, writer>>

Lag == 0..MaxLag

Attempt == 0..MaxAttempts

TimeLeft == (0 - MaxLag)..(LeaseFor + RetryDelay)

\* What a producer gives as next_attempt_at; the lowest value stands for null.
FirstAttempt == (0 - MaxLag)..RetryDelay

\* ack is external_delivery_id: the provider's receipt for the attempt ack.
ItemRecord ==
  [status : {"ABSENT", "PENDING", "PROCESSING", "DELIVERED", "FAILED"},
   attempts : Attempt, lockedBy : Worker \cup {NoWorker},
   lockedUntil : TimeLeft, nextAttempt : TimeLeft, ack : Attempt]

OutboxInit ==
  /\ items = [i \in Item |->
                [status |-> "ABSENT", attempts |-> 0, lockedBy |-> NoWorker,
                 lockedUntil |-> 0 - MaxLag, nextAttempt |-> 0 - MaxLag, ack |-> 0]]
  /\ claims = [w \in Worker |-> {}]
  /\ sent = {}
  /\ writer = [i \in Item |-> 0]

-----------------------------------------------------------------------------

\* The producer may leave next_attempt_at null (due for every caller) or set a
\* time.  Enqueuing a key again returns the row there is, or fails on another
\* payload.
Enqueue(i, next) ==
  /\ items[i].status = "ABSENT"
  /\ items' = [items EXCEPT ![i].status = "PENDING", ![i].nextAttempt = next]
  /\ UNCHANGED <<claims, sent, writer>>

Closer(t) == IF t > 0 - MaxLag THEN t - 1 ELSE t

Tick ==
  /\ items' = [i \in Item |->
                 [items[i] EXCEPT !.lockedUntil = Closer(@), !.nextAttempt = Closer(@)]]
  /\ UNCHANGED <<claims, sent, writer>>

\* Mutant: a row whose worker died is not taken over.
Due_NotAbandoned(i, lag) ==
  items[i].status \in {"PENDING", "FAILED"} /\ items[i].nextAttempt + lag <= 0

\* due_pending, or abandoned_processing.
Due(i, lag) ==
  \/ items[i].status \in {"PENDING", "FAILED"} /\ items[i].nextAttempt + lag <= 0
  \/ items[i].status = "PROCESSING" /\ items[i].lockedUntil + lag <= 0

\* Mutant: taking over an abandoned row keeps its attempt_count.
NextAttemptCount_SameOnTakeover(i) ==
  IF items[i].status = "PROCESSING" THEN items[i].attempts ELSE items[i].attempts + 1

NextAttemptCount(i) == items[i].attempts + 1

\* Which due rows a worker gets depends on the row locks that others hold
\* (SKIP LOCKED), so any choice of them up to the limit is possible.
ClaimDue(w, S, lag) ==
  /\ S # {} /\ Cardinality(S) <= Limit
  /\ \A i \in S : Due(i, lag) /\ items[i].attempts < MaxAttempts
  /\ items' = [i \in Item |->
                 IF i \in S
                 THEN [items[i] EXCEPT !.status = "PROCESSING",
                                       !.attempts = NextAttemptCount(i),
                                       !.lockedBy = w,
                                       !.lockedUntil = LeaseFor - lag]
                 ELSE items[i]]
  /\ claims' = [claims EXCEPT ![w] = @ \cup {<<i, NextAttemptCount(i)>> : i \in S}]
  /\ UNCHANGED <<sent, writer>>

\* Mutant: the lease is compared by worker, not by claim.
ActiveLease_AnyAttempt(w, i, n, lag) ==
  /\ items[i].status = "PROCESSING"
  /\ items[i].lockedBy = w
  /\ items[i].lockedUntil + lag > 0

\* _assert_active_lease.
ActiveLease(w, i, n, lag) ==
  /\ items[i].status = "PROCESSING"
  /\ items[i].lockedBy = w
  /\ items[i].attempts = n
  /\ items[i].lockedUntil + lag > 0

MarkFailed(w, i, n, lag) ==
  /\ <<i, n>> \in claims[w]
  /\ ActiveLease(w, i, n, lag)
  /\ items' = [items EXCEPT ![i].status = "FAILED",
                            ![i].nextAttempt = RetryDelay - lag,
                            ![i].lockedBy = NoWorker,
                            ![i].lockedUntil = 0 - MaxLag]
  /\ writer' = [writer EXCEPT ![i] = n]
  /\ UNCHANGED <<claims, sent>>

\* Mutant: an acknowledgement is accepted without a look at the lease.
MayAcknowledge_Always(w, i, n, lag) == items[i].status # "ABSENT"

\* A delivered row is never written again, whatever the acknowledgement.
MayAcknowledge(w, i, n, lag) ==
  items[i].status # "DELIVERED" /\ ActiveLease(w, i, n, lag)

MarkDelivered(w, i, n, lag) ==
  /\ <<i, n>> \in claims[w]
  /\ <<i, n>> \in sent
  /\ MayAcknowledge(w, i, n, lag)
  /\ items' = [items EXCEPT ![i].status = "DELIVERED",
                            ![i].ack = n,
                            ![i].nextAttempt = 0 - MaxLag,
                            ![i].lockedBy = NoWorker,
                            ![i].lockedUntil = 0 - MaxLag]
  /\ writer' = [writer EXCEPT ![i] = n]
  /\ UNCHANGED <<claims, sent>>

\* A worker hands the message to the provider, however late it is.
Send(w, i, n) ==
  /\ <<i, n>> \in claims[w]
  /\ sent' = sent \cup {<<i, n>>}
  /\ UNCHANGED <<items, claims, writer>>

\* A worker drops what it holds of an item: it is done, its call was rejected,
\* or the task died.
Drop(w, i, n) ==
  /\ <<i, n>> \in claims[w]
  /\ claims' = [claims EXCEPT ![w] = @ \ {<<i, n>>}]
  /\ UNCHANGED <<items, sent, writer>>

\* A worker process stops and starts again under the same id.
Crash(w) ==
  /\ claims[w] # {}
  /\ claims' = [claims EXCEPT ![w] = {}]
  /\ UNCHANGED <<items, sent, writer>>

-----------------------------------------------------------------------------

ClaimNext ==
  \E w \in Worker, S \in SUBSET Item, lag \in Lag : ClaimDue(w, S, lag)

TaskNext ==
  \E w \in Worker, i \in Item, n \in Attempt :
    \/ \E lag \in Lag : MarkFailed(w, i, n, lag) \/ MarkDelivered(w, i, n, lag)
    \/ Send(w, i, n)
    \/ Drop(w, i, n)

OutboxNext ==
  \/ \E i \in Item, next \in FirstAttempt : Enqueue(i, next)
  \/ Tick
  \/ ClaimNext
  \/ TaskNext
  \/ \E w \in Worker : Crash(w)

\* Some worker that is alive claims item i.
Polled(i) ==
  \E w \in Worker, S \in SUBSET Item, lag \in Lag : i \in S /\ ClaimDue(w, S, lag)

\* Time passes, and workers keep polling with a limit that reaches every due
\* row.  Nothing is assumed of what a worker does with what it claimed.
Fairness == WF_outboxVars(Tick) /\ \A i \in Item : WF_outboxVars(Polled(i))

OutboxSpec == OutboxInit /\ [][OutboxNext]_outboxVars /\ Fairness

-----------------------------------------------------------------------------

\* The rows are of the shapes the repository writes, with each timer in range.
OutboxTypeOK ==
  /\ items \in [Item -> ItemRecord]
  /\ claims \in [Worker -> SUBSET (Item \X Attempt)]
  /\ sent \subseteq Item \X Attempt
  /\ writer \in [Item -> Attempt]

\* Fencing: the outcome a row shows was written by its latest attempt.  A
\* worker that lost its lease never writes over the work of its successor,
\* also when the successor is itself (_assert_active_lease).
OutcomeOfLatestAttempt ==
  \A i \in Item :
    items[i].status \in {"FAILED", "DELIVERED"} => writer[i] = items[i].attempts

\* No two tasks ever hold the same attempt of an item, so at most one of all
\* tasks that still run can write the outcome (claim_due).
AttemptsAreExclusive ==
  \A v, w \in Worker, i \in Item, n \in Attempt :
    <<i, n>> \in claims[v] /\ <<i, n>> \in claims[w] => v = w

\* A row is DELIVERED only with the receipt of a message the provider took in
\* the very attempt that the row counts last (mark_delivered).
ReceiptIsOfLatestAttempt ==
  \A i \in Item :
    items[i].status = "DELIVERED" =>
      items[i].ack = items[i].attempts /\ <<i, items[i].ack>> \in sent

\* A delivered row never changes again, whatever late workers report; only
\* its timers, which nothing reads, run on.
DeliveredIsFinal ==
  [][\A i \in Item :
       items[i].status = "DELIVERED" =>
         /\ items'[i].status = "DELIVERED"
         /\ items'[i].ack = items[i].ack
         /\ items'[i].attempts = items[i].attempts
         /\ writer'[i] = writer[i]]_outboxVars

\* No row is stranded: it is attempted again and again until it is delivered,
\* even if every worker dies with what it claimed (abandoned_processing).
NeverStranded ==
  \A i \in Item :
    items[i].status = "PENDING" ~>
      (items[i].status = "DELIVERED" \/ items[i].attempts = MaxAttempts)

\* The claims in hand and the receipts are of attempts already counted; what
\* makes the invariants above inductive.
AttemptsAreCounted ==
  /\ \A w \in Worker, i \in Item, n \in Attempt :
       <<i, n>> \in claims[w] => n <= items[i].attempts
  /\ \A i \in Item : items[i].status = "ABSENT" => items[i].attempts = 0
=============================================================================
