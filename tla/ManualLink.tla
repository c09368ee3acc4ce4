----------------------------- MODULE ManualLink -----------------------------
(***************************************************************************)
(* The manual-link gateway (ManualLinkDeliveryAdapter in                   *)
(* modules/messaging/manual_link.py on the repository of                   *)
(* live/manual_link_repository.py): a link is created for a message,       *)
(* copied and sent by people, and opened by the supplier, whose opening is *)
(* the only confirmation of the delivery.                                  *)
(*                                                                         *)
(* A call reads the record, decides, and ends with at most one atomic      *)
(* write of the repository, which reads committed rows.  With Locked, as   *)
(* in the live runtime, calls run one at a time under the snapshot lock;   *)
(* without, calls interleave between their reads and their write, as the   *)
(* repository's protocol allows.  A call that dies has written nothing.    *)
(***************************************************************************)
EXTENDS Naturals, Sequences

CONSTANTS
  Message,   \* idempotency keys; the external id, which is the capability in
             \* the public link, is fixed by the record of its key
  Payload,   \* fingerprints of normalized messages
  Call,      \* calls of the adapter that may be in progress together
  Locked,    \* calls run under the snapshot lock
  None,
  MaxTime,   \* bound on the clock
  MaxTrail   \* bound on the activities of a message

ASSUME ManualLinkAssumption ==
  /\ Locked \in BOOLEAN
  /\ None \notin Payload
  /\ None \notin Nat

ASSUME ManualLinkBounds == MaxTime \in Nat /\ MaxTrail \in Nat

Time == 0..MaxTime

VARIABLES
  now,
  records,   \* the rows of manual_link_deliveries, by idempotency key
  trail,     \* the rows of manual_delivery_activities of each record, in order
  calls,     \* where each call is, and what it read
  accepted,  \* history: the payloads whose sender was told its link exists
  receipts   \* history: the delivered_at values that openings were told

vars == <<now, records, trail, calls, accepted, receipts>>

HumanAction == {"LINK_COPIED", "SEND_RECORDED"}

Activity == {"LINK_CREATED", "SUPPLIER_OPENED"} \cup HumanAction

Record ==
  [status : {"NONE", "SENT_TO_GATEWAY", "DELIVERED"},
   fingerprint : Payload \cup {None}, deliveredAt : Time \cup {None}]

Idle == [step |-> "idle"]

CallState ==
  {Idle}
  \cup [step : {"create"}, message : Message, payload : Payload]
  \cup [step : {"append"}, message : Message, action : HumanAction]
  \cup [step : {"has_activity"}, message : Message]
  \cup [step : {"mark"}, message : Message, at : Time]

Init ==
  /\ now = 0
  /\ records = [m \in Message |->
                  [status |-> "NONE", fingerprint |-> None, deliveredAt |-> None]]
  /\ trail = [m \in Message |-> << >>]
  /\ calls = [c \in Call |-> Idle]
  /\ accepted = [m \in Message |-> {}]
  /\ receipts = [m \in Message |-> {}]

-----------------------------------------------------------------------------

Tick ==
  /\ now < MaxTime
  /\ now' = now + 1
  /\ UNCHANGED <<records, trail, calls, accepted, receipts>>

\* A call starts: it is given the snapshot lock, if calls take it.
Start(c) ==
  /\ calls[c] = Idle
  /\ Locked => \A d \in Call : calls[d] = Idle

GoTo(c, state) == calls' = [calls EXCEPT ![c] = state]

Performed(m, action) == \E i \in 1..Len(trail[m]) : trail[m][i] = action

\* Mutant: a known key is a replay, whatever is sent under it.
Replays_AnyPayload(m, p) == records[m].status # "NONE"

\* get_by_idempotency_key finds the record of an equal message.
Replays(m, p) == records[m].status # "NONE" /\ records[m].fingerprint = p

\* send() of a known key answers with the record; another payload under it is
\* GatewayIdempotencyConflict and changes nothing.
SendReplay(c, m, p) ==
  /\ Start(c)
  /\ Replays(m, p)
  /\ accepted' = [accepted EXCEPT ![m] = @ \cup {p}]
  /\ UNCHANGED <<now, records, trail, calls, receipts>>

Send(c, m, p) ==
  /\ Start(c)
  /\ records[m].status = "NONE"
  /\ GoTo(c, [step |-> "create", message |-> m, payload |-> p])
  /\ UNCHANGED <<now, records, trail, accepted, receipts>>

\* create: the record and its LINK_CREATED in one savepoint, unless the unique
\* idempotency key has been taken since, which is a conflict too.
Create(c) ==
  LET m == calls[c].message
      p == calls[c].payload
  IN  /\ calls[c].step = "create"
      /\ GoTo(c, Idle)
      /\ IF records[m].status = "NONE"
         THEN /\ records' = [records EXCEPT ![m] =
                   [status |-> "SENT_TO_GATEWAY", fingerprint |-> p,
                    deliveredAt |-> None]]
              /\ trail' = [trail EXCEPT ![m] = Append(@, "LINK_CREATED")]
              /\ accepted' = [accepted EXCEPT ![m] = @ \cup {p}]
         ELSE UNCHANGED <<records, trail, accepted>>
      /\ UNCHANGED <<now, receipts>>

\* _required_pending_record.
Pending(m) == records[m].status = "SENT_TO_GATEWAY"

\* record_link_copied and record_sent, by a buyer.
RecordHumanAction(c, m, action) ==
  /\ Start(c)
  /\ Pending(m)
  /\ Len(trail[m]) < MaxTrail
  /\ GoTo(c, [step |-> "append", message |-> m, action |-> action])
  /\ UNCHANGED <<now, records, trail, accepted, receipts>>

\* append_activity does not look at the status again.
AppendActivity(c) ==
  /\ calls[c].step = "append"
  /\ GoTo(c, Idle)
  /\ trail' = [trail EXCEPT ![calls[c].message] = Append(@, calls[c].action)]
  /\ UNCHANGED <<now, records, accepted, receipts>>

\* confirm_supplier_open of a link that was opened before.
OpenAgain(c, m) ==
  /\ Start(c)
  /\ records[m].status = "DELIVERED"
  /\ receipts' = [receipts EXCEPT ![m] = @ \cup {records[m].deliveredAt}]
  /\ UNCHANGED <<now, records, trail, calls, accepted>>

Open(c, m) ==
  /\ Start(c)
  /\ records[m].status = "SENT_TO_GATEWAY"
  /\ GoTo(c, [step |-> "has_activity", message |-> m])
  /\ UNCHANGED <<now, records, trail, accepted, receipts>>

\* has_activity, and the time of the opening if a send was recorded.
CheckSent(c) ==
  /\ calls[c].step = "has_activity"
  /\ GoTo(c, IF Performed(calls[c].message, "SEND_RECORDED")
             THEN [step |-> "mark", message |-> calls[c].message, at |-> now]
             ELSE Idle)
  /\ UNCHANGED <<now, records, trail, accepted, receipts>>

\* Mutant: neither the status predicate nor the deduplication key is there.
WinsTransition_Always(m) == TRUE

\* The conditional update hits the row, and the insertion of its activity does
\* not meet an earlier one's deduplication key (which would undo the update).
WinsTransition(m) ==
  /\ records[m].status # "DELIVERED"
  /\ Performed(m, "SEND_RECORDED")
  /\ ~Performed(m, "SUPPLIER_OPENED")

\* Mutant: an opening that lost is told its own time.
ReportedTime_Own(m, at) == at

\* The row is read again after the update, so the loser reports the winner's.
ReportedTime(m, at) == records'[m].deliveredAt

MarkDeliveredOnOpen(c) ==
  LET m  == calls[c].message
      at == calls[c].at
  IN  /\ calls[c].step = "mark"
      /\ GoTo(c, Idle)
      /\ IF WinsTransition(m)
         THEN /\ records' = [records EXCEPT ![m].status = "DELIVERED",
                                            ![m].deliveredAt = at]
              /\ trail' = [trail EXCEPT ![m] = Append(@, "SUPPLIER_OPENED")]
         ELSE UNCHANGED <<records, trail>>
      /\ receipts' = [receipts EXCEPT ![m] = @ \cup {ReportedTime(m, at)}]
      /\ UNCHANGED <<now, accepted>>

\* The process dies; the transaction of the call is rolled back.
Die(c) ==
  /\ calls[c] # Idle
  /\ GoTo(c, Idle)
  /\ UNCHANGED <<now, records, trail, accepted, receipts>>

-----------------------------------------------------------------------------

Begin(c, m) ==
  \/ \E p \in Payload : SendReplay(c, m, p) \/ Send(c, m, p)
  \/ \E action \in HumanAction : RecordHumanAction(c, m, action)
  \/ OpenAgain(c, m)
  \/ Open(c, m)

Continue(c) ==
  \/ Create(c)
  \/ AppendActivity(c)
  \/ CheckSent(c)
  \/ MarkDeliveredOnOpen(c)

Next ==
  \/ Tick
  \/ \E c \in Call, m \in Message : Begin(c, m)
  \/ \E c \in Call : Continue(c) \/ Die(c)

Spec == Init /\ [][Next]_vars

-----------------------------------------------------------------------------

\* The rows and the calls in progress have the shapes the adapter gives them.
TypeOK ==
  /\ now \in Time
  /\ records \in [Message -> Record]
  /\ trail \in [Message -> Seq(Activity)]
  /\ calls \in [Call -> CallState]
  /\ accepted \in [Message -> SUBSET Payload]
  /\ receipts \in [Message -> SUBSET Time]

\* A message is DELIVERED exactly when its trail has one opening by the
\* supplier, and a person recorded the send before that opening, however many
\* openings and sends overlap (mark_delivered_on_open).
DeliveryIsWitnessed ==
  \A m \in Message :
    /\ records[m].status = "DELIVERED" <=> Performed(m, "SUPPLIER_OPENED")
    /\ \A i, j \in 1..Len(trail[m]) :
         trail[m][i] = "SUPPLIER_OPENED" /\ trail[m][j] = "SUPPLIER_OPENED" => i = j
    /\ \A i \in 1..Len(trail[m]) :
         trail[m][i] = "SUPPLIER_OPENED" =>
           \E j \in 1..(i - 1) : trail[m][j] = "SEND_RECORDED"

\* Openings that race are all told the same time of delivery, the record's.
OpeningsAgree ==
  \A m \in Message : receipts[m] \subseteq {records[m].deliveredAt}

\* Under the snapshot lock nobody copies or sends a link after the supplier
\* has opened it: the opening is the last entry of the trail.
OpeningEndsTrail ==
  \A m \in Message : \A i \in 1..Len(trail[m]) :
    trail[m][i] = "SUPPLIER_OPENED" => i = Len(trail[m])

\* The refinement: the manual link is a gateway as the service expects it.
Gateway ==
  INSTANCE DeliveryGateway WITH
    status      <- [m \in Message |-> records[m].status],
    confirmedAt <- [m \in Message |-> records[m].deliveredAt]

\* What the adapter tells its callers, through overlapping sends, openings and
\* deaths, is what DeliveryGateway promises.
ImplementsGateway == Gateway!GatewaySpec

-----------------------------------------------------------------------------
(* What makes these properties inductive *)

\* A record binds its payload; only a delivered one has a time.
RecordsAreConsistent ==
  \A m \in Message :
    /\ records[m].deliveredAt # None <=> records[m].status = "DELIVERED"
    /\ accepted[m] = IF records[m].status = "NONE" THEN {}
                     ELSE {records[m].fingerprint}
    /\ records[m].status # "NONE" => records[m].fingerprint # None

\* Only a message that has a record is opened, copied or sent, and only one
\* whose send was recorded is about to be marked.
CallsAreGrounded ==
  \A c \in Call :
    /\ calls[c].step \in {"append", "has_activity", "mark"} =>
         records[calls[c].message].status # "NONE"
    /\ calls[c].step = "mark" => Performed(calls[c].message, "SEND_RECORDED")

\* Under the lock one call is in progress, on a record that is still pending.
CallsAreAlone ==
  /\ \A c, d \in Call : calls[c] # Idle /\ calls[d] # Idle => c = d
  /\ \A c \in Call :
       calls[c].step \in {"append", "has_activity", "mark"} =>
         Pending(calls[c].message)

ManualLinkInv ==
  /\ TypeOK
  /\ RecordsAreConsistent
  /\ CallsAreGrounded
  /\ DeliveryIsWitnessed
  /\ OpeningsAgree
=============================================================================
