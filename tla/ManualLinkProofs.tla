-------------------------- MODULE ManualLinkProofs --------------------------
(***************************************************************************)
(* The manual link is a gateway as the service expects it, for any number  *)
(* of messages, calls and activities and every interleaving of the calls.  *)
(***************************************************************************)
EXTENDS ManualLink, TLAPS

\* What a call has read has the shape of its step.
LEMMA CallFields ==
  ASSUME TypeOK, NEW c \in Call
  PROVE  /\ calls[c].step \in {"idle", "create", "append", "has_activity", "mark"}
         /\ calls[c].step = "create" =>
              calls[c].message \in Message /\ calls[c].payload \in Payload
         /\ calls[c].step = "append" =>
              calls[c].message \in Message /\ calls[c].action \in HumanAction
         /\ calls[c].step = "has_activity" => calls[c].message \in Message
         /\ calls[c].step = "mark" =>
              calls[c].message \in Message /\ calls[c].at \in Time
BY DEF TypeOK, CallState, Idle

\* Moving one call keeps the calls in their shapes.
LEMMA CallsTyped ==
  ASSUME TypeOK, NEW c \in Call, NEW state \in CallState, GoTo(c, state)
  PROVE  /\ calls' \in [Call -> CallState]
         /\ calls'[c] = state
         /\ \A d \in Call : d # c => calls'[d] = calls[d]
BY DEF TypeOK, GoTo

\* Nothing has happened yet.
LEMMA InitInv == Init => ManualLinkInv
<1> SUFFICES ASSUME Init PROVE ManualLinkInv
  OBVIOUS
<1>1. TypeOK
  BY ManualLinkBounds DEF Init, TypeOK, Time, Record, CallState
<1>2. \A m \in Message : Len(trail[m]) = 0 /\ receipts[m] = {}
  BY DEF Init
<1>3. RecordsAreConsistent /\ CallsAreGrounded
  BY DEF Init, RecordsAreConsistent, CallsAreGrounded, Idle
<1>4. DeliveryIsWitnessed /\ OpeningsAgree
  BY <1>2 DEF Init, DeliveryIsWitnessed, OpeningsAgree, Performed
<1> QED
  BY <1>1, <1>3, <1>4 DEF ManualLinkInv

\* A step that writes no row keeps the invariant if it moves one call to where
\* that call may be.
LEMMA ReadsKeepInv ==
  ASSUME ManualLinkInv, NEW c \in Call, NEW state \in CallState, GoTo(c, state),
         state.step \in {"append", "has_activity", "mark"} =>
           records[state.message].status # "NONE",
         state.step = "mark" => Performed(state.message, "SEND_RECORDED"),
         UNCHANGED <<now, records, trail, accepted, receipts>>
  PROVE  ManualLinkInv'
<1>1. /\ calls' \in [Call -> CallState]
      /\ calls'[c] = state
      /\ \A d \in Call : d # c => calls'[d] = calls[d]
  BY CallsTyped DEF ManualLinkInv
<1>2. /\ UNCHANGED records /\ UNCHANGED trail /\ UNCHANGED now
      /\ UNCHANGED accepted /\ UNCHANGED receipts
  OBVIOUS
<1>3. TypeOK'
  BY <1>1, <1>2 DEF ManualLinkInv, TypeOK
<1>4. CallsAreGrounded'
  BY <1>1, <1>2 DEF ManualLinkInv, CallsAreGrounded, Performed
<1>5. (RecordsAreConsistent /\ DeliveryIsWitnessed /\ OpeningsAgree)'
  BY <1>2 DEF ManualLinkInv, RecordsAreConsistent, DeliveryIsWitnessed, OpeningsAgree,
              Performed
<1> QED
  BY <1>3, <1>4, <1>5 DEF ManualLinkInv

\* A new entry that is no opening adds to the trail of its message and leaves
\* everything that was performed, and every opening, as it was.
LEMMA AppendKeeps ==
  ASSUME TypeOK, NEW m \in Message, NEW action \in Activity,
         trail' = [trail EXCEPT ![m] = Append(@, action)]
  PROVE  /\ trail' \in [Message -> Seq(Activity)]
         /\ \A n \in Message : n # m => trail'[n] = trail[n]
         /\ Len(trail'[m]) = Len(trail[m]) + 1
         /\ Len(trail[m]) \in Nat
         /\ trail'[m][Len(trail[m]) + 1] = action
         /\ \A i \in 1..Len(trail[m]) : trail'[m][i] = trail[m][i]
BY DEF TypeOK

\* What was performed stays so, and only the appended activity is new.
LEMMA PerformedAfterAppend ==
  ASSUME TypeOK, NEW m \in Message, NEW action \in Activity,
         trail' = [trail EXCEPT ![m] = Append(@, action)],
         NEW n \in Message, NEW a \in Activity
  PROVE  Performed(n, a)' <=> Performed(n, a) \/ (n = m /\ a = action)
<1>1. CASE n # m
  BY <1>1, AppendKeeps DEF Performed
<1>2. CASE n = m
  <2>1. Performed(n, a) => Performed(n, a)'
    BY <1>2, AppendKeeps DEF Performed
  <2>2. a = action => Performed(n, a)'
    <3>0. Len(trail'[m]) = Len(trail[m]) + 1 /\ Len(trail[m]) \in Nat
      BY AppendKeeps
    <3>1. Len(trail[m]) + 1 \in 1..Len(trail'[m])
      BY <3>0
    <3> QED
      BY <1>2, <3>1, AppendKeeps DEF Performed
  <2>3. ASSUME Performed(n, a)', a # action
        PROVE  Performed(n, a)
    <3>1. PICK i \in 1..Len(trail'[m]) : trail'[m][i] = a
      BY <1>2, <2>3 DEF Performed
    <3>2. i \in 1..Len(trail[m])
      BY <2>3, <3>1, AppendKeeps
    <3> QED
      BY <1>2, <3>1, <3>2, AppendKeeps DEF Performed
  <2> QED
    BY <1>2, <2>1, <2>2, <2>3
<1> QED
  BY <1>1, <1>2

\* An entry that is no opening leaves the openings witnessed.
LEMMA WitnessAfterAppend ==
  ASSUME TypeOK, DeliveryIsWitnessed, NEW m \in Message,
         NEW action \in Activity \ {"SUPPLIER_OPENED"},
         trail' = [trail EXCEPT ![m] = Append(@, action)],
         \A n \in Message : records'[n].status = "DELIVERED" <=> records[n].status = "DELIVERED"
  PROVE  DeliveryIsWitnessed'
<1> SUFFICES ASSUME NEW n \in Message
             PROVE  /\ records'[n].status = "DELIVERED" <=> Performed(n, "SUPPLIER_OPENED")'
                    /\ \A i, j \in 1..Len(trail'[n]) :
                         trail'[n][i] = "SUPPLIER_OPENED" /\ trail'[n][j] = "SUPPLIER_OPENED"
                           => i = j
                    /\ \A i \in 1..Len(trail'[n]) :
                         trail'[n][i] = "SUPPLIER_OPENED" =>
                           \E j \in 1..(i - 1) : trail'[n][j] = "SEND_RECORDED"
  BY DEF DeliveryIsWitnessed
<1>1. records'[n].status = "DELIVERED" <=> Performed(n, "SUPPLIER_OPENED")'
  BY PerformedAfterAppend DEF DeliveryIsWitnessed, Activity
<1>2. CASE n # m
  BY <1>1, <1>2, AppendKeeps DEF DeliveryIsWitnessed
<1>3. CASE n = m
  <2>1. ASSUME NEW i \in 1..Len(trail'[m]), trail'[m][i] = "SUPPLIER_OPENED"
        PROVE  i \in 1..Len(trail[m]) /\ trail[m][i] = "SUPPLIER_OPENED"
    BY <2>1, AppendKeeps
  <2>2. \A i, j \in 1..Len(trail'[m]) :
          trail'[m][i] = "SUPPLIER_OPENED" /\ trail'[m][j] = "SUPPLIER_OPENED" => i = j
    BY <2>1 DEF DeliveryIsWitnessed
  <2>3. ASSUME NEW i \in 1..Len(trail'[m]), trail'[m][i] = "SUPPLIER_OPENED"
        PROVE  \E j \in 1..(i - 1) : trail'[m][j] = "SEND_RECORDED"
    <3>1. PICK j \in 1..(i - 1) : trail[m][j] = "SEND_RECORDED"
      BY <2>1, <2>3 DEF DeliveryIsWitnessed
    <3>2. j \in 1..Len(trail[m])
      BY <2>1, <2>3, AppendKeeps
    <3> QED
      BY <3>1, <3>2, AppendKeeps
  <2> QED
    BY <1>1, <1>3, <2>2, <2>3
<1> QED
  BY <1>2, <1>3

\* Clock: Tick touches no row.
LEMMA TickInv == ManualLinkInv /\ Tick => ManualLinkInv'
<1> SUFFICES ASSUME ManualLinkInv, Tick PROVE ManualLinkInv'
  OBVIOUS
<1>1. /\ UNCHANGED records /\ UNCHANGED trail /\ UNCHANGED calls
      /\ UNCHANGED accepted /\ UNCHANGED receipts
      /\ now' = now + 1 /\ now < MaxTime
  BY DEF Tick
<1>2. now' \in Time
  BY <1>1, ManualLinkBounds DEF ManualLinkInv, TypeOK, Time
<1> QED
  BY <1>1, <1>2 DEF ManualLinkInv, TypeOK, RecordsAreConsistent, CallsAreGrounded,
                    DeliveryIsWitnessed, OpeningsAgree, Performed

\* Calls that start and read: send, record_link_copied, record_sent, opening.
LEMMA ReadsInv ==
  ASSUME ManualLinkInv, NEW c \in Call, NEW m \in Message,
         \/ \E p \in Payload : Send(c, m, p)
         \/ \E action \in HumanAction : RecordHumanAction(c, m, action)
         \/ Open(c, m)
         \/ CheckSent(c)
         \/ Die(c)
  PROVE  ManualLinkInv'
<1>1. ASSUME NEW p \in Payload, Send(c, m, p)
      PROVE  ManualLinkInv'
  <2> DEFINE state == [step |-> "create", message |-> m, payload |-> p]
  <2>1. state \in CallState /\ state.step = "create"
    BY DEF CallState
  <2>2. GoTo(c, state) /\ UNCHANGED <<now, records, trail, accepted, receipts>>
    BY <1>1 DEF Send
  <2> HIDE DEF state
  <2> QED
    BY <2>1, <2>2, ReadsKeepInv
<1>2. ASSUME NEW action \in HumanAction, RecordHumanAction(c, m, action)
      PROVE  ManualLinkInv'
  <2> DEFINE state == [step |-> "append", message |-> m, action |-> action]
  <2>1. state \in CallState /\ state.step = "append" /\ state.message = m
    BY DEF CallState
  <2>2. /\ GoTo(c, state) /\ UNCHANGED <<now, records, trail, accepted, receipts>>
        /\ records[m].status # "NONE"
    BY <1>2 DEF RecordHumanAction, Pending
  <2> HIDE DEF state
  <2> QED
    BY <2>1, <2>2, ReadsKeepInv
<1>3. CASE Open(c, m)
  <2> DEFINE state == [step |-> "has_activity", message |-> m]
  <2>1. state \in CallState /\ state.step = "has_activity" /\ state.message = m
    BY DEF CallState
  <2>2. /\ GoTo(c, state) /\ UNCHANGED <<now, records, trail, accepted, receipts>>
        /\ records[m].status # "NONE"
    BY <1>3 DEF Open
  <2> HIDE DEF state
  <2> QED
    BY <2>1, <2>2, ReadsKeepInv
<1>4. Idle \in CallState /\ Idle.step = "idle"
  BY DEF CallState, Idle
<1>5. CASE CheckSent(c)
  <2>1. /\ calls[c].step = "has_activity"
        /\ UNCHANGED <<now, records, trail, accepted, receipts>>
    BY <1>5 DEF CheckSent
  <2>2. calls[c].message \in Message /\ records[calls[c].message].status # "NONE"
    BY <2>1, CallFields DEF ManualLinkInv, CallsAreGrounded
  <2> DEFINE n == calls[c].message
             state == [step |-> "mark", message |-> n, at |-> now]
  <2>3. state \in CallState /\ state.step = "mark" /\ state.message = n
    BY <2>2 DEF CallState, ManualLinkInv, TypeOK
  <2>4. CASE Performed(n, "SEND_RECORDED")
    <3>1. GoTo(c, state)
      BY <1>5, <2>4 DEF CheckSent
    <3>2. records[state.message].status # "NONE" /\ Performed(state.message, "SEND_RECORDED")
      BY <2>2, <2>3, <2>4
    <3> HIDE DEF state, n
    <3> QED
      BY <2>1, <2>3, <3>1, <3>2, ReadsKeepInv
  <2>5. CASE ~Performed(n, "SEND_RECORDED")
    <3>1. GoTo(c, Idle)
      BY <1>5, <2>5 DEF CheckSent
    <3> HIDE DEF state, n
    <3> QED
      BY <1>4, <2>1, <3>1, ReadsKeepInv
  <2> QED
    BY <2>4, <2>5
<1>6. CASE Die(c)
  BY <1>4, <1>6, ReadsKeepInv DEF Die
<1> QED
  BY <1>1, <1>2, <1>3, <1>5, <1>6

\* Replays of send and openings of an opened link only tell what there is.
LEMMA TellsInv ==
  ASSUME ManualLinkInv, NEW c \in Call, NEW m \in Message,
         \/ \E p \in Payload : SendReplay(c, m, p)
         \/ OpenAgain(c, m)
  PROVE  ManualLinkInv' /\ UNCHANGED <<records, accepted>>
<1>1. ASSUME NEW p \in Payload, SendReplay(c, m, p)
      PROVE  UNCHANGED vars
  <2>1. /\ records[m].status # "NONE" /\ records[m].fingerprint = p
        /\ accepted' = [accepted EXCEPT ![m] = @ \cup {p}]
        /\ UNCHANGED <<now, records, trail, calls, receipts>>
    BY <1>1 DEF SendReplay, Replays
  <2>2. accepted[m] = {p} /\ accepted \in [Message -> SUBSET Payload]
    BY <2>1 DEF ManualLinkInv, RecordsAreConsistent, TypeOK
  <2>3. accepted' = accepted
    BY <2>1, <2>2
  <2> QED
    BY <2>1, <2>3 DEF vars
<1>2. ASSUME OpenAgain(c, m)
      PROVE  ManualLinkInv' /\ UNCHANGED <<records, accepted>>
  <2>1. /\ records[m].status = "DELIVERED"
        /\ receipts' = [receipts EXCEPT ![m] = @ \cup {records[m].deliveredAt}]
        /\ UNCHANGED now /\ UNCHANGED records /\ UNCHANGED trail
        /\ UNCHANGED calls /\ UNCHANGED accepted
    BY <1>2 DEF OpenAgain
  <2>2. records[m].deliveredAt \in Time
    BY <2>1 DEF ManualLinkInv, RecordsAreConsistent, TypeOK, Record
  <2>3. receipts' \in [Message -> SUBSET Time] /\ OpeningsAgree'
    BY <2>1, <2>2 DEF ManualLinkInv, TypeOK, OpeningsAgree
  <2>4. TypeOK'
    BY <2>1, <2>3 DEF ManualLinkInv, TypeOK
  <2>5. (RecordsAreConsistent /\ CallsAreGrounded)'
    BY <2>1 DEF ManualLinkInv, RecordsAreConsistent, CallsAreGrounded, Performed
  <2>6. DeliveryIsWitnessed'
    BY <2>1 DEF ManualLinkInv, DeliveryIsWitnessed, Performed
  <2> QED
    BY <2>1, <2>3, <2>4, <2>5, <2>6 DEF ManualLinkInv
<1>3. CASE UNCHANGED vars
  BY <1>3 DEF vars, ManualLinkInv, TypeOK, RecordsAreConsistent, CallsAreGrounded,
              DeliveryIsWitnessed, OpeningsAgree, Performed
<1> QED
  BY <1>1, <1>2, <1>3 DEF vars

\* create: the record of the winner is new, its payload is the accepted one.
LEMMA CreateInv ==
  ASSUME ManualLinkInv, NEW c \in Call, Create(c)
  PROVE  /\ ManualLinkInv'
         /\ \/ UNCHANGED <<records, accepted>>
            \/ /\ calls[c].message \in Message
               /\ calls[c].payload \in Payload
               /\ records[calls[c].message].status = "NONE"
               /\ records' = [records EXCEPT ![calls[c].message] =
                     [status |-> "SENT_TO_GATEWAY", fingerprint |-> calls[c].payload,
                      deliveredAt |-> None]]
               /\ accepted[calls[c].message] = {}
               /\ accepted' = [accepted EXCEPT ![calls[c].message] = {calls[c].payload}]
<1> DEFINE m == calls[c].message
           p == calls[c].payload
<1>1. /\ m \in Message /\ p \in Payload
      /\ GoTo(c, Idle)
      /\ UNCHANGED now /\ UNCHANGED receipts
  BY CallFields DEF Create, ManualLinkInv
<1>2. Idle \in CallState /\ Idle.step = "idle"
  BY DEF CallState, Idle
<1>3. CASE records[m].status # "NONE"
  <2>1. UNCHANGED <<now, records, trail, accepted, receipts>>
    BY <1>3 DEF Create
  <2> QED
    BY <1>1, <1>2, <2>1, ReadsKeepInv
<1>4. CASE records[m].status = "NONE"
  <2>1. /\ records' = [records EXCEPT ![m] =
              [status |-> "SENT_TO_GATEWAY", fingerprint |-> p, deliveredAt |-> None]]
        /\ trail' = [trail EXCEPT ![m] = Append(@, "LINK_CREATED")]
        /\ accepted' = [accepted EXCEPT ![m] = @ \cup {p}]
    BY <1>4 DEF Create
  <2>2. accepted[m] = {}
    BY <1>1, <1>4 DEF ManualLinkInv, RecordsAreConsistent
  <2>3. /\ calls' \in [Call -> CallState]
        /\ calls'[c] = Idle
        /\ \A d \in Call : d # c => calls'[d] = calls[d]
    BY <1>1, <1>2, CallsTyped DEF ManualLinkInv
  <2> HIDE DEF m, p
  <2>4. accepted' = [accepted EXCEPT ![m] = {p}]
    BY <2>1, <2>2
  <2>5. /\ trail' \in [Message -> Seq(Activity)]
        /\ records \in [Message -> Record] /\ accepted \in [Message -> SUBSET Payload]
    BY <1>1, <2>1, AppendKeeps DEF ManualLinkInv, TypeOK, Activity
  <2>6. /\ records' \in [Message -> Record]
        /\ records'[m] = [status |-> "SENT_TO_GATEWAY", fingerprint |-> p, deliveredAt |-> None]
        /\ \A n \in Message : n # m => records'[n] = records[n]
    BY <1>1, <2>1, <2>5 DEF Record
  <2>7. TypeOK'
    BY <1>1, <2>3, <2>4, <2>5, <2>6 DEF ManualLinkInv, TypeOK
  <2>8. RecordsAreConsistent'
    <3>3. m \in Message /\ p \in Payload
      BY <1>1
    <3>5. DOMAIN accepted = Message
      BY <2>5
    <3>4. accepted'[m] = {p}
      BY <2>4, <3>3, <3>5
    <3>1. accepted'[m] = {p} /\ p # None
      BY <3>3, <3>4, ManualLinkAssumption
    <3>2. \A n \in Message : n # m => accepted'[n] = accepted[n]
      BY <1>1, <2>4, <2>5
    <3>6. ASSUME NEW n \in Message, n # m
          PROVE  /\ records'[n].deliveredAt # None <=> records'[n].status = "DELIVERED"
                 /\ accepted'[n] = IF records'[n].status = "NONE" THEN {}
                                   ELSE {records'[n].fingerprint}
                 /\ records'[n].status # "NONE" => records'[n].fingerprint # None
      BY <2>6, <3>2, <3>6 DEF ManualLinkInv, RecordsAreConsistent
    <3>7. /\ records'[m].deliveredAt = None /\ records'[m].status = "SENT_TO_GATEWAY"
          /\ records'[m].fingerprint = p
      BY <2>6
    <3> QED
      BY <3>1, <3>6, <3>7 DEF RecordsAreConsistent
  <2>9. DeliveryIsWitnessed'
    <3>1. \A n \in Message : records'[n].status = "DELIVERED" <=> records[n].status = "DELIVERED"
      BY <1>4, <2>6 DEF m
    <3> QED
      BY <1>1, <2>1, <3>1, WitnessAfterAppend DEF ManualLinkInv, Activity
  <2>10. CallsAreGrounded'
    <3>1. ASSUME NEW d \in Call, calls'[d].step \in {"append", "has_activity", "mark"}
          PROVE  /\ d # c /\ calls'[d] = calls[d]
                 /\ calls[d].message \in Message
                 /\ records'[calls[d].message].status # "NONE"
      <4>1. d # c /\ calls'[d] = calls[d]
        BY <1>2, <2>3, <3>1
      <4>2. calls[d].message \in Message /\ records[calls[d].message].status # "NONE"
        BY <3>1, <4>1, CallFields DEF ManualLinkInv, CallsAreGrounded
      <4> QED
        BY <2>6, <4>1, <4>2
    <3>2. ASSUME NEW d \in Call, calls'[d].step = "mark"
          PROVE  Performed(calls[d].message, "SEND_RECORDED")'
      <4>1. calls'[d] = calls[d] /\ calls[d].message \in Message
        BY <3>1, <3>2
      <4>2. Performed(calls[d].message, "SEND_RECORDED")
        BY <3>2, <4>1 DEF ManualLinkInv, CallsAreGrounded
      <4> QED
        BY <1>1, <2>1, <4>1, <4>2, PerformedAfterAppend
           DEF ManualLinkInv, Activity, HumanAction
    <3>3. ASSUME NEW d \in Call, calls'[d].step \in {"append", "has_activity", "mark"}
          PROVE  records'[calls'[d].message].status # "NONE"
      BY <3>1, <3>3
    <3> QED
      BY <3>2, <3>3 DEF CallsAreGrounded
  <2>11. OpeningsAgree'
    <3>1. receipts[m] = {}
      <4>1. receipts[m] \subseteq {None} /\ receipts[m] \subseteq Time
        BY <1>1, <1>4 DEF m, ManualLinkInv, RecordsAreConsistent, OpeningsAgree, TypeOK
      <4>2. None \notin Time
        BY ManualLinkAssumption, ManualLinkBounds DEF Time
      <4> QED
        BY <4>1, <4>2
    <3> QED
      BY <1>1, <2>6, <3>1 DEF ManualLinkInv, OpeningsAgree
  <2>12. ManualLinkInv'
    BY <2>7, <2>8, <2>9, <2>10, <2>11 DEF ManualLinkInv
  <2> QED
    BY <1>1, <1>4, <2>1, <2>2, <2>4, <2>12 DEF m, p
<1> QED
  BY <1>3, <1>4

\* append_activity: a copy or a send, also of a link that was opened meanwhile.
LEMMA AppendInv ==
  ASSUME ManualLinkInv, NEW c \in Call, AppendActivity(c)
  PROVE  /\ ManualLinkInv'
         /\ UNCHANGED <<records, accepted>>
<1> DEFINE m == calls[c].message
           action == calls[c].action
<1>1. /\ m \in Message /\ action \in Activity \ {"SUPPLIER_OPENED"}
      /\ GoTo(c, Idle)
      /\ trail' = [trail EXCEPT ![m] = Append(@, action)]
      /\ UNCHANGED now /\ UNCHANGED records /\ UNCHANGED accepted /\ UNCHANGED receipts
  BY CallFields DEF AppendActivity, ManualLinkInv, Activity, HumanAction
<1>2. Idle \in CallState /\ Idle.step = "idle"
  BY DEF CallState, Idle
<1>3. /\ calls' \in [Call -> CallState]
      /\ calls'[c] = Idle
      /\ \A d \in Call : d # c => calls'[d] = calls[d]
  BY <1>1, <1>2, CallsTyped DEF ManualLinkInv
<1> HIDE DEF m, action
<1>4. trail' \in [Message -> Seq(Activity)]
  BY <1>1, AppendKeeps DEF ManualLinkInv
<1>5. TypeOK'
  BY <1>1, <1>3, <1>4 DEF ManualLinkInv, TypeOK
<1>6. DeliveryIsWitnessed'
  BY <1>1, WitnessAfterAppend DEF ManualLinkInv
<1>7. CallsAreGrounded'
  <2>1. ASSUME NEW d \in Call, calls'[d].step \in {"append", "has_activity", "mark"}
        PROVE  /\ calls'[d] = calls[d]
               /\ calls[d].message \in Message
               /\ records'[calls'[d].message].status # "NONE"
    <3>1. d # c /\ calls'[d] = calls[d]
      BY <1>2, <1>3, <2>1
    <3>2. calls[d].message \in Message /\ records[calls[d].message].status # "NONE"
      BY <2>1, <3>1, CallFields DEF ManualLinkInv, CallsAreGrounded
    <3> QED
      BY <1>1, <3>1, <3>2
  <2>2. ASSUME NEW d \in Call, calls'[d].step = "mark"
        PROVE  Performed(calls[d].message, "SEND_RECORDED")'
    <3>1. calls'[d] = calls[d] /\ calls[d].message \in Message
      BY <2>1, <2>2
    <3>2. Performed(calls[d].message, "SEND_RECORDED")
      BY <2>2, <3>1 DEF ManualLinkInv, CallsAreGrounded
    <3> QED
      BY <1>1, <3>1, <3>2, PerformedAfterAppend DEF ManualLinkInv, Activity, HumanAction
  <2> QED
    BY <2>1, <2>2 DEF CallsAreGrounded
<1>8. (RecordsAreConsistent /\ OpeningsAgree)'
  BY <1>1 DEF ManualLinkInv, RecordsAreConsistent, OpeningsAgree
<1> QED
  BY <1>1, <1>5, <1>6, <1>7, <1>8 DEF ManualLinkInv

\* mark_delivered_on_open: the first of all openings writes, the others report
\* what it wrote.
LEMMA MarkInv ==
  ASSUME ManualLinkInv, NEW c \in Call, MarkDeliveredOnOpen(c)
  PROVE  /\ ManualLinkInv'
         /\ UNCHANGED accepted
         /\ \/ UNCHANGED records
            \/ /\ calls[c].message \in Message
               /\ calls[c].at \in Time
               /\ records[calls[c].message].status = "SENT_TO_GATEWAY"
               /\ records' = [records EXCEPT ![calls[c].message].status = "DELIVERED",
                                             ![calls[c].message].deliveredAt = calls[c].at]
<1> DEFINE m == calls[c].message
           at == calls[c].at
<1>1. /\ m \in Message /\ at \in Time
      /\ records[m].status # "NONE"
      /\ Performed(m, "SEND_RECORDED")
      /\ GoTo(c, Idle)
      /\ receipts' = [receipts EXCEPT ![m] = @ \cup {records'[m].deliveredAt}]
      /\ UNCHANGED now /\ UNCHANGED accepted
  BY CallFields DEF MarkDeliveredOnOpen, ReportedTime, ManualLinkInv, CallsAreGrounded
<1>2. Idle \in CallState /\ Idle.step = "idle"
  BY DEF CallState, Idle
<1>3. /\ calls' \in [Call -> CallState]
      /\ calls'[c] = Idle
      /\ \A d \in Call : d # c => calls'[d] = calls[d]
  BY <1>1, <1>2, CallsTyped DEF ManualLinkInv
<1>4. /\ records \in [Message -> Record] /\ records[m] \in Record
      /\ receipts \in [Message -> SUBSET Time]
      /\ None \notin Time
  BY <1>1, ManualLinkAssumption, ManualLinkBounds DEF ManualLinkInv, TypeOK, Time
<1>5. CASE ~WinsTransition(m)
  <2>1. UNCHANGED records /\ UNCHANGED trail
    BY <1>5 DEF MarkDeliveredOnOpen
  <2>2. records[m].status = "DELIVERED"
    BY <1>1, <1>5 DEF WinsTransition, ManualLinkInv, DeliveryIsWitnessed
  <2>3. records[m].deliveredAt \in Time
    BY <1>1, <1>4, <2>2 DEF ManualLinkInv, RecordsAreConsistent, Record
  <2> HIDE DEF m, at
  <2>4. receipts' \in [Message -> SUBSET Time] /\ OpeningsAgree'
    BY <1>1, <1>4, <2>1, <2>3 DEF ManualLinkInv, OpeningsAgree
  <2>5. TypeOK'
    BY <1>1, <1>3, <2>1, <2>4 DEF ManualLinkInv, TypeOK
  <2>6. RecordsAreConsistent'
    BY <1>1, <2>1 DEF ManualLinkInv, RecordsAreConsistent
  <2>8. DeliveryIsWitnessed'
    BY <2>1 DEF ManualLinkInv, DeliveryIsWitnessed, Performed
  <2>7. CallsAreGrounded'
    BY <1>2, <1>3, <2>1 DEF ManualLinkInv, CallsAreGrounded, Performed
  <2> QED
    BY <1>1, <2>1, <2>4, <2>5, <2>6, <2>8, <2>7 DEF ManualLinkInv
<1>6. CASE WinsTransition(m)
  <2>1. /\ records' = [records EXCEPT ![m].status = "DELIVERED", ![m].deliveredAt = at]
        /\ trail' = [trail EXCEPT ![m] = Append(@, "SUPPLIER_OPENED")]
    BY <1>6 DEF MarkDeliveredOnOpen
  <2>2. records[m].status = "SENT_TO_GATEWAY" /\ ~Performed(m, "SUPPLIER_OPENED")
    BY <1>1, <1>4, <1>6 DEF WinsTransition, Record
  <2> HIDE DEF m, at
  <2>3. /\ records'[m] = [records[m] EXCEPT !.status = "DELIVERED", !.deliveredAt = at]
        /\ \A n \in Message : n # m => records'[n] = records[n]
        /\ DOMAIN records' = Message
    BY <1>1, <1>4, <2>1
  <2>4. /\ records'[m] \in Record
        /\ records'[m].status = "DELIVERED"
        /\ records'[m].deliveredAt = at
        /\ records'[m].fingerprint = records[m].fingerprint
    BY <1>1, <1>4, <2>3 DEF Record
  <2>5. records' \in [Message -> Record]
    BY <1>1, <1>4, <2>1, <2>3, <2>4
  <2>6. trail' \in [Message -> Seq(Activity)]
    BY <1>1, <2>1, AppendKeeps DEF ManualLinkInv, Activity
  <2>7. receipts[m] = {}
    <3>1. records[m].deliveredAt = None
      BY <1>1, <2>2 DEF ManualLinkInv, RecordsAreConsistent
    <3> QED
      BY <1>1, <1>4, <3>1 DEF ManualLinkInv, OpeningsAgree
  <2>8. receipts' = [receipts EXCEPT ![m] = {at}]
    BY <1>1, <2>4, <2>7
  <2>9. TypeOK'
    BY <1>1, <1>3, <1>4, <2>5, <2>6, <2>8 DEF ManualLinkInv, TypeOK
  <2>10. OpeningsAgree'
    <3>1. receipts'[m] = {at} /\ \A n \in Message : n # m => receipts'[n] = receipts[n]
      BY <1>1, <1>4, <2>8
    <3>2. \A n \in Message : n # m => records'[n].deliveredAt = records[n].deliveredAt
      BY <2>3
    <3>3. \A n \in Message : receipts[n] \subseteq {records[n].deliveredAt}
      BY DEF ManualLinkInv, OpeningsAgree
    <3>4. ASSUME NEW n \in Message PROVE receipts'[n] \subseteq {records'[n].deliveredAt}
      BY <2>4, <3>1, <3>2, <3>3
    <3> QED
      BY <3>4 DEF OpeningsAgree
  <2>11. RecordsAreConsistent'
    <3>1. at # None
      BY <1>1, <1>4
    <3> QED
      <4>1. ASSUME NEW n \in Message, n # m
            PROVE  records'[n] = records[n] /\ accepted'[n] = accepted[n]
        BY <1>1, <2>3, <4>1
      <4>2. accepted'[m] = {records'[m].fingerprint} /\ records'[m].fingerprint # None
        BY <1>1, <2>2, <2>4 DEF ManualLinkInv, RecordsAreConsistent
      <4> QED
        BY <1>1, <2>4, <3>1, <4>1, <4>2 DEF ManualLinkInv, RecordsAreConsistent
  <2>12. CallsAreGrounded'
    <3>1. ASSUME NEW d \in Call, calls'[d].step \in {"append", "has_activity", "mark"}
          PROVE  /\ calls'[d] = calls[d]
                 /\ calls[d].message \in Message
                 /\ records'[calls'[d].message].status # "NONE"
      <4>1. d # c /\ calls'[d] = calls[d]
        BY <1>2, <1>3, <3>1
      <4>2. calls[d].message \in Message /\ records[calls[d].message].status # "NONE"
        BY <3>1, <4>1, CallFields DEF ManualLinkInv, CallsAreGrounded
      <4> QED
        BY <2>3, <2>4, <4>1, <4>2
    <3>2. ASSUME NEW d \in Call, calls'[d].step = "mark"
          PROVE  Performed(calls[d].message, "SEND_RECORDED")'
      <4>1. calls'[d] = calls[d] /\ calls[d].message \in Message
        BY <3>1, <3>2
      <4>2. Performed(calls[d].message, "SEND_RECORDED")
        BY <3>2, <4>1 DEF ManualLinkInv, CallsAreGrounded
      <4> QED
        BY <1>1, <2>1, <4>1, <4>2, PerformedAfterAppend DEF ManualLinkInv, Activity, HumanAction
    <3> QED
      BY <3>1, <3>2 DEF CallsAreGrounded
  <2>13. DeliveryIsWitnessed'
    <3>1. ASSUME NEW n \in Message, n # m
          PROVE  trail'[n] = trail[n] /\ records'[n] = records[n]
      BY <1>1, <2>1, <2>3, <3>1, AppendKeeps DEF ManualLinkInv, Activity
    <3>2. /\ Len(trail[m]) \in Nat
          /\ Len(trail'[m]) = Len(trail[m]) + 1
          /\ trail'[m][Len(trail[m]) + 1] = "SUPPLIER_OPENED"
          /\ \A i \in 1..Len(trail[m]) : trail'[m][i] = trail[m][i]
      BY <1>1, <2>1, AppendKeeps DEF ManualLinkInv, Activity
    <3>3. \E i \in 1..Len(trail'[m]) : trail'[m][i] = "SUPPLIER_OPENED"
      BY <3>2
    <3>4. ASSUME NEW i \in 1..Len(trail'[m]), trail'[m][i] = "SUPPLIER_OPENED"
          PROVE  i = Len(trail[m]) + 1
      BY <2>2, <3>2, <3>4 DEF Performed
    <3>5. \E j \in 1..Len(trail[m]) : trail'[m][j] = "SEND_RECORDED"
      BY <1>1, <3>2 DEF Performed
    <3>6. \A i, j \in 1..Len(trail'[m]) :
            trail'[m][i] = "SUPPLIER_OPENED" /\ trail'[m][j] = "SUPPLIER_OPENED" => i = j
      BY <3>4
    <3>7. ASSUME NEW i \in 1..Len(trail'[m]), trail'[m][i] = "SUPPLIER_OPENED"
          PROVE  \E j \in 1..(i - 1) : trail'[m][j] = "SEND_RECORDED"
      BY <3>2, <3>4, <3>5, <3>7
    <3>8. ASSUME NEW n \in Message, n # m
          PROVE  /\ records'[n].status = "DELIVERED" <=> Performed(n, "SUPPLIER_OPENED")'
                 /\ \A i, j \in 1..Len(trail'[n]) :
                      trail'[n][i] = "SUPPLIER_OPENED" /\ trail'[n][j] = "SUPPLIER_OPENED"
                        => i = j
                 /\ \A i \in 1..Len(trail'[n]) :
                      trail'[n][i] = "SUPPLIER_OPENED" =>
                        \E j \in 1..(i - 1) : trail'[n][j] = "SEND_RECORDED"
      BY <3>1, <3>8 DEF ManualLinkInv, DeliveryIsWitnessed, Performed
    <3> QED
      BY <1>1, <2>4, <3>3, <3>6, <3>7, <3>8 DEF DeliveryIsWitnessed, Performed
  <2>14. ManualLinkInv'
    BY <2>9, <2>10, <2>11, <2>12, <2>13 DEF ManualLinkInv
  <2> QED
    BY <1>1, <2>1, <2>2, <2>14 DEF m, at
<1> QED
  BY <1>5, <1>6

\* The inductive invariant holds for ever.
THEOREM ManualLinkInvariant == Spec => []ManualLinkInv
<1>1. ManualLinkInv /\ [Next]_vars => ManualLinkInv'
  <2> SUFFICES ASSUME ManualLinkInv, [Next]_vars PROVE ManualLinkInv'
    OBVIOUS
  <2>1. CASE UNCHANGED vars
    BY <2>1 DEF vars, ManualLinkInv, TypeOK, RecordsAreConsistent, CallsAreGrounded,
                DeliveryIsWitnessed, OpeningsAgree, Performed
  <2>2. CASE Tick
    BY <2>2, TickInv
  <2>3. ASSUME NEW c \in Call, NEW m \in Message, Begin(c, m)
        PROVE  ManualLinkInv'
    BY <2>3, ReadsInv, TellsInv DEF Begin
  <2>4. ASSUME NEW c \in Call, Continue(c) \/ Die(c)
        PROVE  ManualLinkInv'
    <3>1. CASE CheckSent(c) \/ Die(c)
      <4>1. PICK m : m \in Message
        <5>1. calls[c].step # "idle"
          <6>1. calls[c] \in CallState
            BY DEF ManualLinkInv, TypeOK
          <6> QED
            BY <3>1, <6>1 DEF CheckSent, Die, CallState, Idle
        <5> QED
          BY <5>1, CallFields DEF ManualLinkInv
      <4> QED
        BY <3>1, <4>1, ReadsInv
    <3> QED
      BY <2>4, <3>1, CreateInv, AppendInv, MarkInv DEF Continue
  <2> QED
    BY <2>1, <2>2, <2>3, <2>4 DEF Next
<1> QED
  BY InitInv, <1>1, PTL DEF Spec

\* The rows and the calls keep their shapes.
THEOREM LinksAreTyped == Spec => []TypeOK
<1>1. ManualLinkInv => TypeOK
  BY DEF ManualLinkInv
<1> QED
  BY <1>1, ManualLinkInvariant, PTL

\* One opening confirms a delivery, after a recorded send, in every
\* interleaving (mark_delivered_on_open).
THEOREM OpeningConfirmsOnce == Spec => []DeliveryIsWitnessed
<1>1. ManualLinkInv => DeliveryIsWitnessed
  BY DEF ManualLinkInv
<1> QED
  BY <1>1, ManualLinkInvariant, PTL

\* All openings of a link report the time of the one that won.
THEOREM OpeningsTellOneTime == Spec => []OpeningsAgree
<1>1. ManualLinkInv => OpeningsAgree
  BY DEF ManualLinkInv
<1> QED
  BY <1>1, ManualLinkInvariant, PTL

\* Accepting, recording, opening, losing a race and dying are steps of the
\* gateway that the execution service expects, or invisible in it.
THEOREM LinkImplementsGateway == Spec => ImplementsGateway
<1>1. Init => Gateway!GatewayInit
  BY DEF Init, Gateway!GatewayInit
<1>2. ManualLinkInv /\ [Next]_vars => [Gateway!GatewayNext]_(Gateway!gatewayVars)
  <2> SUFFICES ASSUME ManualLinkInv, [Next]_vars
               PROVE  Gateway!GatewayNext \/ UNCHANGED Gateway!gatewayVars
    OBVIOUS
  <2>1. ASSUME UNCHANGED <<records, accepted>>
        PROVE  UNCHANGED Gateway!gatewayVars
    BY <2>1 DEF Gateway!gatewayVars
  <2>2. ASSUME NEW c \in Call, Create(c)
        PROVE  Gateway!GatewayNext \/ UNCHANGED Gateway!gatewayVars
    <3>1. CASE UNCHANGED <<records, accepted>>
      BY <2>1, <3>1
    <3>2. CASE ~UNCHANGED <<records, accepted>>
      <4>1. PICK m \in Message, p \in Payload :
              /\ records[m].status = "NONE"
              /\ records' = [records EXCEPT ![m] =
                   [status |-> "SENT_TO_GATEWAY", fingerprint |-> p, deliveredAt |-> None]]
              /\ accepted[m] = {}
              /\ accepted' = [accepted EXCEPT ![m] = {p}]
        BY <2>2, <3>2, CreateInv
      <4>2. records[m].deliveredAt = None /\ records \in [Message -> Record]
        BY <4>1 DEF ManualLinkInv, RecordsAreConsistent, TypeOK
      <4>3. Gateway!Accept(m, p)
        BY <4>1, <4>2 DEF Gateway!Accept
      <4> QED
        BY <4>3 DEF Gateway!GatewayNext
    <3> QED
      BY <3>1, <3>2
  <2>3. ASSUME NEW c \in Call, MarkDeliveredOnOpen(c)
        PROVE  Gateway!GatewayNext \/ UNCHANGED Gateway!gatewayVars
    <3>1. CASE UNCHANGED records
      BY <2>1, <2>3, <3>1, MarkInv
    <3>2. CASE ~UNCHANGED records
      <4>1. PICK m \in Message, at \in Time :
              /\ records[m].status = "SENT_TO_GATEWAY"
              /\ records' = [records EXCEPT ![m].status = "DELIVERED", ![m].deliveredAt = at]
              /\ UNCHANGED accepted
        BY <2>3, <3>2, MarkInv
      <4>2. records \in [Message -> Record]
        BY DEF ManualLinkInv, TypeOK
      <4>3. /\ records'[m].status = "DELIVERED"
            /\ records'[m].deliveredAt = at
            /\ \A n \in Message : n # m => records'[n] = records[n]
        <5>1. records'[m] = [records[m] EXCEPT !.status = "DELIVERED", !.deliveredAt = at]
          BY <4>1, <4>2
        <5>2. records[m] \in Record
          BY <4>2
        <5> QED
          BY <4>1, <4>2, <5>1, <5>2 DEF Record
      <4>4. Gateway!Confirm(m, at)
        <5>1. [n \in Message |-> records'[n].status]
                = [[n \in Message |-> records[n].status] EXCEPT ![m] = "DELIVERED"]
          BY <4>3
        <5>2. [n \in Message |-> records'[n].deliveredAt]
                = [[n \in Message |-> records[n].deliveredAt] EXCEPT ![m] = at]
          BY <4>3
        <5> QED
          BY <4>1, <5>1, <5>2 DEF Gateway!Confirm
      <4> QED
        BY <4>4 DEF Gateway!GatewayNext
    <3> QED
      BY <3>1, <3>2
  <2>4. CASE Tick \/ UNCHANGED vars
    BY <2>1, <2>4 DEF Tick, vars
  <2>5. ASSUME NEW c \in Call, NEW m \in Message, Begin(c, m)
        PROVE  UNCHANGED Gateway!gatewayVars
    <3>1. CASE OpenAgain(c, m) \/ \E p \in Payload : SendReplay(c, m, p)
      BY <2>1, <3>1, TellsInv
    <3>2. CASE ~(OpenAgain(c, m) \/ \E p \in Payload : SendReplay(c, m, p))
      BY <2>1, <2>5, <3>2 DEF Begin, Send, RecordHumanAction, Open
    <3> QED
      BY <3>1, <3>2
  <2>6. ASSUME NEW c \in Call, AppendActivity(c) \/ CheckSent(c) \/ Die(c)
        PROVE  UNCHANGED Gateway!gatewayVars
    BY <2>1, <2>6, AppendInv DEF CheckSent, Die
  <2> QED
    BY <2>2, <2>3, <2>4, <2>5, <2>6 DEF Next, Continue
<1> QED
  BY <1>1, <1>2, ManualLinkInvariant, PTL DEF Spec, ImplementsGateway, Gateway!GatewaySpec

\* Under the lock a call that starts is the only one, and the one that ends
\* leaves none.
LEMMA AloneStep ==
  ASSUME Locked, ManualLinkInv, CallsAreAlone, [Next]_vars
  PROVE  CallsAreAlone'
<1>1. CASE UNCHANGED <<calls, records>>
  BY <1>1 DEF CallsAreAlone, Pending
<1>2. ASSUME NEW c \in Call, GoTo(c, Idle), calls[c] # Idle
      PROVE  CallsAreAlone'
  <2>1. \A d \in Call : calls'[d] = Idle
    BY <1>2 DEF CallsAreAlone, GoTo, ManualLinkInv, TypeOK
  <2> QED
    BY <2>1 DEF CallsAreAlone, Idle
<1>3. ASSUME NEW c \in Call, NEW state \in CallState, GoTo(c, state),
             \A d \in Call : d # c => calls[d] = Idle,
             state.step \in {"append", "has_activity", "mark"} => Pending(state.message),
             UNCHANGED records
      PROVE  CallsAreAlone'
  <2>1. \A d \in Call : calls'[d] = IF d = c THEN state ELSE Idle
    BY <1>3 DEF GoTo, ManualLinkInv, TypeOK
  <2> QED
    BY <1>3, <2>1 DEF CallsAreAlone, Idle, Pending
<1>4. ASSUME NEW c \in Call, NEW m \in Message, Begin(c, m)
      PROVE  CallsAreAlone'
  <2>1. \A d \in Call : calls[d] = Idle
    BY <1>4 DEF Begin, Start, SendReplay, Send, RecordHumanAction, OpenAgain, Open
  <2>2. ASSUME NEW p \in Payload, Send(c, m, p)
        PROVE  CallsAreAlone'
    <3> DEFINE state == [step |-> "create", message |-> m, payload |-> p]
    <3>1. state \in CallState /\ state.step = "create"
      BY DEF CallState
    <3>2. GoTo(c, state) /\ UNCHANGED records
      BY <2>2 DEF Send
    <3> HIDE DEF state
    <3> QED
      BY <1>3, <2>1, <3>1, <3>2
  <2>3. ASSUME NEW action \in HumanAction, RecordHumanAction(c, m, action)
        PROVE  CallsAreAlone'
    <3> DEFINE state == [step |-> "append", message |-> m, action |-> action]
    <3>1. state \in CallState /\ state.step = "append" /\ state.message = m
      BY DEF CallState
    <3>2. GoTo(c, state) /\ UNCHANGED records /\ Pending(m)
      BY <2>3 DEF RecordHumanAction
    <3> HIDE DEF state
    <3> QED
      BY <1>3, <2>1, <3>1, <3>2
  <2>4. CASE Open(c, m)
    <3> DEFINE state == [step |-> "has_activity", message |-> m]
    <3>1. state \in CallState /\ state.step = "has_activity" /\ state.message = m
      BY DEF CallState
    <3>2. GoTo(c, state) /\ UNCHANGED records /\ Pending(m)
      BY <2>4 DEF Open, Pending
    <3> HIDE DEF state
    <3> QED
      BY <1>3, <2>1, <3>1, <3>2
  <2>5. CASE OpenAgain(c, m) \/ \E p \in Payload : SendReplay(c, m, p)
    BY <1>1, <2>5 DEF OpenAgain, SendReplay
  <2> QED
    BY <1>4, <2>2, <2>3, <2>4, <2>5 DEF Begin
<1>5. ASSUME NEW c \in Call, Continue(c) \/ Die(c)
      PROVE  CallsAreAlone'
  <2>1. calls[c] # Idle
    BY <1>5 DEF Continue, Die, Create, AppendActivity, CheckSent, MarkDeliveredOnOpen, Idle
  <2>2. CASE GoTo(c, Idle)
    BY <1>2, <2>1, <2>2
  <2>3. CASE ~GoTo(c, Idle)
    <3> DEFINE n == calls[c].message
               state == [step |-> "mark", message |-> n, at |-> now]
    <3>1. /\ calls[c].step = "has_activity" /\ GoTo(c, state) /\ UNCHANGED records
      BY <1>5, <2>3 DEF Continue, Die, Create, AppendActivity, CheckSent, MarkDeliveredOnOpen
    <3>2. n \in Message /\ Pending(n)
      BY <3>1, CallFields DEF ManualLinkInv, CallsAreAlone
    <3>3. state \in CallState /\ state.step = "mark" /\ state.message = n
      BY <3>2 DEF CallState, ManualLinkInv, TypeOK
    <3>4. \A d \in Call : d # c => calls[d] = Idle
      BY <2>1 DEF CallsAreAlone
    <3>5. Pending(state.message)
      BY <3>2, <3>3
    <3>6. GoTo(c, state) /\ UNCHANGED records
      BY <3>1
    <3>7. state \in CallState
      BY <3>3
    <3> HIDE DEF state, n
    <3> QED
      BY <1>3, <3>4, <3>5, <3>6, <3>7, Zenon
  <2> QED
    BY <2>2, <2>3, Zenon
<1> QED
  BY <1>1, <1>4, <1>5 DEF Next, Tick, vars

\* Under the lock an activity is never appended to a trail that has ended.
LEMMA TrailStep ==
  ASSUME ManualLinkInv, CallsAreAlone, OpeningEndsTrail, [Next]_vars
  PROVE  OpeningEndsTrail'
<1>1. CASE UNCHANGED trail
  BY <1>1 DEF OpeningEndsTrail
<1>2. ASSUME NEW m \in Message, NEW action \in Activity, records[m].status # "DELIVERED",
             trail' = [trail EXCEPT ![m] = Append(@, action)]
      PROVE  OpeningEndsTrail'
  <2>1. \A i \in 1..Len(trail[m]) : trail[m][i] # "SUPPLIER_OPENED"
    BY <1>2 DEF ManualLinkInv, DeliveryIsWitnessed, Performed
  <2>2. /\ \A n \in Message : n # m => trail'[n] = trail[n]
        /\ Len(trail'[m]) = Len(trail[m]) + 1
        /\ Len(trail[m]) \in Nat
        /\ \A i \in 1..Len(trail[m]) : trail'[m][i] = trail[m][i]
    BY <1>2, AppendKeeps DEF ManualLinkInv
  <2>3. \A i \in 1..Len(trail'[m]) : trail'[m][i] = "SUPPLIER_OPENED" => i = Len(trail'[m])
    BY <2>1, <2>2
  <2> QED
    BY <2>2, <2>3 DEF OpeningEndsTrail
<1>3. ASSUME NEW c \in Call, Create(c), ~UNCHANGED trail
      PROVE  OpeningEndsTrail'
  <2>1. PICK m \in Message :
          /\ records[m].status = "NONE"
          /\ trail' = [trail EXCEPT ![m] = Append(@, "LINK_CREATED")]
    BY <1>3, CallFields DEF Create, ManualLinkInv
  <2> QED
    BY <1>2, <2>1 DEF Activity
<1>4. ASSUME NEW c \in Call, AppendActivity(c)
      PROVE  OpeningEndsTrail'
  <2>1. PICK m \in Message, action \in Activity :
          /\ Pending(m)
          /\ trail' = [trail EXCEPT ![m] = Append(@, action)]
    BY <1>4, CallFields DEF AppendActivity, ManualLinkInv, CallsAreAlone, Activity
  <2> QED
    BY <1>2, <2>1 DEF Pending
<1>5. ASSUME NEW c \in Call, MarkDeliveredOnOpen(c), ~UNCHANGED trail
      PROVE  OpeningEndsTrail'
  <2>1. PICK m \in Message :
          /\ records[m].status # "DELIVERED"
          /\ trail' = [trail EXCEPT ![m] = Append(@, "SUPPLIER_OPENED")]
    BY <1>5, CallFields DEF MarkDeliveredOnOpen, WinsTransition, ManualLinkInv
  <2> QED
    BY <1>2, <2>1 DEF Activity
<1> QED
  BY <1>1, <1>3, <1>4, <1>5
     DEF Next, vars, Tick, Begin, Send, SendReplay, RecordHumanAction, OpenAgain, Open,
         Continue, CheckSent, Die

\* In the live runtime nobody copies or sends a link that was opened.
THEOREM OpeningIsLast == ASSUME Locked PROVE Spec => []OpeningEndsTrail
<1>1. Init => CallsAreAlone /\ OpeningEndsTrail
  BY DEF Init, CallsAreAlone, Idle, OpeningEndsTrail
<1>2. ManualLinkInv /\ CallsAreAlone /\ OpeningEndsTrail /\ [Next]_vars
        => (CallsAreAlone /\ OpeningEndsTrail)'
  BY AloneStep, TrailStep
<1> QED
  BY <1>1, <1>2, ManualLinkInvariant, PTL DEF Spec
=============================================================================
