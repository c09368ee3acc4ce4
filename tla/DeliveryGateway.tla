--------------------------- MODULE DeliveryGateway ---------------------------
(***************************************************************************)
(* What the execution service relies on in the gateway that delivers its   *)
(* messages: a message is accepted once, for one payload, and confirmed or *)
(* failed at most once; neither verdict, nor the time of the confirmation, *)
(* ever changes.                                                           *)
(***************************************************************************)
CONSTANTS
  Message,   \* idempotency keys of messages
  Payload,   \* what is sent under a key, equal iff the fingerprints are
  Time,
  None

VARIABLES
  status,       \* the state get_status reports
  confirmedAt,  \* the delivered_at it reports
  accepted      \* the payloads whose senders were told that it was accepted

gatewayVars == <<status, confirmedAt, accepted>>

GatewayInit ==
  /\ status = [m \in Message |-> "NONE"]
  /\ confirmedAt = [m \in Message |-> None]
  /\ accepted = [m \in Message |-> {}]

Accept(m, p) ==
  /\ accepted[m] \in {{}, {p}}
  /\ accepted' = [accepted EXCEPT ![m] = {p}]
  /\ status' = [status EXCEPT ![m] = IF @ = "NONE" THEN "SENT_TO_GATEWAY" ELSE @]
  /\ UNCHANGED confirmedAt

Confirm(m, time) ==
  /\ status[m] = "SENT_TO_GATEWAY"
  /\ status' = [status EXCEPT ![m] = "DELIVERED"]
  /\ confirmedAt' = [confirmedAt EXCEPT ![m] = time]
  /\ UNCHANGED accepted

GiveUp(m) ==
  /\ status[m] = "SENT_TO_GATEWAY"
  /\ status' = [status EXCEPT ![m] = "FAILED"]
  /\ UNCHANGED <<confirmedAt, accepted>>

GatewayNext ==
  \E m \in Message :
    \/ \E p \in Payload : Accept(m, p)
    \/ \E time \in Time : Confirm(m, time)
    \/ GiveUp(m)

GatewaySpec == GatewayInit /\ [][GatewayNext]_gatewayVars
=============================================================================
