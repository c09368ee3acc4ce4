------------------------------ MODULE Commands ------------------------------
(* Requests, idempotency keys, and the answer a remembered command gives. *)
EXTENDS Naturals, Sequences

CONSTANTS
  Request,    \* requests of clients; a client retries one until it is answered
  Key,        \* (operation, idempotency key) pairs
  Payload,
  KeyOf,      \* the key each request carries
  PayloadOf,  \* the payload each request carries
  None

ASSUME RequestAssumption ==
  /\ KeyOf \in [Request -> Key]
  /\ PayloadOf \in [Request -> Payload]
  /\ None \notin Request
  /\ None \notin [payload : Payload, result : Nat]

\* The result of a command is the id it created: its place in the order.
Memory == [payload : Payload, result : Nat]

Answer == {[kind |-> k, result |-> 0] : k \in {"CONFLICT", "REFUSED"}}
            \cup [kind : {"OK"}, result : Nat]

\* The answer that what is remembered of its key gives to a request.
Remembered(r, m) ==
  IF m.payload = PayloadOf[r] THEN [kind |-> "OK", result |-> m.result]
  ELSE [kind |-> "CONFLICT", result |-> 0]
=============================================================================
