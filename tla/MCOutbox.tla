------------------------------ MODULE MCOutbox ------------------------------
(* A small instance of Outbox for TLC. *)
EXTENDS Outbox

CONSTANTS i1, w1, w2
=============================================================================
