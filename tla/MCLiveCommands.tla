--------------------------- MODULE MCLiveCommands ---------------------------
(* A small instance of LiveCommands for TLC. *)
EXTENDS LiveCommands, TLC

CONSTANTS r1, r2, r3, r4

\* A client races with its own retry (r1, r2) and with another payload under
\* their key (r3); another client uses another key (r4).
MCKeyOf     == [r \in {r1, r2, r3, r4} |-> IF r = r4 THEN "k2" ELSE "k1"]
MCPayloadOf == [r \in {r1, r2, r3, r4} |-> IF r = r3 THEN "p2" ELSE "p1"]
=============================================================================
