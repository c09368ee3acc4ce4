---------------------------- MODULE MCManualLink ----------------------------
(* Small instances of ManualLink for TLC. *)
EXTENDS ManualLink, TLC

CONSTANTS c1, c2, c3

Calls == Permutations({c1, c2, c3})
=============================================================================
