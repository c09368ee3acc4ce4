---------------------------- MODULE MCUnitOfWork ----------------------------
(* Two units whose commands carry one idempotency key, for TLC. *)
EXTENDS UnitOfWork, TLC

CONSTANTS u1, u2, a1, k1, n1, ok, failed, p1, p2

MCKeyOf == [u \in Units |-> k1]

\* The aggregates and their events on one side, the reservations and links on the
\* other, read nothing of each other, and only share the phase of their unit.  No
\* property relates the two, so one side moves while the other is at rest.
OneSideMoves ==
    \/ /\ \A u \in Units : saved[u] \cup appended[u] = {}
       /\ \A u \in Units, a \in Aggregates : held[u][a] = 0 /\ wrote[u][a] = 0
    \/ /\ \A u \in Units : claim[u] = "None" /\ told[u] \cup taken[u] = {}
       /\ \A k \in Keys : claimants[k] = {}
       /\ consumed = {}

\* Units, payloads and answers are interchangeable.
Symmetry ==
  Permutations(Units) \cup Permutations(Prints) \cup Permutations(Answers)
=============================================================================
