---------------------------- MODULE MCLifecycles ----------------------------
(* A small instance of Lifecycles for TLC. *)
EXTENDS Lifecycles, TLC

CONSTANTS r1, q1, p1, p2, w1, w2, s1, ana, bia, t1, t2, f1, f2

\* The request, its approvals and its awards look at nothing of a quote but its
\* version, and at no supplier; quotes and suppliers do not look at them at all.
\* Their steps commute, so each side moves while the other is (almost) at rest.
OneSideMoves ==
    \/ /\ version[Request] = 1
       /\ \A x \in Approvals \cup Awards : version[x] = 0
    \/ /\ \A q \in Quotes : version[q] <= 2
       /\ \A s \in Suppliers : version[s] = 1
       /\ clock = 0

\* Approvals, awards, terms and people are interchangeable.
CaseSymmetry ==
    Permutations(Approvals) \cup Permutations(Awards) \cup Permutations(Terms)
        \cup Permutations(People)
=============================================================================
