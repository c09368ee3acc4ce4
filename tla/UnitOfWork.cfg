SPECIFICATION Spec
CONSTANTS
  u1 = u1
  u2 = u2
  a1 = a1
  k1 = k1
  n1 = n1
  p1 = p1
  p2 = p2
  ok = ok
  failed = failed
  NoAnswer = NoAnswer
  Units = {u1, u2}
  Aggregates = {a1}
  Keys = {k1}
  Nonces = {n1}
  Answers = {ok, failed}
  KeyOf <- MCKeyOf
  Prints = {p1, p2}
  Faulty = {u1, u2}
  MaxVersion = 3
  MaxRollbacks = 1
SYMMETRY Symmetry
CONSTRAINT OneSideMoves
INVARIANTS
  NoLostUpdate
  TransitionsAreAudited
  UsedOnce
CHECK_DEADLOCK FALSE
