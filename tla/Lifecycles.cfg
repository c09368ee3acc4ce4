SPECIFICATION Spec
CONSTANTS
  r1 = r1
  q1 = q1
  p1 = p1
  p2 = p2
  w1 = w1
  w2 = w2
  s1 = s1
  ana = ana
  bia = bia
  t1 = t1
  t2 = t2
  f1 = f1
  f2 = f2
  None = None
  Request = r1
  Quotes = {q1}
  Approvals = {p1, p2}
  Awards = {w1, w2}
  Suppliers = {s1}
  People = {ana, bia}
  Terms = {t1, t2}
  Fields = {f1, f2}
  MaxQuoteVersion = 10
  MaxTime = 1
SYMMETRY CaseSymmetry
CONSTRAINT OneSideMoves
INVARIANTS
  CommitmentsAreChained
  PartiesAreBound
CHECK_DEADLOCK FALSE
