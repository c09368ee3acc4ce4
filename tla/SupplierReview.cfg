SPECIFICATION ReviewSpec
CONSTANTS
  Field <- MCField
  Required <- MCField
  Link = {l1, l2}
  Call = {c1, c2}
  MaxRevisions = 3
SYMMETRY Symmetry
INVARIANTS
  OneActivationPerLink
PROPERTIES
  StrandedForGood
CHECK_DEADLOCK FALSE
