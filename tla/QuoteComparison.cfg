SPECIFICATION Spec
CONSTANTS
  Unknown = Unknown
  Supplier = {1, 2, 3}
  Submission <- MCSubmission
  Requirements <- MCRequirements
  Weights <- MCWeights
  MinimumValid = 1
  MaxTime = 3
INVARIANTS
  CheaperEqualStandsFirst
PROPERTIES
  RaisingThePriceNeverHelps
CHECK_DEADLOCK FALSE
