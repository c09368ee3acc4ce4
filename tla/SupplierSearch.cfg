SPECIFICATION SearchSpec
CONSTANTS
  Unset = Unset
  MaxProfileAge = 2
  Records <- MCRecords
  Criteria <- MCCriteria
  MaxTime = 4
  MaxGaps = 2
INVARIANTS
  AskedExactlyWhenSuitable
PROPERTIES
  IgnoranceNeverDecides
CHECK_DEADLOCK FALSE
