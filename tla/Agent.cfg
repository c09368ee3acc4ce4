SPECIFICATION Spec
CONSTANTS
  Claim <- MCClaim
  None = None
  Unset = Unset
  Day = 2
  MaxProfileAge = 2
  City = 11
  DefaultTarget = 2
  MaximumTarget = 2
  PolicyRequired = {"delivery_time", "invoice_required"}
  Message <- MCMessage
  CreationKey = {k1}
  Supplier = {1, 2, 3}
  Profile <- MCProfile
  MinimumQuotes = 1
  ToolsFail = TRUE
  ProviderFails = TRUE
  AnswersGetLost = TRUE
  MaxSteps = 5
  MaxVersion = 4
  MaxMoves = 1
  Deniable = {"start_sourcing"}
  MaxRequests = 1
  MaxRuns = 3
  MaxTime = 3
INVARIANTS
  ShownRoundIsTheRound
  AuditTrailMatchesStatus
  EvidenceBacksFacts
PROPERTIES
  FactsChangeOnlyWhenConfirmed
CHECK_DEADLOCK FALSE
