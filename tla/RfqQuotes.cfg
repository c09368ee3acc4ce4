SPECIFICATION Spec
CONSTANTS
  rd1 = rd1
  r1 = r1
  r2 = r2
  None = None
  Round = {rd1}
  Recipient = {r1, r2}
  RoundOf <- OneRound
  MinimumConfirmedDeliveries = 2
  MinimumValidQuotes = 1
  Submission <- MCSubmission
  ValidUntil <- MCValidUntil
  Compliant <- MCCompliant
  Respondent = {"ana"}
  AutoAck = FALSE
  AwardTtl = 1
  MaxTime = 2
  MaxQuoteVersion = 2
  MaxComparisons = 1
  MaxApprovals = 2
  MaxAwards = 1
  MaxReservations = 1
SYMMETRY Suppliers
INVARIANTS
  ActiveRoundsAreDelivered
  LiveApprovalsAreCurrent
  StatusHasEvidence
  CollectionVersionIdentifiesQuotes
CHECK_DEADLOCK FALSE
