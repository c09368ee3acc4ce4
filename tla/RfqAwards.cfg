SPECIFICATION Spec
CONSTANTS
  rd1 = rd1
  r1 = r1
  r2 = r2
  None = None
  Round = {rd1}
  Recipient = {r1}
  RoundOf <- OneRecipient
  MinimumConfirmedDeliveries = 1
  MinimumValidQuotes = 1
  Submission <- MCSubmission
  ValidUntil <- MCValidUntil
  Compliant <- MCCompliant
  Respondent = {"ana", "bia"}
  AutoAck = FALSE
  AwardTtl = 1
  MaxTime = 3
  MaxQuoteVersion = 2
  MaxComparisons = 2
  MaxApprovals = 2
  MaxAwards = 2
  MaxReservations = 3
INVARIANTS
  DeliveriesAuditedOnce
  AwardsRestOnApprovals
  OneAwardPerApproval
  ReservationsAreBacked
PROPERTIES
  VersionsWitnessChange
  AnswersAreFinal
CHECK_DEADLOCK FALSE
