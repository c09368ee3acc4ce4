SPECIFICATION FairSpec
CONSTANTS
  Critical <- MCCritical
  Normal <- MCNormal
  Nothing = Nothing
  Document = {d1, d2}
  Tenant = {t1, t2}
  Content = {x}
  Worker = {w1, w2}
  Response <- MCResponse
  MaxCancels = 2
INVARIANTS
  RunAgreesWithDocument
  ReviewsAreSupported
PROPERTIES
  QueuedDocumentsSettle
CHECK_DEADLOCK FALSE
