SPECIFICATION OutboxSpec
CONSTANTS
  i1 = i1
  w1 = w1
  w2 = w2
  NoWorker = NoWorker
  Item = {i1}
  Worker = {w1, w2}
  LeaseFor = 2
  RetryDelay = 1
  MaxLag = 1
  Limit = 1
  MaxAttempts = 4
INVARIANTS
  OutcomeOfLatestAttempt
  AttemptsAreExclusive
  ReceiptIsOfLatestAttempt
PROPERTIES
  DeliveredIsFinal
  NeverStranded
