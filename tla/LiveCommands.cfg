SPECIFICATION Spec
CONSTANTS
  r1 = r1
  r2 = r2
  r3 = r3
  r4 = r4
  None = None
  Request = {r1, r2, r3, r4}
  Key = {"k1", "k2"}
  Payload = {"p1", "p2"}
  KeyOf <- MCKeyOf
  PayloadOf <- MCPayloadOf
  MaxCrashes = 2
INVARIANTS
  EffectsHappenOnce
  AuditMatchesState
PROPERTIES
  ImplementsLedger
  EveryRequestAnswered
CHECK_DEADLOCK FALSE
