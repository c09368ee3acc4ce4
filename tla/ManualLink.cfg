SPECIFICATION Spec
CONSTANTS
  c1 = c1
  c2 = c2
  c3 = c3
  None = None
  Message = {"rfq"}
  Payload = {"p1", "p2"}
  Call = {c1, c2, c3}
  Locked = FALSE
  MaxTime = 2
  MaxTrail = 4
SYMMETRY Calls
INVARIANTS
  DeliveryIsWitnessed
  OpeningsAgree
PROPERTIES
  ImplementsGateway
CHECK_DEADLOCK FALSE
