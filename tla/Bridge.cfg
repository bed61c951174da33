SPECIFICATION Spec
CONSTANTS
  Client = {c1, c2, c3}
  None = None
  MaxMessages = 2
  RedisMayFail = TRUE
\* The application stops.
CHECK_DEADLOCK FALSE
INVARIANTS
  ForwardInv
  CalmBroadcastsReachAll
PROPERTIES
  Drains
  ImplementsRelay
