SPECIFICATION Spec
CONSTANTS
  Order = {o1, o2}
  Canceller = {k1}
  ID = {a, b, c}
  NoID = NoID
  None = None
  MCPrices = {1}
  MCBuyIDs = {c}
  MCBuys = {1, 2}
  MCSellIDs = {a, b}
  MCSells = {1, 2}
  Request <- MCRequest
  MaxInFlight = 2
  RedisMayFail = FALSE
  ClientMayGiveUp = FALSE
\* Every call has been answered.
CHECK_DEADLOCK FALSE
SYMMETRY Interchangeable
INVARIANT
  LastDepthIsCurrent
