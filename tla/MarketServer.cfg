SPECIFICATION Spec
CONSTANTS
  Order = {o1, o2, o3}
  Canceller = {k1}
  ID = {a, b, c}
  NoID = NoID
  None = None
  MCPrices = {1}
  MCBuyIDs = {c}
  MCBuys = {2}
  MCSellIDs = {a, b}
  MCSells = {1}
  Request <- MCRequest
  MaxInFlight = 2
  RedisMayFail = TRUE
  ClientMayGiveUp = TRUE
\* Every call has been answered.
CHECK_DEADLOCK FALSE
SYMMETRY Interchangeable
INVARIANTS
  TypeOK
  EveryTradeOnce
  OwnTradesInOrder
  CurrentDepthPublished
  AnswersNeverOverstate
