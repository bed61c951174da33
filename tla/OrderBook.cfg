SPECIFICATION LSpec
CONSTANTS
  Order = {o1, o2, o3}
  ID = {a, b, c}
  NoID = NoID
  None = None
  MCPrices = {1, 2, 3}
  MCQuantities = {1, 2}
  Request <- MCRequest
  MaxDepthLevels = 1
  HalfWord = 4
SYMMETRY Interchangeable
INVARIANTS
  BookConsistent
  Uncrossed
  FifoLevels
  VolumeIsSum
  FilledExactly
  DepthFaithful
  LinksFaithful
PROPERTIES
  GoneForGood
  MatchingBounded
  ImplementsPriceTimePriority
  ImplementsAtomicBook
