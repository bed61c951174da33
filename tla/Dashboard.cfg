SPECIFICATION Spec
CONSTANTS
  Symbol = {"AAPL", "TSLA"}
  Message <- MCMessage
  MAX_TRADES = 3
  MAX_THOUGHTS = 1
  BucketMs = 2
  MaxMessages = 3
  MaxDeliveries = 3
  MaxSockets = 3
  MaxEffects = 2
\* The hook may be unmounted, and the feed end.
CHECK_DEADLOCK FALSE
INVARIANTS
  ConnectionInv
  ShownIsLatest
  IndicatorHonest
  CandlesFaithful
PROPERTIES
  Reconnects
