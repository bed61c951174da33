SPECIFICATION Spec
CONSTANTS
  trendA = trendA
  newsA = newsA
  newsB = newsB
  external = external
  Momentum <- MCMomentum
  News <- MCNews
  Outsider = external
  Symbol = "AAPL"
  Order = {1, 2}
  ID <- MCID
  NoID = NoID
  None = None
  Unscored = Unscored
  Request <- MCOutsiderRequest
  OutsiderRequest = {}
  ReferencePrice = 2
  OrderQuantity = 1
  HistoryWindow = 1
  TrendThreshold = 0
  Config <- MCConfig
  StoredNews <- MCStoredNews
  Ranking <- MCRanking
  MaxTicks = 2
  MaxRestarts = 1
  MayStop = TRUE
\* The agents stop, and the program ends.
CHECK_DEADLOCK FALSE
INVARIANTS
  OrderlyEnd
PROPERTIES
  StopEnds
