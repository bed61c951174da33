SPECIFICATION Spec
CONSTANTS
  trendA = trendA
  newsA = newsA
  newsB = newsB
  external = external
  Momentum <- MCMomentum
  News <- MCNews
  Outsider = external
  Symbol = "AAPL"
  Order = {1, 2, 3}
  ID <- MCID
  NoID = NoID
  None = None
  Unscored = Unscored
  Request <- MCOutsiderRequest
  OutsiderRequest <- MCOutsiderRequest
  ReferencePrice = 2
  OrderQuantity = 1
  HistoryWindow = 1
  TrendThreshold = 0
  Config <- MCConfig
  StoredNews <- MCStoredNews
  Ranking <- MCRanking
  MaxTicks = 2
  MaxRestarts = 1
  MayStop = FALSE
\* The agents stop.
CHECK_DEADLOCK FALSE
INVARIANTS
  TypeOK
  AnchoredMarket
  OneSidedReaders
  ThoughtsTrue
