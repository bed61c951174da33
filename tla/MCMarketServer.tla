--------------------------- MODULE MCMarketServer ---------------------------
(* MarketServer on small instances. *)
EXTENDS MarketServer, TLC

CONSTANTS
  MCPrices,
  MCBuyIDs, MCBuys,      \* the ids of buy orders, and the quantities bought
  MCSellIDs, MCSells     \* the same of sell orders

Limits(side, ids, quantities) ==
  [id : ids, side : {side}, type : {Limit}, price : MCPrices, quantity : quantities]

\* Limit orders of either side, and one request no book accepts.
MCRequest ==
  Limits(Buy, MCBuyIDs, MCBuys) \cup Limits(Sell, MCSellIDs, MCSells)
  \cup [id : {NoID}, side : {Buy}, type : {Limit}, price : {1}, quantity : {1}]

Interchangeable ==
  Permutations(Order) \cup Permutations(MCBuyIDs) \cup Permutations(MCSellIDs)
=============================================================================
