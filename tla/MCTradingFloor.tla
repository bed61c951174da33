--------------------------- MODULE MCTradingFloor ---------------------------
(* TradingFloor on a small instance. *)
EXTENDS TradingFloor

CONSTANTS trendA, newsA, newsB, external

MCMomentum == {trendA}
MCNews == {newsA, newsB}
MCID == {trendA, newsA, newsB, external} \X {1}

\* The defaults, and an agent that looks at the nearest headline only.
MCConfig ==
  newsA :> [buy |-> 30, sell |-> -30, lookback |-> 5] @@
  newsB :> [buy |-> 30, sell |-> -30, lookback |-> 1]

\* Nothing before the seeding: both buy.  Or bad news about AAPL: the one sells,
\* the other buys.  Or a headline without a score, nearest of all, too: the one
\* finds the news mixed, the other none.
MCStoredNews ==
  LET bad == [h \in {"bad-1", "bad-2", "bad-3"} |-> Headline("AAPL", -90)]
  IN {EmptyMap, bad, "blank" :> Headline("AAPL", Unscored) @@ bad}

\* Headlines about other symbols come between.
MCRanking ==
  {<<"seed-3", "blank", "seed-1", "seed-4", "seed-2", "bad-1", "seed-5", "bad-2",
     "bad-3", "seed-6">>}

\* The other client bids above the reference price, or offers below it.
MCOutsiderRequest ==
  {[id |-> <<external, 1>>, side |-> Buy, type |-> Limit, price |-> 3, quantity |-> 1],
   [id |-> <<external, 1>>, side |-> Sell, type |-> Limit, price |-> 1, quantity |-> 1]}
=============================================================================
