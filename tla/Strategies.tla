------------------------------ MODULE Strategies ------------------------------
(***************************************************************************)
(* What the agents compute: from a depth, as grpc_client.py hands it to    *)
(* them, and a price history or headlines, to the order they send and the  *)
(* thought they publish.  No state.                                        *)
(*                                                                         *)
(* Prices are in ticks; a mid may be half a tick, so mids are kept         *)
(* doubled.  Averages are not divided out: both sides of a comparison are  *)
(* multiplied instead (the code rounds to a double).                       *)
(***************************************************************************)
EXTENDS Orders, NewsStore

\* What the strategies look at of a MarketDepth: the best quotes, or None.
MarketDepth(bid, ask) == [bid |-> bid, ask |-> ask]

\* Mutant of DoubleMid: an empty side counts as a quote of nothing.
DoubleMidOfBoth(depth, reference) ==
  IF depth.bid = None /\ depth.ask = None THEN 2 * reference
  ELSE (IF depth.bid = None THEN 0 ELSE depth.bid)
       + (IF depth.ask = None THEN 0 ELSE depth.ask)

\* _mid_price, doubled.
DoubleMid(depth, reference) ==
  CASE depth.bid # None /\ depth.ask # None -> depth.bid + depth.ask
    [] depth.bid # None /\ depth.ask = None -> 2 * depth.bid
    [] depth.bid = None /\ depth.ask # None -> 2 * depth.ask
    [] OTHER -> 2 * reference

\* The price history after one more mid: a deque of length window.
Remember(history, mid, window) ==
  LET longer == Append(history, mid)
  IN IF Len(longer) > window THEN Tail(longer) ELSE longer

\* decide of MomentumAgent: the side to take, None to hold.
TrendSide(mid, history, window, threshold) ==
  LET total == SumFunctionOnSet(history, DOMAIN history)
      trend == mid * window - total
  IN CASE Len(history) < window -> None
       [] Len(history) >= window /\ trend > 2 * window * threshold -> Buy
       [] Len(history) >= window /\ trend < -2 * window * threshold -> Sell
       [] OTHER -> None

\* decide of NewsAgent; the buy threshold is looked at first.
NewsSide(average, config) ==
  CASE average.count = 0 -> None
    [] average.count > 0 /\ average.sum >= config.buy * average.count -> Buy
    [] /\ average.count > 0 /\ average.sum < config.buy * average.count
       /\ average.sum <= config.sell * average.count -> Sell
    [] OTHER -> None

\* What decide returns, None apart.
Intent == [side : Side, quantity : Nat \ {0}, price : Nat \ {0}]

\* The OrderIntent to take side s: at the best opposite quote if there is one,
\* else at the reference price.
OrderIntent(s, depth, reference, quantity) ==
  LET quote == IF s = Buy THEN depth.ask ELSE depth.bid
  IN IF s = None THEN None
     ELSE [side |-> s, quantity |-> quantity,
           price |-> IF quote = None THEN reference ELSE quote]

\* place_limit_order: the request.
OrderRequest(id, intent) ==
  [id |-> id, side |-> intent.side, type |-> Limit, price |-> intent.price,
   quantity |-> intent.quantity]

\* and the OrderResult it makes of the answer.  o is the struct the server made
\* of the request, which an answer does not name: it is there for the properties.
OrderResult(o, accepted, trades) ==
  [struct |-> o, accepted |-> accepted, trades |-> trades]

Result == [struct : Order, accepted : BOOLEAN, trades : Nat]

\* What a thought tells of an order.
ToldOrder == [price : Nat \ {0}, quantity : Nat \ {0},
              struct : Order, accepted : BOOLEAN, trades : Nat]

\* What _publish_thought says.
Thought(agent, intent, result) ==
  [agent |-> agent,
   decision |-> IF intent = None THEN "HOLD" ELSE intent.side,
   order |-> IF intent = None \/ result = None THEN None
             ELSE [price |-> intent.price, quantity |-> intent.quantity,
                   struct |-> result.struct, accepted |-> result.accepted,
                   trades |-> result.trades]]
=============================================================================
