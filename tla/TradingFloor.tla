----------------------------- MODULE TradingFloor -----------------------------
(***************************************************************************)
(* agents/: the trading agents of one symbol, as run_agents.py runs them,  *)
(* over the book their orders reach (AtomicBook: each RPC meets the book   *)
(* in one step).  An agent loops: perceive a depth, decide, act on it two  *)
(* awaits later, publish a thought.  Every await is a point where other    *)
(* agents, and other clients of the server, act, and where a tick may      *)
(* fail.  A server that crashes comes back with an empty book.             *)
(*                                                                         *)
(* All agents of a symbol share one reference price, and all use the       *)
(* default order_quantity and history_window.                              *)
(***************************************************************************)
EXTENDS Strategies, ServedBook, FiniteSets

CONSTANTS
  Momentum, News,         \* the agents, by kind
  Outsider,               \* another client of the server
  Symbol,                 \* the symbol they trade
  ReferencePrice,         \* reference_price
  OrderQuantity,          \* order_quantity
  HistoryWindow,          \* history_window
  TrendThreshold,         \* trend_threshold_ticks
  Config,                 \* of each news agent: both thresholds, news_lookback
  StoredNews,             \* the collections there may be before the seeding
  Ranking,                \* the orders the headlines may be ranked in
  OutsiderRequest,        \* the orders the other client may place
  MaxTicks,               \* bound: ticks of an agent
  MaxRestarts,            \* bound: crashes of the server
  MayStop                 \* whether SIGINT or SIGTERM may come

Agent == Momentum \cup News

ASSUME FloorAssumption ==
  /\ Momentum \cap News = {} /\ Outsider \notin Agent
  /\ ReferencePrice \in Nat \ {0} /\ OrderQuantity \in Nat \ {0}
  /\ HistoryWindow \in Nat \ {0} /\ TrendThreshold \in Nat
  /\ MaxTicks \in Nat /\ MaxRestarts \in Nat /\ MayStop \in BOOLEAN
  /\ Config \in [News -> [buy : Int, sell : Int, lookback : Nat \ {0}]]
  /\ ID \subseteq (Agent \cup {Outsider}) \X Nat
  /\ None \notin Side /\ None \notin Intent /\ None \notin Result /\ None \notin ToldOrder
  /\ Unscored \notin Int /\ Ranking \subseteq Seq(STRING)
  /\ \A stored \in StoredNews : \A h \in DOMAIN stored :
       stored[h].sentiment \in Int \cup {Unscored}
  /\ OutsiderRequest \subseteq RawRequest
  /\ \A r \in OutsiderRequest : r.id \in ID => r.id[1] = Outsider

VARIABLES
  collection, ranking,                  \* the news store
  phase,     \* where in run_agent_loop each agent is
  ticks,     \* ticks of each agent that got a depth
  history,   \* _price_history of each momentum agent, doubled
  intent,    \* the OrderIntent of the tick, or None
  result,    \* the answer to its order, or None
  thoughts,  \* the thoughts published
  silent,    \* the orders that were executed, but no thought tells so
  restarts,  \* crashes of the server so far
  stopping,  \* stop_event
  main       \* where main is: in gather, past it, or past the closing of the
             \* Redis client, or of the MarketClient too

mind == <<collection, ranking, history>>
process == <<stopping, main>>
vars == <<book, mind, phase, ticks, intent, result, thoughts, silent, restarts, process>>

\* main seeds the collection, connects the MarketClient and starts the loops.
Init ==
  /\ Book!Init
  /\ \E stored \in StoredNews : collection = Upsert(stored, SampleHeadlines)
  /\ ranking \in Ranking
  /\ phase = [a \in Agent |-> "idle"]
  /\ ticks = [a \in Agent |-> 0]
  /\ history = [a \in Momentum |-> <<>>]
  /\ intent = [a \in Agent |-> None]
  /\ result = [a \in Agent |-> None]
  /\ thoughts = {} /\ silent = {}
  /\ restarts = 0
  /\ stopping = FALSE /\ main = "gathering"

Goto(a, where) == phase' = [phase EXCEPT ![a] = where]

\* _require_stub: until close.
Connected == main # "closed"

-----------------------------------------------------------------------------
(* perceive and decide. *)

Quotes(s) == {ord[o].price : o \in {x \in resting : ord[x].side = s}}

\* depth.bids[0] or depth.asks[0], or None.
Best(s) ==
  IF Quotes(s) = {} THEN None
  ELSE CHOOSE p \in Quotes(s) : \A q \in Quotes(s) : ~Precedes(s, q, p)

\* get_market_depth
Depth == MarketDepth(Best(Buy), Best(Sell))

\* run_agent_loop looks at the event between ticks only.
Begins(a) == phase[a] = "idle" /\ ~stopping /\ ticks[a] < MaxTicks /\ Connected

\* A momentum agent gets a depth and decides by the mids before this one.
PerceiveTrend(a) ==
  LET mid == DoubleMid(Depth, ReferencePrice)
      side == TrendSide(mid, history[a], HistoryWindow, TrendThreshold)
  IN /\ a \in Momentum /\ Begins(a)
     /\ intent' = [intent EXCEPT ![a] = OrderIntent(side, Depth, ReferencePrice, OrderQuantity)]
     /\ history' = [history EXCEPT ![a] = Remember(@, mid, HistoryWindow)]
     /\ ticks' = [ticks EXCEPT ![a] = @ + 1]
     /\ Goto(a, "act")
     /\ UNCHANGED <<book, collection, ranking, result, thoughts, silent, restarts, process>>

\* The side the headlines tell a news agent to take.
Reading(a) ==
  NewsSide(RecentAverageSentiment(collection, ranking, Symbol, Config[a].lookback), Config[a])

\* A news agent gets a depth, then asks the news store, then decides.
PerceiveNews(a) ==
  /\ a \in News /\ Begins(a)
  /\ intent' = [intent EXCEPT ![a] =
                  OrderIntent(Reading(a), Depth, ReferencePrice, OrderQuantity)]
  /\ ticks' = [ticks EXCEPT ![a] = @ + 1]
  /\ Goto(a, "act")
  /\ UNCHANGED <<book, mind, result, thoughts, silent, restarts, process>>

\* A tick that fails before, in GetMarketDepth or in the query, is caught and
\* leaves everything as it was: no step.

-----------------------------------------------------------------------------
(* act. *)

\* The struct the server makes of the next request.
Fresh == CHOOSE o \in Order : Book!IsNew(o)

OrdersLeft == \E o \in Order : Book!IsNew(o)

\* The server executes the order; its answer is on its way.
Execute(a, id) ==
  /\ phase[a] = "act" /\ intent[a] # None /\ Connected /\ OrdersLeft
  /\ id \in ID /\ id[1] = a
  /\ Book!Process(Fresh, OrderRequest(id, intent[a]))
  /\ result' = [result EXCEPT ![a] = OrderResult(Fresh, TRUE, Len(tape') - Len(tape))]
  /\ Goto(a, "answered")
  /\ UNCHANGED <<mind, ticks, intent, thoughts, silent, restarts, process>>

\* The server refuses it: a fresh id is eight random digits, and may be that
\* of an order that still rests.
Refused(a, id) ==
  /\ phase[a] = "act" /\ intent[a] # None /\ Connected /\ OrdersLeft
  /\ id \in ID /\ id[1] = a
  /\ Book!Refuse(Fresh, OrderRequest(id, intent[a]))
  /\ result' = [result EXCEPT ![a] = OrderResult(Fresh, FALSE, 0)]
  /\ Goto(a, "answered")
  /\ UNCHANGED <<mind, ticks, intent, thoughts, silent, restarts, process>>

\* Mutant of Forget: the next tick starts with the state of this one.
ForgetNot(a) == UNCHANGED <<intent, result>>

\* The graph starts every tick from an empty state.
Forget(a) ==
  /\ intent' = [intent EXCEPT ![a] = None]
  /\ result' = [result EXCEPT ![a] = None]

\* Mutant of Speaks: the thought goes out before the order does.
SpeaksFirst(a) == phase[a] \in {"act", "answered"}

\* Nothing was to be ordered, or the answer is in.
Speaks(a) ==
  \/ phase[a] = "act" /\ intent[a] = None
  \/ phase[a] = "answered"

\* The thought is published and the tick is over; then the loop sleeps.
Think(a) ==
  /\ Speaks(a)
  /\ thoughts' = thoughts \cup {Thought(a, intent[a], result[a])}
  /\ Forget(a) /\ Goto(a, "idle")
  /\ UNCHANGED <<book, mind, ticks, silent, restarts, process>>

\* Mutant of AfterFailure: run_agent_loop lets the exception through.
AfterFailureDead == "dead"

\* run_agent_loop catches what a tick raises.
AfterFailure == "idle"

Silenced(a) ==
  silent' = IF result[a] # None /\ result[a].accepted
            THEN silent \cup {result[a].struct} ELSE silent

\* Mutant of CallFails: the call is tried again until it goes through.
CallFailsNot(a) == FALSE /\ UNCHANGED vars

\* The RPC fails before the server runs it, or its answer is lost on its way
\* back: place_limit_order raises.  No order is taken back.
CallFails(a) ==
  /\ intent[a] # None  \* the phase is "act" or "answered"
  /\ Silenced(a)
  /\ Forget(a) /\ Goto(a, AfterFailure)
  /\ UNCHANGED <<book, mind, ticks, thoughts, restarts, process>>

\* The publication fails; _publish_thought catches that itself.
ThinkFails(a) ==
  /\ Speaks(a)
  /\ Silenced(a)
  /\ Forget(a) /\ Goto(a, "idle")
  /\ UNCHANGED <<book, mind, ticks, thoughts, restarts, process>>

-----------------------------------------------------------------------------
(* The rest of the world. *)

\* Another client places an order.
Outside(r) ==
  /\ OrdersLeft
  /\ Book!Process(Fresh, r)
  /\ UNCHANGED <<mind, phase, ticks, intent, result, thoughts, silent, restarts, process>>

\* Another client cancels its order; agents never cancel theirs.
OutsideCancel(o) ==
  /\ o \in resting /\ ord[o].id[1] = Outsider
  /\ Book!Cancel(o)
  /\ UNCHANGED <<mind, phase, ticks, intent, result, thoughts, silent, restarts, process>>

\* The server crashes and is started again: nothing of the book is kept.  What
\* was in flight fails (CallFails), what the agents remember stays.  (With an
\* empty book there is nothing to see of it.)
ServerRestarts ==
  /\ restarts < MaxRestarts /\ resting # {}
  /\ restarts' = restarts + 1
  /\ resting' = {}
  /\ UNCHANGED <<ord, refused, tape, clock, mind, phase, ticks, intent, result,
                 thoughts, silent, process>>

-----------------------------------------------------------------------------
(* main. *)

\* SIGINT or SIGTERM.
Stop ==
  /\ MayStop /\ ~stopping /\ main = "gathering"
  /\ stopping' = TRUE
  /\ UNCHANGED <<book, mind, phase, ticks, intent, result, thoughts, silent, restarts, main>>

\* The loop of an agent sees the event.
Leave(a) ==
  /\ phase[a] = "idle" /\ stopping
  /\ Goto(a, "left")
  /\ UNCHANGED <<book, mind, ticks, intent, result, thoughts, silent, restarts, process>>

\* gather returns when every loop has, and raises when one of them does; then
\* the Redis client is closed, and on leaving the async with the MarketClient.
Proceeds ==
  \/ /\ main = "gathering"
     /\ \/ \A a \in Agent : phase[a] = "left"
        \/ \E a \in Agent : phase[a] = "dead"
     /\ main' = "gathered"
  \/ main = "gathered" /\ main' = "redis closed"
  \/ main = "redis closed" /\ main' = "closed"

Main ==
  /\ Proceeds
  /\ UNCHANGED <<book, mind, phase, ticks, intent, result, thoughts, silent, restarts,
                 stopping>>

Perceive(a) == PerceiveTrend(a) \/ PerceiveNews(a)

EndTick(a) == Think(a) \/ CallFails(a) \/ ThinkFails(a)

Act(a) ==
  \/ \E id \in ID : Execute(a, id) \/ Refused(a, id)
  \/ EndTick(a)

Loop(a) == Perceive(a) \/ Act(a) \/ Leave(a)

Next ==
  \/ \E a \in Agent : Loop(a)
  \/ \E r \in OutsiderRequest : Outside(r)
  \/ \E o \in Order : OutsideCancel(o)
  \/ ServerRestarts \/ Stop \/ Main

\* Every call of a tick returns or raises in the end (a channel with a dead peer
\* raises; one with a peer that hangs is left out, as no call has a deadline),
\* and every sleep ends.
Spec ==
  /\ Init /\ [][Next]_vars
  /\ \A a \in Agent : WF_vars(EndTick(a) \/ Leave(a))
  /\ WF_vars(Main)

-----------------------------------------------------------------------------
Owner(o) == ord[o].id[1]
MineOf(a) == {o \in DOMAIN ord : Owner(o) = a}

TypeOK ==
  /\ phase \in [Agent -> {"idle", "act", "answered", "left", "dead"}]
  /\ ticks \in [Agent -> 0 .. MaxTicks]
  /\ \A a \in Momentum : Len(history[a]) <= HistoryWindow
  /\ \A a \in Agent :
       /\ intent[a] # None => phase[a] \in {"act", "answered"}
       /\ result[a] # None <=> phase[a] = "answered"
  /\ \A th \in thoughts : th.agent \in Agent
  /\ silent \subseteq DOMAIN ord
  /\ restarts \in 0 .. MaxRestarts
  /\ stopping \in BOOLEAN
  /\ main \in {"gathering", "gathered", "redis closed", "closed"}

\* Left to themselves, the agents of a symbol deal at the reference price and
\* at nothing else: news agents quote it or take it, the mid is it, so momentum
\* agents never see a trend, over crashes of the server too; only one side is
\* ever quoted; and nothing trades but between agents configured differently.
\* (run_agents.py configures all alike: alone, they never trade.)
AnchoredMarket ==
  MineOf(Outsider) = {} =>
    /\ Quotes(Buy) = {} \/ Quotes(Sell) = {}
    /\ \A o \in DOMAIN ord : ord[o].price = ReferencePrice /\ Owner(o) \in News
    /\ \A a \in Momentum : intent[a] = None
    /\ \A i \in DOMAIN tape : Config[Owner(tape[i].maker)] # Config[Owner(tape[i].taker)]

\* News agents configured alike take the same side, all of them and for ever.
AlikeAgree ==
  \A o, p \in DOMAIN ord :
    /\ Owner(o) \in News /\ Owner(p) \in News
    /\ Config[Owner(o)] = Config[Owner(p)]
    => ord[o].side = ord[p].side

\* So a news agent, in particular, takes one side; and never against all the
\* news: some headline about its own symbol is as good, or as bad, as its
\* threshold.
OneSidedReaders ==
  /\ AlikeAgree
  /\ \A a \in News, o \in DOMAIN ord :
       Owner(o) = a =>
         \E h \in DOMAIN collection :
           /\ collection[h].symbol = Symbol /\ collection[h].sentiment # Unscored
           /\ IF ord[o].side = Buy THEN collection[h].sentiment >= Config[a].buy
              ELSE collection[h].sentiment <= Config[a].sell

\* Fills of order o as taker.
FillsOf(o) == {i \in DOMAIN tape : tape[i].taker = o}

\* The feed tells the truth about the book however late it comes: a thought
\* that names an accepted order belongs to an order of that agent, with the
\* side, price and quantity told and just the fills it made on arrival; one that
\* names none made none.  Conversely every order of an agent is told once, or
\* still in its hands, or silent; and there is at most one for each tick, so a
\* failed tick is not tried again.
ThoughtsTrue ==
  /\ \A th \in thoughts :
       /\ th.order = None <=> th.decision = "HOLD"
       /\ th.order # None =>
            LET o == th.order.struct
            IN IF th.order.accepted
               THEN /\ o \in MineOf(th.agent) /\ ord[o].side = th.decision
                    /\ ord[o].price = th.order.price
                    /\ ord[o].original = th.order.quantity
                    /\ Cardinality(FillsOf(o)) = th.order.trades
               ELSE o \in refused
  /\ \A a \in Agent :
       /\ Cardinality(MineOf(a)) <= ticks[a]
       /\ \A o \in MineOf(a) :
            LET told == {th \in thoughts : th.order # None /\ th.order.struct = o}
                inHand == result[a] # None /\ result[a].struct = o
            IN /\ Cardinality(told) = IF inHand \/ o \in silent THEN 0 ELSE 1
               /\ ~(inHand /\ o \in silent)

\* The clients are closed only once every agent has left its loop, and agents
\* leave only when told to: no failure of a tick ends the floor, and none finds
\* its connection closed by another.
OrderlyEnd ==
  /\ main # "gathering" => \A a \in Agent : phase[a] = "left"
  /\ \A a \in Agent : phase[a] = "left" => stopping

\* SIGINT and SIGTERM work: whatever fails meanwhile, main gets to its end.
StopEnds == stopping ~> main = "closed"
=============================================================================
