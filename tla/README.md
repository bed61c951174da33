# A verification project for Simulated Wall Street

The repository is a small simulated exchange: a Go matching engine behind gRPC,
Python trading agents that submit orders, Redis pub/sub that carries trades,
depth snapshots and agents' thoughts to a FastAPI WebSocket bridge, and a React
dashboard. This directory holds TLA+ models of its core, the TLC instances that
check them, and TLAPS proofs of what matters most for every instance.

Run inside this directory: `tlc -config OrderBook.cfg MCOrderBook` (see
[Runs](#runs)) and `tlapm OrderBookProofs.tla`.

## Inventory

| Component | Source | State it keeps | Operations |
|---|---|---|---|
| Matching engine | `engine/orderbook.go` | per symbol: a map price → level and a sorted price slice per side, a FIFO list, running volume and count per level, an index by order id, a trade counter; one `RWMutex` | `ProcessOrder`, `CancelOrder`, `GetDepth`, `BestBid`, `BestAsk` |
| Book registry | `server/grpc_server.go` (`bookFor`) | map symbol → book, under `booksMu` | look up or create |
| Trade stream | `server/grpc_server.go` | set of subscriber channels (64 events each), under `subMu` | `StreamMarketData`, `broadcastTrades` |
| RPC handlers, publication | `server/grpc_server.go`, `server/events.go`, `cmd/server/main.go` | none of their own; a goroutine per call | `SubmitOrder`, `CancelOrder`, `GetMarketDepth`, `publishTrades`, `publishDepth` |
| WebSocket bridge | `bridge/main.py` | the set of connected clients; the listener task | `connect`, `disconnect`, `broadcast`, `redis_listener`, `websocket_endpoint`, `lifespan` |
| Agents | `agents/base.py`, `momentum_agent.py`, `news_agent.py`, `run_agents.py` | a mid-price window (momentum agents); the stop event | tick = perceive, decide, act; loop; start and end of `main` |
| gRPC client | `agents/grpc_client.py` | the channel and its stub | connect, close, `place_limit_order`, `get_market_depth` |
| News store | `agents/chroma.py` | a collection of scored headlines | seed, query |
| Dashboard | `dashboard/src` | latest book per symbol, last 300 trades and 100 thoughts, the socket and its reconnect timer | connect, reconnect, reduce messages, render |

How they interact: agents call the server through one gRPC channel. A handler
finds the book, runs `ProcessOrder` or `CancelOrder` under the book's lock,
offers the trades to every streaming client, publishes each trade on Redis,
takes the depth *under the lock again* and publishes it, and answers. The bridge
subscribes to the three Redis channels and forwards every message to every
connected browser; the dashboard folds them into its state. Redis keeps nothing:
whoever is not subscribed misses a message for good.

Nothing is persisted anywhere, so there is no recovery to model; a crash loses
all state of the process. What the others make of a server that comes back empty
is part of `TradingFloor`.

What is hard about each, and what makes it correct:

* **Engine** - sequential under its lock, but four redundant structures are kept
  in step by hand, at several places with different deltas. Correct when they
  agree after every fill, rest and cancel; when the book is never crossed; when
  each level is in time order; when volumes are the sums they claim to be; when
  no quantity is created or lost; when an order that left never returns though
  ids may be reused; when the matching loops end; and when all that amounts to
  price-time priority.
* **Registry** - double-checked locking. Correct when concurrent first uses of a
  symbol agree on one book, for ever, and nobody blocks for ever.
* **Trade stream** - producers under a lock, consumers that may lag, stall or
  leave. Correct when no consumer can stall a producer, and what a consumer gets
  is in order, once, and gapless unless *it* lagged.
* **Handlers** - several steps after the lock is released. Correct when every
  trade gets out once and in order, the published depth is the book's, the
  answer is consistent, and every call is answered though Redis fails.
* **Bridge** - one event loop, a set mutated while a loop over it awaits.
  Correct when the listener lives as long as the application, messages arrive in
  order, and broken clients neither block the others nor stay.
* **Agents** - act on a depth that is stale when their order arrives, may lose the
  answer to an executed order, and share one process. Correct when what the feed
  says of an order is what the book did with it, when an agent acts on the news of
  its own symbol only, and when neither a failed tick nor a signal in the middle
  of one leaves the process half ended.
* **Dashboard** - drops, a reconnect timer, double mounts. Correct when there is
  always exactly one connection in hand, messages are shown once and in order,
  and candles do not depend on how trades are ordered in time.

## Modules

`X` → `Y`: `X` extends or instantiates `Y`.

| Module | Models | Notes |
|---|---|---|
| `Orders` | validation, sides, prices' order, limits, requests, order structs | vocabulary; no state |
| `OrderBook` → `Orders`, `PriceTimePriority` | `engine/orderbook.go` with its data structures | one step per fill |
| `PriceTimePriority` → `Orders`, `AtomicBook` | what a book promises, one fill at a time | abstract |
| `AtomicBook` → `Orders` | what callers see: one step per call | abstract; used by `ServedBook` |
| `LinkedLevels` → `OrderBook` | `pushBack`, `unlink` and who calls them: the pointers of each level's list | one step per step of `OrderBook` |
| `BookRegistry` | `bookFor` | one step per lock operation |
| `TradeStream` | `broadcastTrades`, `StreamMarketData` | one step per offered event |
| `ServedBook` → `AtomicBook` | the book of a symbol as others act on it | shared by `MarketServer` and `TradingFloor` |
| `MarketServer` → `ServedBook` | `SubmitOrder`, `CancelOrder`, publication | composes the book with concurrent handlers |
| `Relay` | what dashboards may count on from the bridge | abstract; the interface of the next two |
| `Bridge` → `Relay` | `bridge/main.py` | one step from await to await; implements `Relay` |
| `Dashboard` → `Relay` | `useMarketSocket.ts`, `toCandles` | one step per event handler; the other end takes the steps of `Relay` |
| `NewsStore` | `chroma.py`, the query of `NewsAgent` | operators; no state; a query's answer is a set of places in the ranking |
| `Strategies` → `Orders`, `NewsStore` | what `decide`, `_mid_price`, `place_limit_order` and `_publish_thought` compute | operators; no state |
| `TradingFloor` → `Strategies`, `ServedBook` | the loops of `agents/*.py` over a book, and `main` | one step per await |
| `DataLemmas` | - | what finite sums, listings, integer division and the like do: lemmas for the next |
| `OrderBookProofs` (with `LinkedLevels`), `GrpcServerProofs` (`BookRegistry` and `TradeStream`), `ServedBookProofs`, `MarketServerProofs`, `BridgeProofs` (with `Relay`), `DashboardProofs`, `TradingFloorProofs` | - | proofs |
| `MCRequests`, `MCOrderBook`, `MCMarketServer`, `MCBridge`, `MCDashboard`, `MCTradingFloor` | - | TLC instances |

### The book: four views

`OrderBook` keeps what the code keeps. `levels[Buy]` and `levels[Sell]` are
`ob.bids` and `ob.asks`, `prices` the two sorted slices, `orders` the id index; a
level is its queue (a sequence, `count` as its length) and its running `volume` with int64 wrap-around (`Wrap`, width `2 * HalfWord`).
An element of `Order` is one `*Order` struct, so the same id may be used by
several. `ob.mu` is `taker`: `Accept` takes the lock, each `Fill` is one iteration
of `matchLevel` (the level and its price leave in the same step when the queue
empties, as nothing else can run in between), `Finish` rests or drops the
remainder and releases the lock. `CancelOrder` is one step. Timestamps are ranks
of acceptance (`clock`), since they are taken under the lock. The readers
(`GetDepth`, `BestBid`, `BestAsk`) are state functions.

`PriceTimePriority` has a *set* of resting orders; a fill is with the best
counterparty. `AtomicBook` has no lock and no loop: what each resting order gives
to an incoming one is a closed form. `OrderBook` implements both, by proofs
(`Refinement`, `AtomicRefinement`).

`LinkedLevels` goes the other way: next to the sequences it keeps the pointers as
the code does, `prev`, `next` and `level` in each struct (`link`), `head`, `tail` and
`count` in each level (`ends`), and every step of `OrderBook` also does to them what
`pushBack` and `unlink` do. `LinksFaithful` says that the pointers spell the sequences.
It is the specification the run `book` checks, so all of the book's properties are
checked with the pointers in place.

### The server

In `MarketServer` a call of `Order` (a `SubmitOrder`) goes `idle` → (`Execute`, one
`AtomicBook` step) `broadcast` → `trades`, once per trade → (`TakeDepth`) `publish` →
`answer` → `answered`; one of `Canceller` joins at `depth`. Between any two steps
other handlers run. A publication fails when Redis does (`RedisMayFail`) or when
the request context is cancelled (`GiveUp`); the code logs and goes on. The read
of `order.Quantity` in the answer is outside the lock while other handlers may
fill that order: a data race, so `QuantityReads` is the set of all values it had
since its own matching ended.

`TradeStream` refines `Broadcast`'s single step to one step per event and client;
`BookRegistry` the choice of the book. Their locks are independent of each other
and of the book's (no code path holds two), which is why they are modelled apart.

### The bridge

`Bridge` has the Python semantics that matter: a run between two awaits is
atomic; a set iteration raises `RuntimeError` when the set's *size* differs from
the one at its start, and if a connection left and another joined meanwhile it
goes on over a table that may have been rehashed, so which members it still
meets is open (`Connect` chooses `todo` anew). A connection is `open`, `broken`
(nobody noticed), `closed` (its endpoint saw `WebSocketDisconnect`) or `orphan` (its
endpoint ended by another exception and left it in the set).

`Relay` is what is left of it at the other end of a WebSocket: messages are taken in
order, some are passed over, and each connection may be sent the current one, or
not, or again (a loop that goes on over a rehashed table may meet a client twice).
`ImplementsRelay` says that the bridge does just that, with `members` the connections
that are up and `wire` what each was sent. What the other end does to a wire is in
`Relay` too: it reads, or is closing and discards what comes, or is gone.

### The dashboard

A run of the hook's effect has a number; `cancelled` of run *e* is `effect # e`, and
`timer` holds the runs whose reconnect timer is pending. StrictMode (and hot
reloading) cleans an effect up and runs it again in one step while React keeps
the state and the ref: `Remount`. Each `sockets[i]` is one `WebSocket` with its ready
state, whether the bridge has it, and what is on its way to it. A browser
delivers nothing to a socket that is closing, so what is on its wire is lost, as
is what a drop leaves there. What the bridge does are the steps of `Relay`: `Joined`,
`Forward` and `Deliver` conjoin them, so that the dashboard is checked against every
bridge that implements `Relay`, not against a friendly one. `ReadsRelay` closes the
circle: what the hook itself does to sockets and wires is what `Relay` lets the
other end do. It is no property of a run, only a theorem (`HookFitsRelay`). Messages are named by their place in `feed`; `seen` is a
history of what was reduced, for the properties only. `ToCandles` is the candle
aggregation as a fold.

### The trading floor

The agents of one symbol, as `run_agents.py` spawns them, over `AtomicBook`. A tick is
`PerceiveTrend` or `PerceiveNews` (the depth read, then the news query, which depends on
nothing that changes, then decide), then `Execute` or `Refused` at the server, then
`Think`. A tick may fail at either end of its RPC (`CallFails`) or at the publication
(`ThinkFails`); one that fails in the depth read or the query has changed nothing.
`silent` keeps the orders that were executed but never told of. Other clients place
and cancel orders (`Outside`, `OutsideCancel`), and the server may crash and come back
with an empty book (`ServerRestarts`), while the agents' windows stay. `main` goes
through `gather`, the closing of the Redis client and that of the `MarketClient`
(`Proceeds`); `gather` also ends when a loop dies, which no loop does, since
`run_agent_loop` catches what a tick raises (`AfterFailure`).

Mids are doubled and averages multiplied out, so no fraction appears. The news
store is any collection of `StoredNews` with the six headlines written over it; the
order in which it ranks them is one of `Ranking`, which the embedding decides and
nothing changes. An order id is fresh but for eight random digits: `ID` has one id per
agent, so that the collision with an order that still rests (`Refused`) happens.

## Runs

Model values stand for orders, ids and connections; ids are enough for all
orders of an instance to rest at once unless said otherwise.

| Run | Instance | Shows |
|---|---|---|
| `book` | `LinkedLevels` with 3 orders of all kinds (limit, market, each invalid kind), 3 ids, 3 prices, quantities 1-2, depth of 1 level | the structures agree (`BookConsistent`, `LinksFaithful`, `VolumeIsSum`), `Uncrossed`, `FifoLevels`, `FilledExactly`, `DepthFaithful`, `GoneForGood`, `MatchingBounded`, both refinements |
| `registry` | concurrent calls, 2 symbols | exclusion (`RegistryInv`), one book, every call returns |
| `trade_stream` | 2 batches of 0-2 trades, 2 streams, channels of 2 | order, gaps, batches, no stall, clean-up |
| `server` | 3 orders, 1 cancel, 2 in flight, clients that give up, failing Redis | every trade once and in order, a failed publication takes nothing else with it, the current depth is published, answers never overstate |
| `stale_depth` | 2 in flight | **violation** of `LastDepthIsCurrent` |
| `stale_remainder` | 2 in flight | **violation** of `AnswerAddsUp` |
| `lost_trades` | a client that gives up, healthy Redis | **violation** of `TradesPublished` |
| `bridge` | 3 connections, 2 messages, failing Redis | order and membership (`ForwardInv`), delivery, liveness of the listener, `ImplementsRelay` |
| `dashboard` | 3 sockets, 2 runs of the effect, 3 messages of 5 kinds, 3 deliveries | one connection, order, indicator, candles, reconnection, whatever `Relay` allows |
| `floor` | 1 momentum and 2 news agents, 1 other client, 3 orders, 2 ticks each, 1 restart, 3 collections | prices, sides and trades of agents; thoughts tell the truth |
| `floor_stops` | the same agents alone, 2 orders, a signal at any time | the end of the process: in order, and reached |
| `listener_dies` | 2 connections, 1 message | **violation** of `ListenerRuns` |

Why the bounds are enough to be interesting. Three orders make a sweep over two
makers, of one level or of two, with a remainder that rests, and an id used
again; three prices and a one-level listing separate `DepthLevels` from the
totals. With channels of two events and up to four trades a stream lags, drops
and catches up. Two handlers in flight are all a race between handlers needs;
three orders let a batch hold two trades. Three connections let one leave and
another join while a third is being sent to. `MaxInFlight`, `MaxTrades`,
`SubscriberBuffer`, `MaxMessages`, `MaxDeliveries`, `MaxDepthLevels`, `MaxSockets`,
`MaxEffects`, `MaxTicks` and `MaxRestarts` are bounds of the instances. In `book` an int64 is as narrow as -4..3 (`HalfWord = 4`), so
that the volume of a level of two or three orders wraps. Three sockets let the
hook drop and remount in either order; three messages fill a candle whose high
is neither its open nor its close and cut the list of thoughts, and trades arrive
with any stamps; three deliveries let a message come twice and another be missed.
Two ticks are what a momentum agent with a window of one needs to act. Three
collections give two readers with different lookbacks the same side, opposite
sides, and none, and one holds a headline without a score; the ranking puts
headlines of other symbols first.

`CHECK_DEADLOCK FALSE` is set where the system may stop: all calls answered, the
application shut down.

**Fairness.** `BookRegistry`: every call that can step does, the Go scheduler being fair
and `RWMutex` keeping new readers out once a writer waits. `TradeStream`: producers and
streams whose client is gone run on; *nothing* is assumed of a connected client, it
may never read. `Bridge`: the loop runs every ready task and `send_text` ends, since
uvicorn's keepalive breaks a connection that stops reading; browsers owe nothing.
`Dashboard`: timers expire, close handshakes end, and the bridge accepts connections at
the latest at attempt `MaxSockets`, which is not dropped (`Due`); no fairness for what
the bridge sends. `TradingFloor`: what a tick has begun ends, by an answer or an
exception (`EndTick`), a sleeping loop wakes up and looks at the event (`Leave`), and
`main` runs on. This leaves out a server that hangs without closing its connection:
no call has a deadline, and such a server does stop the agents for ever. `OrderBook`
needs no fairness: that its loops end is the action property `MatchingBounded`, by
which each step while the lock is held fills some of a finite quantity or is the
last. `MarketServer` is checked for safety only.

### What the passing runs say that one might not expect

* `VolumeIsSum` is an equality of int64 values: nothing bounds the sum of the
  quantities of a level, so `Volume` and the totals of a depth wrap when it passes
  2^63 - 1, and come back when the level shrinks.
* `AnchoredMarket`: with agents alone nothing ever trades but between two news agents
  that read the headlines in opposite ways. `run_agents.py` spawns one news agent per
  symbol, so it never produces a trade without another client: its orders pile up
  at the reference price, the mid stays there, and momentum agents always hold. A
  restart of the server does not change that.
* `OneSidedReaders`: the side of a news agent follows from the store, its ranking and
  its thresholds alone, none of which changes, so it buys for ever or sells for ever;
  and never against every headline about its own symbol.
* `ImplementsRelay` allows a message twice on one connection: a client leaves and
  another joins during a send, the sizes agree, and the iteration may meet a member
  it already met. `ShownIsLatest` says what the dashboard does then: it shows the
  trade or thought twice.
* `IndicatorHonest` says how far the LIVE indicator can be trusted, and no more: the
  close event of a superseded socket may come after the open event of its
  successor, and then DISCONNECTED stays over a live connection.
* `ThoughtsTrue` allows for `silent` orders: when the answer is lost an order rests that
  the feed never shows, and the next tick may place another.

### What the violations say

* `LastDepthIsCurrent` (`events.go:78`): of two concurrent handlers the one with the
  older snapshot may publish last, and dashboards show it until the next change.
  What does hold is `CurrentDepthPublished`: the right one was published too.
* `AnswerAddsUp` (`market.proto:50`): the remainder in an answer may miss quantity
  that its trades do not account for. `AnswersNeverOverstate` is what is left.
* `TradesPublished` (`events.go:50`): a client that goes away takes the publication
  of trades that did happen with it. `EveryTradeOnce` says nothing else is lost.
* `ListenerRuns` (`bridge/main.py:59`): one browser that connects or leaves while a
  message is being sent ends the forwarding for all, and `/healthz` stays green.

## Proofs

For any set of orders, ids and requests, any prices and quantities below the
integer width, any listing depth:

| Theorem | States |
|---|---|
| `Invariance` | `Spec => []IInv` of `OrderBook` |
| `TypeCorrect`, `Consistent`, `NeverCrossed`, `TimePriority` | its parts `TypeOK`, `BookConsistent`, `Uncrossed`, `FifoLevels` |
| `Refinement`, `AtomicRefinement` | `Spec => ImplementsPriceTimePriority` and `Spec => ImplementsAtomicBook` |
| `GoneIsForever`, `MatchingEnds` | `Spec => GoneForGood`, `Spec => MatchingBounded` |
| `TradesAccountForOrders`, `VolumesAddUp`, `DepthIsFaithful` | `Spec => []FilledExactly`, `[]VolumeIsSum`, `[]DepthFaithful` of `OrderBook` |
| `LinksAlwaysFaithful`, `LinkedIsBook` | `LSpec => []LinksFaithful`; `LSpec => Spec`, so all of the above hold with the pointers |
| `RegistryInvariance`, `AllCallsAgree`, `MapRaceFree`, `BooksStay` | `bookFor`'s invariant and what follows: one book, exclusive access (`Exclusive`), no book replaced (`BookForLife`) |
| `StreamTypeCorrect`, `ReceivedInOrder`, `NoGapUnlessDropped`, `BatchesAreWhole` | `TypeOK`, `InOrderOnce`, `GaplessUnlessDropped` and `BatchesWhole` of `TradeStream` |
| `ServerInvariance` | `Spec => []ServerInv` of `MarketServer` |
| `ServerTypeCorrect`, `TradesOnce`, `TradesInOrder`, `CurrentDepthIsOut`, `AnswersSound` | `TypeOK`, `EveryTradeOnce`, `OwnTradesInOrder`, `CurrentDepthPublished` and `AnswersNeverOverstate` of `MarketServer` |
| `Forwards`, `BridgeIsRelay`, `CalmReachesAll` | `Spec => []ForwardInv`, `Spec => ImplementsRelay` and `Spec => []CalmBroadcastsReachAll` of `Bridge` |
| `RelayOrdered`, `BrowsersInOrder` | `Spec => []Ordered` of `Relay`, and of `Bridge` by the refinement |
| `Connected`, `IndicatorIsHonest`, `LatestIsShown`, `CandlesAreFaithful` | `Spec => []ConnectionInv`, `[]IndicatorHonest`, `[]ShownIsLatest` and `[]CandlesFaithful` of `Dashboard` |
| `HookFitsRelay` | `Spec => ReadsRelay`: `Dashboard` implements `Relay`, as its other end |
| `EndsInOrder`, `FloorTypeCorrect` | `Spec => []OrderlyEnd` and `Spec => []TypeOK` of `TradingFloor` |
| `AlikeAlwaysAgree`, `ReadersOneSided` | `Spec => []AlikeAgree`, and with the news `Spec => []OneSidedReaders` |
| `MarketIsAnchored` | `Spec => []AnchoredMarket`: what agents alone can and cannot do |
| `ThoughtsAreTrue` | `Spec => []ThoughtsTrue`: the feed, whatever fails and restarts |

`MarketServer` has any number of calls and of handlers in flight, whatever
fails. Those of `TradeStream`, `Bridge`, `Relay`, `Dashboard` and `TradingFloor` hold for
any number of streams, batches, connections, messages, sockets, agents, headlines
and failures, and any length of the channels and lists.

The assumptions are the named ones of the modules: `None` is no order, the empty
id is no id, requests are of the code's shape and fit an int64, the other client's
ids are not the agents'. `FloorAssumption` also says of `None`, which stands for
Python's, that it is no side, intent, answer or told order, of `Unscored` that it is no
score, and that what is stored is scored or `Unscored`.

**The argument.** `BookConsistent` alone is not inductive. A fill touches the head of
the best level; that the index entry it deletes is that order's needs the index
and the queues to determine each other, and that `RemoveSorted` finds its price
needs the slices to be sorted. `Uncrossed` survives `Finish` only because the
remainder rests when nothing crosses it any more, which reads "the best price
does not cross, so no price does" off the sorted slice. `FifoLevels` survives a
rest because the newcomer's stamp is the clock, which bounds all others
(`StampsOK`). So `IInv` is their conjunction with `TypeOK` and `StampsOK`, and each
action has a lemma that preserves it. The refinement then needs one fact: under
`IInv` the head of the queue of the first price is `IsBest` among the
counterparties. The first part of `OrderBookProofs` has what the sequence and slice
operators do (insertion and removal keep a slice sorted and change its range by
one price, removal of the first occurrence keeps the rest in order).

The step to `AtomicBook` takes a whole call at once, so it needs to say what the
trades of a call under way have in common (`MatchInv`, inductive with `IInv` and
`FillsInv`): they are the last on the tape, in the order of priority of their makers;
nothing is left of each maker, or nothing of the order itself; and whoever else the
order could still trade with has less priority than those makers. When the lock is released
nothing else crosses or nothing is left, and the closed form follows: a run that takes
in turn from a list takes from each what those ahead of it leave (`TakesInTurn`,
`ClosedForm`), and the list of makers is the only one in that order (`OneListing`), so
that it is the one `Makers` chooses. `FinishIsProcess` puts this together; every
other step of a call is invisible through the lock.

`VolumeIsSum` is an equality of wrapped values, so each of the three deltas must be
exact up to the width: `Wrap` of a sum is the `Wrap` of the sum of wrapped values, and
one order more, less or smaller changes the sum of a queue by just its quantity.
`FilledExactly` needs the fills listed so far to be finite in number and to concern
only orders the book has (`FillsInv`). `DepthFaithful` reads the listing off the sorted
slice: its n-th level is the one with n - 1 better ones, and the totals sum the
levels' volumes where the slice sums the levels.

The sums are folds over finite sets, and what a fold computes is usually shown by
an induction over the set. `DataLemmas` does it with a least counterexample instead,
which the provers can follow: a sum is unfolded at the element the fold chooses
first (`SumWithoutChosen`), and a smallest set for which a claim fails would fail for
the set without that element too. `SumSplits`, `SumOfUnion` and their like follow.

In `TradeStream` what a client received, what it is being sent and what waits in its
channel are one sequence (`Joined`). `FanoutInv` says that no event is in
the log twice and that the log ends with the batch under way, as far as it has
come. `Keeps` says of the sequence that its events are of the log after the client
registered, in the log's order, and that without a drop it is the log from there
on, but for the event still on offer.

`ServerInv` of `MarketServer` has a part for each structure: `BookInv` (the orders, the
tape and the ids of its trades, which are its places), `HandlersInv` (where each
handler stands), `HeldInv` (an order's batch is trades of the tape, in its order, and every
trade of the tape is in the batch of its taker), `StreamInv` and `RedisInv` (what is sent is
what no handler still holds), `SnapshotInv` (while some call reached the book, the
current depth is published, lost, held by a handler that publishes it next, or yet
to be read by one). `EveryTradeOnce` needs all but the last. `AnswersNeverOverstate`
rests on `SoldInv`, by which what is left of an order is what was asked less its
fills on the whole tape: an answer reads the quantity late, and later fills only
lower it.

`OneConnection` of the dashboard is not inductive either: that the close event of a
socket sets no second timer needs `ClosingIsPast`, that a socket the hook closes is
always of a run it has cancelled, which needs the runs to be numbered upwards. `IndicatorHonest` is inductive under it:
the indicator says LIVE only over an open socket or while another is closing. `ShownIsLatest` is two arguments: on every
wire the messages are in order and none is behind one already shown, a new socket
starting behind them all because what the relay forwards next is later (`WiresInv`);
and `Prepend` keeps a list the newest first of what was shown (`ShownInv`).

`CandlesFaithful` follows from those two by what `ToCandles` computes for any list. Its
loop is a fold, seen turn by turn (`LoopTurns`); its invariant is `BucketsTell`: there is
a bucket for every interval with a trade so far, which opens with the first, closes
with the last and spans them all. A turn that adds a trade keeps it (`TurnTells`), and
the buckets have one listing by time, since no two have the same. `ReadsRelay` needs only that
sockets are no more than `MaxSockets`.

`LinksFaithful` needs `IInv` beside it (`LInv`): unlinking an order gives the pointers of
the queue without it only because the order is on that queue once, on no other,
and where its side and price say. The heart is `UnlinkSpells`, for the n-th order of
a queue and any pointers that spell it (`Spells`): by cases on where another order
stands to it - before, just before, just after, further on - its pointers are those
of the shorter queue. `SpellsStill` covers all other levels: one whose orders'
pointers are untouched still spells its queue.

`ForwardInv` of the bridge is inductive as it stands: that every connection that is
up stays a member survives `Finish` because the list of dead holds none that is
up. Under it a step maps to a step of `Relay`: the members are the connections that
are up, so one that breaks leaves there, `Receive` takes a later message because the
inbox is in order (`InOrder`), and only `SendReturns` puts anything on a wire. That no
browser gets an older message after a newer one is then `RelayOrdered`. For `CalmBroadcastsReachAll` the wires are counted (`ReceiptInv`): in a calm
broadcast the members are those still to do, the target, the dead and those whose
wire has the message once.

What an `AtomicBook` keeps whoever calls it (`BookInv`: stamps are unique and bounded
by the clock, what rests is left of, the tape's ids are its places) and what an order
does to the tape are the lemmas of `ServedBookProofs`, which the proofs about handlers
and about agents share.

`OrderlyEnd` needs to know that only an agent within a tick has an intent (`EndInv`):
else a failure could bring back an agent that has left. With `BookInv`, and with `TickInv`
- `TypeOK`, and that whoever has an answer has the intent it answers - that is
`FloorInv`, which all other arguments about the floor rest on:

* `AlikeAgree` follows from a stronger fact, that every order and every intent of a
  news agent has the side `Reading` gives, together with the constancy of the store
  (`SideInv`). For the second part of `OneSidedReaders`, an average that is at least
  a threshold is an average of some score that is (`AverageOfHeadlines`, from `SumAtMost`
  and `SumAtLeast`), and the scored headlines of the query are about the symbol
  (`ReadingFounded`).
* `AnchoredMarket` says nothing of what momentum agents remember or news agents are
  about to send, so it is not inductive. `CalmInv` adds both: every mid in every
  window is the reference price, every intent is at that price, and what rests is on
  one side. A book like that has that mid (`CalmQuotes`), a window of one value shows
  no trend (`NoTrend`), and an order that finds the other side takes all of it before it rests
  (`OneSideRests`). The trades come with `TapeInv`, that maker and taker are of
  opposite sides, and `SideInv`: alike readers are never on opposite sides.
* `ThoughtsTrue` counts. `ToldInv` is its first half for answers in hand as well as
  for thoughts, and that no struct is both refused and booked; an order's fills as
  taker never change after the step that processed it, since later trades have later
  takers (`FillsKept`, `FillsCounted`). `CountInv` allows an order for each tick but the one
  that is yet to act. `OnceInv` says that an order is in exactly one of three places: in
  its owner's hand, silent, or in one thought; a new thought is about the answer in
  hand, which leaves the hand in the same step.

A restart changes none of this: `ord`, the tape and what agents hold stay, and of
`resting` only less is asked.

**Only model-checked.** Liveness, which the prover does not do: `EveryCallReturns`,
`NeverStalled`, `GoneAreForgotten`, `Drains`, `Reconnects` and `StopEnds`. Every invariant of a passing run is a theorem, and
so is every action property and every refinement.

## Not modelled

The wording of errors and logs, JSON and protobuf field copying, string forms of
trade ids, wall-clock time beyond the order of acceptance, the nil publisher and
the agent without a Redis client, `/healthz`, start-up of the server process, the
generated code of the wire contract, which carries fields and decides nothing. The
distances by which ChromaDB ranks headlines (`Ranking` is any order), the agents'
unused `cancel_order` and `stream_trades`, a peer that hangs for ever, messages that do
not parse, and all rendering but the candles.

## Plan

Done: the book with its pointers and its two abstractions, the registry, trade
stream and server, the bridge, its abstraction and the dashboard composed with
it, news store, strategies and trading floor, all with proofs of their safety
properties.

Left, in this order:

1. `MarketServer` composed with `Bridge`: what reaches Redis in the one is what the
   other publishes, so that `LastDepthIsCurrent` can be asked of the dashboard.
2. Two symbols on one server: that handlers of different symbols share only the
   stream and the registry is argued here, not modelled.
