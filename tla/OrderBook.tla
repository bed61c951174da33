------------------------------ MODULE OrderBook ------------------------------
(***************************************************************************)
(* engine/orderbook.go: the single-symbol limit order book, with the data  *)
(* structures the code keeps - a map and a sorted price slice per side, a  *)
(* FIFO queue and a running volume per price level, an index by order id - *)
(* and the steps of ProcessOrder under ob.mu: acceptance, one fill per     *)
(* iteration of matchLevel, and the rest of the order.                     *)
(*                                                                         *)
(* ob.mu is the variable taker: it names the struct whose ProcessOrder     *)
(* holds the write lock.  CancelOrder and the readers run only when it is  *)
(* None, and are then one step.                                            *)
(***************************************************************************)
EXTENDS Orders, Sequences, FiniteSets, SequencesExt

CONSTANTS
  MaxDepthLevels,  \* maxDepthLevels
  HalfWord         \* 2^63: an int64 is in -HalfWord .. HalfWord-1

ASSUME BookAssumption ==
  /\ MaxDepthLevels \in Nat
  /\ HalfWord \in Nat \ {0}
  /\ \A r \in Request : r.price < HalfWord /\ r.quantity < HalfWord

VARIABLES
  ord,      \* the structs the book accepted, as ProcessOrder mutates them
  refused,  \* the structs ProcessOrder returned an error for
  levels,   \* levels[Buy] is ob.bids and levels[Sell] is ob.asks
  prices,   \* prices[Buy] is ob.bidPrices and prices[Sell] is ob.askPrices
  orders,   \* ob.orders
  taker,    \* the struct whose ProcessOrder holds ob.mu, or None
  tape,     \* every trade executed so far; ob.tradeSeq is Len(tape)
  clock     \* the source of Timestamps: number of accepted orders

vars == <<ord, refused, levels, prices, orders, taker, tape, clock>>

-----------------------------------------------------------------------------
(* PriceLevel.  The intrusive list is a sequence here, and count its length. *)

\* int64 addition wraps around.
Wrap(n) == ((n + HalfWord) % (2 * HalfWord)) - HalfWord

NewPriceLevel == [queue |-> <<>>, volume |-> 0]

\* Mutant of PushBack: the newcomer goes to the front of the level.
PushFront(l, o, quantity) ==
  [queue |-> <<o>> \o l.queue, volume |-> Wrap(l.volume + quantity)]

PushBack(l, o, quantity) ==
  [queue |-> Append(l.queue, o), volume |-> Wrap(l.volume + quantity)]

\* The level after a fill of quantity that its head survives.
Reduce(l, quantity) == [l EXCEPT !.volume = Wrap(@ - quantity)]

\* Mutant of Unlink: the volume stays.
UnlinkKeepingVolume(l, o, quantity) ==
  [queue |-> RemoveFirst(l.queue, o), volume |-> l.volume]

\* The level after o leaves it, by a fill or a cancel of quantity.
Unlink(l, o, quantity) ==
  [queue |-> RemoveFirst(l.queue, o), volume |-> Wrap(l.volume - quantity)]

(* The sorted price slices. *)

\* sort.Search: the first index whose price does not precede p.
SearchInsertIdx(s, ps, p) ==
  CHOOSE i \in 1 .. Len(ps) + 1 :
    /\ \A j \in 1 .. i - 1 : Precedes(s, ps[j], p)
    /\ i <= Len(ps) => ~Precedes(s, ps[i], p)

\* Mutant of InsertSorted: the new price goes last.
InsertSortedLast(s, ps, p) == Append(ps, p)

InsertSorted(s, ps, p) == InsertAt(ps, SearchInsertIdx(s, ps, p), p)

RemoveSorted(s, ps, p) ==
  LET i == SearchInsertIdx(s, ps, p)
  IN IF i > Len(ps) \/ ps[i] # p THEN ps ELSE RemoveAt(ps, i)

-----------------------------------------------------------------------------
Init ==
  /\ ord = EmptyMap
  /\ refused = {}
  /\ levels = [s \in Side |-> EmptyMap]
  /\ prices = [s \in Side |-> <<>>]
  /\ orders = EmptyMap
  /\ taker = None
  /\ tape = <<>>
  /\ clock = 0

\* Mutant of IsNew: structs that left the book are taken for new requests.
IsNewFromPool(o) == o \notin Range(orders) \cup refused \cup {taker}

IsNew(o) == o \notin DOMAIN ord \cup refused

\* ProcessOrder returns an error: validation needs no lock, the duplicate
\* check does.
Refuse(o, r) ==
  /\ IsNew(o)
  /\ ~Valid(r) \/ (taker = None /\ r.id \in DOMAIN orders)
  /\ refused' = refused \cup {o}
  /\ UNCHANGED <<ord, levels, prices, orders, taker, tape, clock>>

\* ProcessOrder takes the lock, stamps the order and starts matching it.
Accept(o, r) ==
  /\ IsNew(o)
  /\ Valid(r)
  /\ taker = None
  /\ r.id \notin DOMAIN orders
  /\ clock' = clock + 1
  /\ ord' = Put(ord, o, Accepted(r, clock + 1))
  /\ taker' = o
  /\ UNCHANGED <<refused, levels, prices, orders, tape>>

\* o leaves its level by quantity; an emptied level leaves the map, and
\* shorter is what then remains of the price slice.
TakeOff(o, quantity, shorter) ==
  LET s == ord[o].side
      p == ord[o].price
      l == Unlink(levels[s][p], o, quantity)
  IN /\ orders' = Delete(orders, ord[o].id)
     /\ levels' = [levels EXCEPT ![s] = IF l.queue = <<>> THEN Delete(@, p)
                                        ELSE Put(@, p, l)]
     /\ prices' = [prices EXCEPT ![s] = IF l.queue = <<>> THEN shorter ELSE @]

\* The guards of the loops of match and matchLevel.
CanMatch ==
  LET s == Opposite(ord[taker].side)
  IN /\ ord[taker].quantity > 0
     /\ prices[s] # <<>>
     /\ Accepts(ord[taker], Head(prices[s]))

\* Mutant of NewTrade: the trade reports all the taker still wanted.
NewTradeOfDemand(m, p, q) ==
  [id |-> Len(tape) + 1, maker |-> m, taker |-> taker, price |-> p,
   quantity |-> ord[taker].quantity]

NewTrade(m, p, q) ==
  [id |-> Len(tape) + 1, maker |-> m, taker |-> taker, price |-> p, quantity |-> q]

\* One iteration of matchLevel: the taker and the head of the best level.
Fill ==
  LET s == Opposite(ord[taker].side)
      p == Head(prices[s])
      m == Head(levels[s][p].queue)
      q == Lesser(ord[taker].quantity, ord[m].quantity)
  IN /\ taker # None
     /\ CanMatch
     /\ ord' = [ord EXCEPT ![taker].quantity = @ - q, ![m].quantity = @ - q]
     /\ tape' = Append(tape, NewTrade(m, p, q))
     /\ \/ /\ ord[m].quantity = q
           /\ TakeOff(m, q, Tail(prices[s]))
        \/ /\ ord[m].quantity # q
           /\ levels' = [levels EXCEPT ![s] = Put(@, p, Reduce(@[p], q))]
           /\ UNCHANGED <<prices, orders>>
     /\ UNCHANGED <<refused, taker, clock>>

AddToBook(o) ==
  LET s == ord[o].side
      p == ord[o].price
      known == p \in DOMAIN levels[s]
      l == IF known THEN levels[s][p] ELSE NewPriceLevel
  IN /\ levels' = [levels EXCEPT ![s] = Put(@, p, PushBack(l, o, ord[o].quantity))]
     /\ prices' = [prices EXCEPT ![s] = IF known THEN @ ELSE InsertSorted(s, @, p)]
     /\ orders' = Put(orders, ord[o].id, o)

\* Matching is over: a limit remainder rests, a market remainder is dropped,
\* and ProcessOrder releases the lock.
Finish ==
  /\ taker # None
  /\ ~CanMatch
  /\ \/ /\ ord[taker].quantity > 0 /\ ord[taker].type = Limit
        /\ AddToBook(taker)
     \/ /\ ~(ord[taker].quantity > 0 /\ ord[taker].type = Limit)
        /\ UNCHANGED <<levels, prices, orders>>
  /\ taker' = None
  /\ UNCHANGED <<ord, refused, tape, clock>>

\* CancelOrder: TRUE with the order taken off, or FALSE and nothing changed.
CancelOrder(id) ==
  /\ taker = None
  /\ \/ /\ id \in DOMAIN orders
        /\ LET o == orders[id]
           IN TakeOff(o, ord[o].quantity,
                      RemoveSorted(ord[o].side, prices[ord[o].side], ord[o].price))
        /\ UNCHANGED <<ord, refused, taker, tape, clock>>
     \/ /\ id \notin DOMAIN orders
        /\ UNCHANGED vars

Next ==
  \/ \E o \in Order, r \in Request : Refuse(o, r) \/ Accept(o, r)
  \/ Fill
  \/ Finish
  \/ \E id \in ID : CancelOrder(id)

Spec == Init /\ [][Next]_vars

-----------------------------------------------------------------------------
(* What the readers return; they take the read lock, so taker is None. *)

BestPrice(s) == IF prices[s] = <<>> THEN None ELSE Head(prices[s])

DepthLevels(s) ==
  [i \in 1 .. Lesser(MaxDepthLevels, Len(prices[s])) |->
     LET l == levels[s][prices[s][i]]
     IN [price |-> prices[s][i], volume |-> l.volume, count |-> Len(l.queue)]]

\* The running volumes of a side, in the order of its slice.
Volumes(s) == [i \in DOMAIN prices[s] |-> levels[s][prices[s][i]].volume]

\* Mutant of TotalVolume: the loop stops where the listing does.
TotalVolumeOfTop(s) ==
  Wrap(SumFunctionOnSet(Volumes(s), 1 .. Lesser(MaxDepthLevels, Len(prices[s]))))

TotalVolume(s) == Wrap(SumFunctionOnSet(Volumes(s), DOMAIN prices[s]))

-----------------------------------------------------------------------------
(* Types. *)

PriceLevel == [queue : Seq(Order), volume : Int]

PriceRange == Nat \ {0}

\* Every variable has the shape the code's fields have.
TypeOK ==
  /\ DOMAIN ord \subseteq Order
  /\ ord \in [DOMAIN ord -> OrderRec]
  /\ refused \subseteq Order
  /\ DOMAIN levels = Side
  /\ \A s \in Side : /\ DOMAIN levels[s] \subseteq PriceRange
                     /\ levels[s] \in [DOMAIN levels[s] -> PriceLevel]
  /\ prices \in [Side -> Seq(PriceRange)]
  /\ DOMAIN orders \subseteq ID
  /\ orders \in [DOMAIN orders -> DOMAIN ord]
  /\ taker \in DOMAIN ord \cup {None}
  /\ tape \in Seq(Trade)
  /\ clock \in Nat

(* Safety. *)

Queue(s, p) == levels[s][p].queue

\* The price slice of a side lists, best first and once each, exactly the
\* prices its map has a level for (match reads the slice and looks the map up
\* without a check; removeSorted does nothing on a price it cannot find).
SlicesMatchMaps ==
  \A s \in Side :
    /\ DOMAIN levels[s] = Range(prices[s])
    /\ \A i, j \in DOMAIN prices[s] :
         i < j => Precedes(s, prices[s][i], prices[s][j])

\* A level is never empty, and whatever is queued on it is a live limit order
\* of that side and price which the index finds under its id.
QueuesHoldLiveOrders ==
  \A s \in Side : \A p \in DOMAIN levels[s] :
    /\ Queue(s, p) # <<>>
    /\ \A i \in DOMAIN Queue(s, p) :
         LET o == Queue(s, p)[i]
         IN /\ ord[o].side = s /\ ord[o].price = p /\ ord[o].type = Limit
            /\ ord[o].quantity > 0
            /\ ord[o].id \in DOMAIN orders
            /\ orders[ord[o].id] = o

\* Conversely everything indexed is queued where its side and price say, so
\* CancelOrder's unlink always finds the order in the level it belongs to.
IndexedAreQueued ==
  \A id \in DOMAIN orders :
    LET o == orders[id]
    IN /\ ord[o].id = id
       /\ ord[o].price \in DOMAIN levels[ord[o].side]
       /\ \E i \in DOMAIN Queue(ord[o].side, ord[o].price) :
            Queue(ord[o].side, ord[o].price)[i] = o

\* The four structures - maps, slices, queues, index - agree after every
\* critical section and between any two fills of one.
BookConsistent == SlicesMatchMaps /\ QueuesHoldLiveOrders /\ IndexedAreQueued

\* The best bid stays below the best ask, in the middle of a match too: no
\* order ever rests at a price it could have traded at.
Uncrossed ==
  \A b \in DOMAIN levels[Buy], a \in DOMAIN levels[Sell] : b < a

\* The queue of a level is in order of acceptance (time priority).
FifoLevels ==
  \A s \in Side : \A p \in DOMAIN levels[s] :
    \A i, j \in DOMAIN Queue(s, p) :
      i < j => ord[Queue(s, p)[i]].ts < ord[Queue(s, p)[j]].ts

\* Stamps are unique and bounded by the clock; the order being matched is the
\* last one stamped and is not on the book.
StampsOK ==
  /\ \A o \in DOMAIN ord : ord[o].ts <= clock /\ ValidPrice(ord[o])
  /\ \A o, n \in DOMAIN ord : ord[o].ts = ord[n].ts => o = n
  /\ DOMAIN ord \cap refused = {}
  /\ taker # None => ord[taker].ts = clock /\ ord[taker].id \notin DOMAIN orders

\* The inductive invariant the proofs rest on.
IInv == TypeOK /\ BookConsistent /\ Uncrossed /\ FifoLevels /\ StampsOK

Resting == Range(orders)

\* What remains of each accepted order.
Remaining == [o \in DOMAIN ord |-> ord[o].quantity]

\* PriceLevel.Volume is "sum of remaining Quantity across all orders at this
\* level" (orderbook.go:78), which fills, cancels and rests each maintain with
\* a delta of their own; a sum no int64 holds wraps, and comes back when the
\* level shrinks.
VolumeIsSum ==
  \A s \in Side : \A p \in DOMAIN levels[s] :
    levels[s][p].volume = Wrap(SumFunctionOnSet(Remaining, Range(Queue(s, p))))

\* Nothing is created or lost: an order's original quantity is what remains
\* of it plus what the tape says it traded, as taker and as maker.
FilledExactly ==
  \A o \in DOMAIN ord :
    ord[o].original = ord[o].quantity +
      SumFunctionOnSet(Quantities(tape),
                       {i \in DOMAIN tape : o \in {tape[i].maker, tape[i].taker}})

\* A depth snapshot, computed from slices and running volumes, is what the
\* resting orders themselves add up to: the best MaxDepthLevels prices in
\* order, each with its volume and count, and the total of the whole side.
DepthFaithful ==
  taker = None =>
    \A s \in Side :
      LET mine     == {o \in Resting : ord[o].side = s}
          at(p)    == {o \in mine : ord[o].price = p}
          quoted   == {ord[o].price : o \in mine}
          sumOf(S) == Wrap(SumFunctionOnSet(Remaining, S))
          top      == DepthLevels(s)
      IN /\ Len(top) = Lesser(MaxDepthLevels, Cardinality(quoted))
         /\ \A i \in DOMAIN top :
              /\ Cardinality({p \in quoted : Precedes(s, p, top[i].price)}) = i - 1
              /\ top[i].volume = sumOf(at(top[i].price))
              /\ top[i].count = Cardinality(at(top[i].price))
         /\ TotalVolume(s) = sumOf(mine)
         /\ IF mine = {} THEN BestPrice(s) = None
            ELSE /\ BestPrice(s) \in quoted
                 /\ \A p \in quoted : ~Precedes(s, p, BestPrice(s))

\* An accepted order that is neither resting nor being matched - filled,
\* cancelled, or a dropped market remainder - never trades or rests again,
\* even when its id is used again.
GoneForGood ==
  [][\A o \in DOMAIN ord :
       o # taker /\ o \notin Resting =>
         o # taker' /\ o \notin Resting' /\ ord'[o] = ord[o]]_vars

\* The loops of match and matchLevel end, whatever the order and the book: while
\* ProcessOrder holds the lock its every step fills some of what the order still
\* wants, never more than that, or is the last; others are only refused.
MatchingBounded ==
  [][taker # None =>
       \/ taker' = None
       \/ /\ taker' = taker
          /\ 0 <= ord'[taker].quantity /\ ord'[taker].quantity < ord[taker].quantity
       \/ UNCHANGED <<ord, levels, prices, orders, taker, tape, clock>>]_vars

-----------------------------------------------------------------------------
(* Refinement. *)

Abstract == INSTANCE PriceTimePriority WITH resting <- Resting

\* Every step of the book is a step of the price-time priority book: the head
\* of the queue of the first price is the best counterparty there is.
ImplementsPriceTimePriority == Abstract!Spec

\* Seen through the lock, a whole ProcessOrder call, loops included, is one
\* change of the book whose fills have a closed form (AtomicBook).
ImplementsAtomicBook == Abstract!ImplementsAtomicBook

=============================================================================
