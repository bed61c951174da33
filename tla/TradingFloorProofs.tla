-------------------------- MODULE TradingFloorProofs --------------------------
(***************************************************************************)
(* How the agents of a symbol deal, what their thoughts tell and how they  *)
(* end, for any number of agents, orders, ticks, headlines and crashes of  *)
(* the server.                                                             *)
(***************************************************************************)
EXTENDS TradingFloor, ServedBookProofs

-----------------------------------------------------------------------------
(* Steps. *)

\* The steps of Next.
LEMMA FloorSteps ==
  ASSUME [Next]_vars
  PROVE  \/ \E a \in Momentum : PerceiveTrend(a)
         \/ \E a \in News : PerceiveNews(a)
         \/ \E a \in Agent, id \in ID : Execute(a, id)
         \/ \E a \in Agent, id \in ID : Refused(a, id)
         \/ \E a \in Agent : EndTick(a)
         \/ \E r \in OutsiderRequest : Outside(r)
         \/ \E o \in Order : OutsideCancel(o)
         \/ ServerRestarts
         \/ (\E a \in Agent : Leave(a)) \/ Stop \/ Main \/ UNCHANGED vars
BY DEF Next, Loop, Act, Perceive, PerceiveTrend, PerceiveNews

\* As long as there are orders left the next one is new.
LEMMA FreshIsNew ==
  ASSUME OrdersLeft
  PROVE  Fresh \in Order /\ Book!IsNew(Fresh)
BY DEF OrdersLeft, Fresh

\* What _act_node sends is a request.
LEMMA RequestIsRaw ==
  ASSUME NEW id \in ID, NEW i \in Intent
  PROVE  /\ OrderRequest(id, i) \in RawRequest
         /\ OrderRequest(id, i).id = id /\ OrderRequest(id, i).side = i.side
         /\ OrderRequest(id, i).price = i.price
         /\ OrderRequest(id, i).quantity = i.quantity
         /\ OrderRequest(id, i).type = Limit
BY DEF OrderRequest, RawRequest, Intent, OrderType

-----------------------------------------------------------------------------
(* What the strategies compute. *)

\* A side's best quote is one of its quotes and none is better.
LEMMA BestIsQuoted ==
  ASSUME BookInv, NEW s \in Side
  PROVE  /\ Quotes(s) \subseteq Nat \ {0}
         /\ Quotes(s) = {} => Best(s) = None
         /\ Quotes(s) # {} => Best(s) \in Quotes(s)
<1> DEFINE at == {x \in resting : ord[x].side = s}
           R == {p \in Int \X Int : Precedes(s, p[1], p[2])}
<1>1. \A o \in resting : ord[o].price \in Nat \ {0}
  <2>1. \A o \in resting : ord[o] \in Booked /\ ord[o].price > 0
    BY DEF BookInv
  <2>2. QED
    BY <2>1 DEF Booked
<1>2. Quotes(s) \subseteq Nat \ {0}
  BY <1>1 DEF Quotes
<1>3. IsFiniteSet(Quotes(s))
  <2>1. IsFiniteSet(at)
    BY FS_Subset DEF BookInv
  <2>2. Quotes(s) = {ord[o].price : o \in at}
    BY DEF Quotes
  <2> HIDE DEF at
  <2> DEFINE f == [o \in at |-> ord[o].price]
  <2>3. f \in Surjection(at, Quotes(s))
    <3>1. \A o \in at : f[o] = ord[o].price /\ ord[o].price \in Quotes(s)
      BY <2>2
    <3>2. f \in [at -> Quotes(s)]
      BY <3>1
    <3>3. \A p \in Quotes(s) : \E o \in at : f[o] = p
      BY <2>2, <3>1
    <3> HIDE DEF f
    <3>4. QED
      BY <3>2, <3>3 DEF Surjection
  <2>4. QED
    BY <2>1, <2>3, FS_Surjection
<1>4. \A p, q \in Int : <<p, q>> \in R <=> IF s = Buy THEN p > q ELSE p < q
  BY DEF Precedes
<1>5. Arranges(R, Quotes(s))
  BY <1>2, <1>4 DEF Arranges
<1> HIDE DEF R
<1>6. ASSUME Quotes(s) # {} PROVE Best(s) \in Quotes(s)
  <2>1. PICK p \in Quotes(s) : \A q \in Quotes(s) \ {p} : <<p, q>> \in R
    BY <1>3, <1>5, <1>6, FirstElement
  <2>2. \A q \in Quotes(s) : ~Precedes(s, q, p)
    <3>1. SUFFICES ASSUME NEW q \in Quotes(s) PROVE ~Precedes(s, q, p)
      OBVIOUS
    <3>2. p \in Int /\ q \in Int
      BY <1>2
    <3>3. q = p \/ <<p, q>> \in R
      BY <2>1
    <3>4. QED
      BY <1>4, <3>2, <3>3 DEF Precedes
  <2>3. QED
    BY <1>6, <2>2 DEF Best
<1>7. QED
  BY <1>2, <1>6 DEF Best

\* What decide returns.
LEMMA IntentIsTyped ==
  ASSUME BookInv, NEW s \in Side \cup {None}
  PROVE  LET i == OrderIntent(s, Depth, ReferencePrice, OrderQuantity)
         IN /\ i \in Intent \cup {None} /\ (i # None => i.side = s)
            /\ s = None => i = None
<1>1. \A x \in Side : Best(x) = None \/ Best(x) \in Nat \ {0}
  BY BestIsQuoted
<1>2. /\ Depth.bid = None \/ Depth.bid \in Nat \ {0}
      /\ Depth.ask = None \/ Depth.ask \in Nat \ {0}
  BY <1>1 DEF Depth, MarketDepth, Side
<1>3. ReferencePrice \in Nat \ {0} /\ OrderQuantity \in Nat \ {0}
  BY FloorAssumption
<1>4. QED
  BY <1>2, <1>3 DEF OrderIntent, Intent

\* The window never holds more than its length.
LEMMA RememberIsTyped ==
  ASSUME NEW h \in Seq(Int), Len(h) <= HistoryWindow, NEW mid \in Int
  PROVE  /\ Remember(h, mid, HistoryWindow) \in Seq(Int)
         /\ Len(Remember(h, mid, HistoryWindow)) <= HistoryWindow
         /\ \A x : (\A i \in DOMAIN h : h[i] = x) /\ mid = x =>
              \A i \in DOMAIN Remember(h, mid, HistoryWindow) :
                Remember(h, mid, HistoryWindow)[i] = x
<1> DEFINE l == Append(h, mid)
<1>1. HistoryWindow \in Nat \ {0}
  BY FloorAssumption
<1>2. /\ l \in Seq(Int) /\ Len(l) = Len(h) + 1 /\ Len(h) \in Nat
      /\ DOMAIN l = 1 .. Len(h) + 1 /\ l[Len(h) + 1] = mid
      /\ \A i \in 1 .. Len(h) : l[i] = h[i]
  OBVIOUS
<1>3. Remember(h, mid, HistoryWindow) = IF Len(l) > HistoryWindow THEN Tail(l) ELSE l
  BY DEF Remember
<1> HIDE DEF l
<1>4. /\ Tail(l) \in Seq(Int) /\ Len(Tail(l)) = Len(h)
      /\ DOMAIN Tail(l) = 1 .. Len(h) /\ \A i \in 1 .. Len(h) : Tail(l)[i] = l[i + 1]
  BY <1>2, HeadTailProperties, EmptySeq
<1>5. \A x : (\A i \in DOMAIN h : h[i] = x) /\ mid = x => \A i \in DOMAIN l : l[i] = x
  BY <1>2
<1> DEFINE kept == Remember(h, mid, HistoryWindow)
<1>6. CASE Len(l) > HistoryWindow
  <2>1. kept = Tail(l)
    BY <1>3, <1>6
  <2>2. ASSUME NEW x, \A i \in DOMAIN h : h[i] = x, mid = x, NEW i \in 1 .. Len(h)
        PROVE  Tail(l)[i] = x
    <3>1. i + 1 \in DOMAIN l /\ Tail(l)[i] = l[i + 1]
      BY <1>2, <1>4
    <3>2. QED
      BY <1>5, <2>2, <3>1
  <2> HIDE DEF kept
  <2>3. /\ kept \in Seq(Int) /\ Len(kept) <= HistoryWindow
        /\ DOMAIN kept = 1 .. Len(h)
    BY <1>4, <2>1
  <2>4. \A x : (\A i \in DOMAIN h : h[i] = x) /\ mid = x => \A i \in DOMAIN kept : kept[i] = x
    BY <2>1, <2>2, <2>3
  <2>5. QED
    BY <2>3, <2>4 DEF kept
<1>7. CASE ~(Len(l) > HistoryWindow)
  <2>1. kept = l
    BY <1>3, <1>7
  <2>2. Len(kept) <= HistoryWindow
    BY <1>1, <1>2, <1>7, <2>1
  <2> HIDE DEF kept
  <2>3. QED
    BY <1>2, <1>5, <2>1, <2>2 DEF kept
<1>8. QED
  BY <1>6, <1>7

-----------------------------------------------------------------------------
(* The end. *)

\* Where agents and main may be: an agent has something to order only within a
\* tick, so no failure can find one that left.
EndInv ==
  /\ phase \in [Agent -> {"idle", "act", "answered", "left"}]
  /\ DOMAIN intent = Agent
  /\ \A a \in Agent : intent[a] # None => phase[a] \in {"act", "answered"}
  /\ OrderlyEnd

\* The initial state.
LEMMA InitEndInv == Init => EndInv
  BY DEF Init, EndInv, OrderlyEnd

\* The end of a tick: the agent is idle again.
LEMMA EndTickEndInv ==
  ASSUME EndInv, NEW a \in Agent, EndTick(a) PROVE EndInv'
<1>1. phase[a] \in {"act", "answered"}
  BY DEF EndTick, Think, CallFails, ThinkFails, Speaks, EndInv
<1>2. /\ phase' = [phase EXCEPT ![a] = "idle"]
      /\ intent' = [intent EXCEPT ![a] = None]
      /\ UNCHANGED process
  BY DEF EndTick, Think, CallFails, ThinkFails, Forget, Goto, AfterFailure
<1>3. QED
  BY <1>1, <1>2 DEF EndInv, OrderlyEnd, process

\* One step, by action.
LEMMA StepEndInv == EndInv /\ [Next]_vars => EndInv'
<1> SUFFICES ASSUME EndInv, [Next]_vars PROVE EndInv'
  OBVIOUS
<1>1. ASSUME NEW a \in Agent, Perceive(a) PROVE EndInv'
  <2>1. /\ phase[a] = "idle"
        /\ phase' = [phase EXCEPT ![a] = "act"]
        /\ DOMAIN intent' = Agent
        /\ \A b \in Agent : b # a => intent'[b] = intent[b]
        /\ UNCHANGED process
    BY <1>1 DEF Perceive, PerceiveTrend, PerceiveNews, Begins, Goto, EndInv
  <2>2. QED
    BY <2>1 DEF EndInv, OrderlyEnd, process
<1>2. ASSUME NEW a \in Agent, NEW id \in ID, Execute(a, id) \/ Refused(a, id)
      PROVE EndInv'
  <2>1. /\ phase[a] = "act"
        /\ phase' = [phase EXCEPT ![a] = "answered"]
        /\ intent' = intent
        /\ UNCHANGED process
    BY <1>2 DEF Execute, Refused, Goto
  <2>2. QED
    BY <2>1 DEF EndInv, OrderlyEnd, process
<1>3. ASSUME NEW a \in Agent, EndTick(a) PROVE EndInv'
  BY <1>3, EndTickEndInv
<1>4. ASSUME NEW a \in Agent, Leave(a) PROVE EndInv'
  <2>1. /\ phase[a] = "idle" /\ stopping
        /\ phase' = [phase EXCEPT ![a] = "left"]
        /\ intent' = intent
        /\ UNCHANGED process
    BY <1>4 DEF Leave, Goto
  <2>2. QED
    BY <2>1 DEF EndInv, OrderlyEnd, process
<1>5. CASE \/ \E r \in OutsiderRequest : Outside(r)
           \/ \E o \in Order : OutsideCancel(o)
           \/ ServerRestarts
           \/ UNCHANGED vars
  BY <1>5 DEF Outside, OutsideCancel, ServerRestarts, vars, EndInv, OrderlyEnd, process
<1>6. CASE Stop
  BY <1>6 DEF Stop, EndInv, OrderlyEnd
<1>7. CASE Main
  BY <1>7 DEF Main, Proceeds, EndInv, OrderlyEnd
<1>8. QED
  BY <1>1, <1>2, <1>3, <1>4, <1>5, <1>6, <1>7 DEF Next, Loop, Act

\* main closes the clients only after every agent left its loop, and agents
\* leave only when told to, whatever fails.
THEOREM EndsInOrder == Spec => []OrderlyEnd
<1>1. EndInv => OrderlyEnd
  BY DEF EndInv
<1>2. QED
  BY InitEndInv, StepEndInv, <1>1, PTL DEF Spec

-----------------------------------------------------------------------------
(* Types, and the book under the floor. *)

\* TypeOK with the types of what an agent holds: its answer, once it is in, is
\* to the order it has in mind.
TickInv ==
  /\ ticks \in [Agent -> 0 .. MaxTicks]
  /\ history \in [Momentum -> Seq(Int)]
  /\ \A a \in Momentum : Len(history[a]) <= HistoryWindow
  /\ intent \in [Agent -> Intent \cup {None}]
  /\ result \in [Agent -> Result \cup {None}]
  /\ \A a \in Agent :
       /\ result[a] # None <=> phase[a] = "answered"
       /\ result[a] # None =>
            intent[a] # None /\ (result[a].accepted => result[a].struct \in DOMAIN ord)
  /\ \A th \in thoughts : th.agent \in Agent
  /\ silent \subseteq DOMAIN ord
  /\ restarts \in 0 .. MaxRestarts
  /\ stopping \in BOOLEAN
  /\ main \in {"gathering", "gathered", "redis closed", "closed"}

FloorInv == BookInv /\ EndInv /\ TickInv

\* The initial state.
LEMMA InitFloorInv == Init => FloorInv
<1> SUFFICES ASSUME Init PROVE FloorInv
  OBVIOUS
<1>1. BookInv
  BY InitBookInv DEF Init
<1>2. EndInv
  BY InitEndInv
<1>3. ticks \in [Agent -> 0 .. MaxTicks] /\ restarts \in 0 .. MaxRestarts
  BY FloorAssumption DEF Init
<1>4. history = [a \in Momentum |-> <<>>] /\ HistoryWindow \in Nat
  BY FloorAssumption DEF Init
<1>5. history \in [Momentum -> Seq(Int)] /\ \A a \in Momentum : Len(history[a]) <= HistoryWindow
  BY <1>4
<1>6. QED
  BY <1>1, <1>2, <1>3, <1>5 DEF Init, FloorInv, TickInv

\* What Execute asks of the book.
LEMMA ExecuteServes ==
  ASSUME FloorInv, NEW a \in Agent, NEW id \in ID, Execute(a, id)
  PROVE  /\ Fresh \in Order /\ Fresh \notin DOMAIN ord /\ Fresh \notin refused
         /\ intent[a] \in Intent /\ intent[a] # None /\ id[1] = a
         /\ OrderRequest(id, intent[a]) \in RawRequest
         /\ Book!Process(Fresh, OrderRequest(id, intent[a]))
         /\ Outcome(Fresh, Accepted(OrderRequest(id, intent[a]), clock + 1))
<1> DEFINE r == OrderRequest(id, intent[a])
<1>1. OrdersLeft /\ intent[a] # None /\ id[1] = a /\ Book!Process(Fresh, r)
  BY DEF Execute
<1>2. Fresh \in Order /\ Fresh \notin DOMAIN ord /\ Fresh \notin refused
  BY <1>1, FreshIsNew DEF Book!IsNew
<1>3. intent[a] \in Intent
  BY <1>1 DEF FloorInv, TickInv
<1>4. r \in RawRequest
  BY <1>3, RequestIsRaw
<1>5. Book!Accepted(r, clock + 1) = Accepted(r, clock + 1)
  BY DEF Accepted, Book!Accepted
<1> HIDE DEF r
<1>6. Outcome(Fresh, Accepted(r, clock + 1))
  BY <1>1, <1>2, <1>4, <1>5, ProcessOutcome DEF FloorInv
<1>7. QED
  BY <1>1, <1>2, <1>3, <1>4, <1>6 DEF r

\* And what the other client's order does.
LEMMA OutsideServes ==
  ASSUME FloorInv, NEW r \in OutsiderRequest, Outside(r)
  PROVE  /\ Fresh \in Order /\ Fresh \notin DOMAIN ord /\ Fresh \notin refused
         /\ r \in RawRequest /\ r.id \in ID /\ r.id[1] = Outsider
         /\ Book!Process(Fresh, r)
         /\ Outcome(Fresh, Accepted(r, clock + 1))
<1>1. OrdersLeft /\ Book!Process(Fresh, r)
  BY DEF Outside
<1>2. Fresh \in Order /\ Fresh \notin DOMAIN ord /\ Fresh \notin refused
  BY <1>1, FreshIsNew DEF Book!IsNew
<1>3. r \in RawRequest
  BY FloorAssumption
<1>4. r.id \in ID /\ r.id[1] = Outsider
  BY <1>1, <1>3, FloorAssumption DEF Book!Process, Book!Valid, RawRequest
<1>5. Book!Accepted(r, clock + 1) = Accepted(r, clock + 1)
  BY DEF Accepted, Book!Accepted
<1>6. Outcome(Fresh, Accepted(r, clock + 1))
  BY <1>1, <1>2, <1>3, <1>5, ProcessOutcome DEF FloorInv
<1>7. QED
  BY <1>1, <1>2, <1>3, <1>4, <1>6

\* Every step of the floor keeps the book's invariant.
LEMMA FloorBookKept ==
  ASSUME FloorInv, [Next]_vars
  PROVE  BookInv'
<1>1. ASSUME NEW a \in Agent, NEW id \in ID, Execute(a, id) PROVE BookInv'
  BY <1>1, ExecuteServes, ProcessBookInv DEF FloorInv
<1>2. ASSUME NEW r \in OutsiderRequest, Outside(r) PROVE BookInv'
  BY <1>2, OutsideServes, ProcessBookInv DEF FloorInv
<1>3. ASSUME NEW o \in Order, OutsideCancel(o) PROVE BookInv'
  BY <1>3, BookCancelled DEF OutsideCancel, FloorInv
<1>4. CASE ServerRestarts
  BY <1>4, BookShrunk DEF ServerRestarts, FloorInv
<1>5. ASSUME UNCHANGED <<ord, resting, tape, clock>> PROVE BookInv'
  BY <1>5, BookUnchanged DEF FloorInv
<1>6. ASSUME NEW a \in Agent, NEW id \in ID, Refused(a, id)
      PROVE  UNCHANGED <<ord, resting, tape, clock>>
  BY <1>6 DEF Refused, Book!Refuse
<1>7. ASSUME NEW a \in Agent, PerceiveTrend(a) \/ PerceiveNews(a) \/ EndTick(a) \/ Leave(a)
      PROVE  UNCHANGED <<ord, resting, tape, clock>>
  BY <1>7 DEF PerceiveTrend, PerceiveNews, EndTick, Think, CallFails, ThinkFails, Leave, book
<1>8. CASE Stop \/ Main \/ UNCHANGED vars
  <2>1. UNCHANGED <<ord, resting, tape, clock>>
    BY <1>8 DEF Stop, Main, vars, book
  <2>2. QED
    BY <1>5, <2>1
<1>9. QED
  BY <1>1, <1>2, <1>3, <1>4, <1>5, <1>6, <1>7, <1>8, FloorSteps DEF Agent

\* A depth's mid is a number.
LEMMA MidIsInt ==
  ASSUME BookInv
  PROVE  DoubleMid(Depth, ReferencePrice) \in Int
<1>1. \A x \in Side : Best(x) = None \/ Best(x) \in Nat \ {0}
  BY BestIsQuoted
<1>2. /\ Depth.bid = None \/ Depth.bid \in Nat \ {0}
      /\ Depth.ask = None \/ Depth.ask \in Nat \ {0}
  BY <1>1 DEF Depth, MarketDepth, Side
<1>3. ReferencePrice \in Nat
  BY FloorAssumption
<1>4. QED
  BY <1>2, <1>3 DEF DoubleMid

\* The sides decide may return.
LEMMA DecidedSides ==
  /\ \A mid, h, w, d : TrendSide(mid, h, w, d) \in Side \cup {None}
  /\ \A a \in News : Reading(a) \in Side \cup {None}
<1>1. \A x, c : NewsSide(x, c) \in Side \cup {None}
  BY DEF NewsSide, Side
<1>2. \A mid, h, w, d : TrendSide(mid, h, w, d) \in Side \cup {None}
  BY DEF TrendSide, Side
<1>3. QED
  BY <1>1, <1>2 DEF Reading

\* What a tick's first step does.
LEMMA Perceives ==
  ASSUME FloorInv, NEW a \in Agent, PerceiveTrend(a) \/ PerceiveNews(a)
  PROVE  /\ phase[a] = "idle" /\ ticks[a] < MaxTicks
         /\ \E i \in Intent \cup {None} : intent' = [intent EXCEPT ![a] = i]
         /\ ticks' = [ticks EXCEPT ![a] = @ + 1]
         /\ phase' = [phase EXCEPT ![a] = "act"]
         /\ UNCHANGED <<book, collection, ranking, result, thoughts, silent, restarts, process>>
<1>1. CASE PerceiveTrend(a)
  <2> DEFINE s == TrendSide(DoubleMid(Depth, ReferencePrice), history[a], HistoryWindow,
                            TrendThreshold)
             i == OrderIntent(s, Depth, ReferencePrice, OrderQuantity)
  <2>1. s \in Side \cup {None}
    BY DecidedSides
  <2>2. intent' = [intent EXCEPT ![a] = i]
    BY <1>1 DEF PerceiveTrend
  <2> HIDE DEF s
  <2>3. i \in Intent \cup {None}
    BY <2>1, IntentIsTyped DEF FloorInv
  <2> HIDE DEF i
  <2>4. QED
    BY <1>1, <2>2, <2>3 DEF PerceiveTrend, Begins, Goto
<1>2. CASE PerceiveNews(a)
  <2> DEFINE i == OrderIntent(Reading(a), Depth, ReferencePrice, OrderQuantity)
  <2>1. Reading(a) \in Side \cup {None}
    BY <1>2, DecidedSides DEF PerceiveNews
  <2>2. intent' = [intent EXCEPT ![a] = i]
    BY <1>2 DEF PerceiveNews
  <2>3. i \in Intent \cup {None}
    BY <2>1, IntentIsTyped DEF FloorInv
  <2> HIDE DEF i
  <2>4. QED
    BY <1>2, <2>2, <2>3 DEF PerceiveNews, Begins, Goto, mind
<1>3. QED
  BY <1>1, <1>2

\* What its last step does.
LEMMA TickEnds ==
  ASSUME FloorInv, NEW a \in Agent, EndTick(a)
  PROVE  /\ phase[a] \in {"act", "answered"}
         /\ phase' = [phase EXCEPT ![a] = "idle"]
         /\ intent' = [intent EXCEPT ![a] = None]
         /\ result' = [result EXCEPT ![a] = None]
         /\ UNCHANGED <<book, mind, ticks, restarts, process>>
         /\ \/ thoughts' = thoughts \cup {Thought(a, intent[a], result[a])} /\ silent' = silent
               /\ (phase[a] = "act" => intent[a] = None)
            \/ thoughts' = thoughts /\ Silenced(a)
<1>1. phase[a] \in {"act", "answered"}
  BY DEF EndTick, Think, CallFails, ThinkFails, Speaks, FloorInv, EndInv
<1>2. QED
  BY <1>1 DEF EndTick, Think, CallFails, ThinkFails, Forget, Goto, AfterFailure, Speaks

\* Types.
LEMMA StepTickInv == FloorInv /\ [Next]_vars => TickInv'
<1> SUFFICES ASSUME FloorInv, [Next]_vars PROVE TickInv'
  OBVIOUS
<1>0. phase \in [Agent -> {"idle", "act", "answered", "left"}] /\ TickInv
  BY DEF FloorInv, EndInv
<1>1. ASSUME NEW a \in Agent, PerceiveTrend(a) \/ PerceiveNews(a) PROVE TickInv'
  <2>1. /\ phase[a] = "idle" /\ ticks[a] < MaxTicks
        /\ \E i \in Intent \cup {None} : intent' = [intent EXCEPT ![a] = i]
        /\ ticks' = [ticks EXCEPT ![a] = @ + 1]
        /\ phase' = [phase EXCEPT ![a] = "act"]
        /\ UNCHANGED <<book, collection, ranking, result, thoughts, silent, restarts, process>>
    BY <1>1, Perceives
  <2>2. ticks' \in [Agent -> 0 .. MaxTicks]
    <3>1. ticks \in [Agent -> 0 .. MaxTicks] /\ MaxTicks \in Nat
      BY <1>0, FloorAssumption DEF TickInv
    <3>2. ticks[a] + 1 \in 0 .. MaxTicks
      BY <2>1, <3>1
    <3>3. QED
      BY <2>1, <3>1, <3>2
  <2>3. intent' \in [Agent -> Intent \cup {None}]
    BY <1>0, <2>1 DEF TickInv
  <2>4. /\ history' \in [Momentum -> Seq(Int)]
        /\ \A b \in Momentum : Len(history'[b]) <= HistoryWindow
    <3>1. CASE PerceiveNews(a)
      BY <1>0, <3>1 DEF PerceiveNews, mind, TickInv
    <3>2. CASE PerceiveTrend(a)
      <4> DEFINE mid == DoubleMid(Depth, ReferencePrice)
                 h == Remember(history[a], mid, HistoryWindow)
      <4>1. a \in Momentum /\ history' = [history EXCEPT ![a] = h]
        BY <3>2 DEF PerceiveTrend
      <4>2. mid \in Int
        BY MidIsInt DEF FloorInv
      <4>3. history[a] \in Seq(Int) /\ Len(history[a]) <= HistoryWindow
        BY <1>0, <4>1 DEF TickInv
      <4> HIDE DEF mid
      <4>4. h \in Seq(Int) /\ Len(h) <= HistoryWindow
        BY <4>2, <4>3, RememberIsTyped
      <4> HIDE DEF h
      <4>5. QED
        BY <1>0, <4>1, <4>4 DEF TickInv
    <3>3. QED
      BY <1>1, <3>1, <3>2
  <2>5. \A b \in Agent :
          /\ result'[b] # None <=> phase'[b] = "answered"
          /\ result'[b] # None =>
               intent'[b] # None /\ (result'[b].accepted => result'[b].struct \in DOMAIN ord')
    BY <1>0, <2>1 DEF TickInv, book
  <2>6. QED
    BY <1>0, <2>1, <2>2, <2>3, <2>4, <2>5 DEF TickInv, process, book
<1>2. ASSUME NEW a \in Agent, NEW id \in ID, Execute(a, id) \/ Refused(a, id)
      PROVE  TickInv'
  <2>1. /\ phase[a] = "act" /\ intent[a] # None
        /\ phase' = [phase EXCEPT ![a] = "answered"]
        /\ UNCHANGED <<mind, ticks, intent, thoughts, silent, restarts, process>>
    BY <1>2 DEF Execute, Refused, Goto
  <2>2. DOMAIN ord \subseteq DOMAIN ord' /\ \E x \in Result :
          /\ result' = [result EXCEPT ![a] = x]
          /\ x.accepted => x.struct \in DOMAIN ord'
    <3>1. CASE Execute(a, id)
      <4> DEFINE t == Accepted(OrderRequest(id, intent[a]), clock + 1)
                 n == Len(tape') - Len(tape)
      <4>1. Fresh \in Order /\ Outcome(Fresh, t)
        BY <3>1, ExecuteServes
      <4> HIDE DEF t
      <4>2. /\ DOMAIN ord' = DOMAIN ord \cup {Fresh}
            /\ tape' = tape \o Book!TradesOf(Fresh, t) /\ t \in Booked
        BY <4>1 DEF Outcome
      <4>3. n \in Nat
        <5>1. Book!TradesOf(Fresh, t) \in Seq(Trade)
          BY <4>1, <4>2, NewTrades DEF FloorInv
        <5>2. tape \in Seq(Trade)
          BY DEF FloorInv, BookInv
        <5>3. QED
          BY <4>2, <5>1, <5>2, Continues
      <4>4. result' = [result EXCEPT ![a] = OrderResult(Fresh, TRUE, n)]
        BY <3>1 DEF Execute
      <4> HIDE DEF n
      <4>5. OrderResult(Fresh, TRUE, n) \in Result
        BY <4>1, <4>3 DEF OrderResult, Result
      <4>6. OrderResult(Fresh, TRUE, n).struct = Fresh
        BY DEF OrderResult
      <4>7. QED
        BY <4>2, <4>4, <4>5, <4>6
    <3>2. CASE Refused(a, id)
      <4>1. Fresh \in Order
        BY <3>2, FreshIsNew DEF Refused
      <4>2. /\ OrderResult(Fresh, FALSE, 0) \in Result
            /\ ~ OrderResult(Fresh, FALSE, 0).accepted
        BY <4>1 DEF OrderResult, Result
      <4>3. result' = [result EXCEPT ![a] = OrderResult(Fresh, FALSE, 0)] /\ ord' = ord
        BY <3>2 DEF Refused, Book!Refuse
      <4>4. QED
        BY <4>2, <4>3
    <3>3. QED
      BY <1>2, <3>1, <3>2
  <2>3. PICK x \in Result : /\ result' = [result EXCEPT ![a] = x]
                            /\ x.accepted => x.struct \in DOMAIN ord'
    BY <2>2
  <2>4. x # None
    BY FloorAssumption
  <2>5. result' \in [Agent -> Result \cup {None}]
    BY <1>0, <2>3 DEF TickInv
  <2>6. \A b \in Agent :
          /\ result'[b] # None <=> phase'[b] = "answered"
          /\ result'[b] # None =>
               intent'[b] # None /\ (result'[b].accepted => result'[b].struct \in DOMAIN ord')
    BY <1>0, <2>1, <2>2, <2>3, <2>4 DEF TickInv
  <2>7. silent' \subseteq DOMAIN ord'
    BY <1>0, <2>1, <2>2 DEF TickInv
  <2>8. QED
    BY <1>0, <2>1, <2>5, <2>6, <2>7 DEF TickInv, mind, process
<1>3. ASSUME NEW a \in Agent, EndTick(a) PROVE TickInv'
  <2>1. /\ phase[a] \in {"act", "answered"}
        /\ phase' = [phase EXCEPT ![a] = "idle"]
        /\ intent' = [intent EXCEPT ![a] = None]
        /\ result' = [result EXCEPT ![a] = None]
        /\ UNCHANGED <<book, mind, ticks, restarts, process>>
        /\ \/ thoughts' = thoughts \cup {Thought(a, intent[a], result[a])} /\ silent' = silent
           \/ thoughts' = thoughts /\ Silenced(a)
    BY <1>3, TickEnds
  <2>2. \A th \in thoughts' : th.agent \in Agent
    <3>1. Thought(a, intent[a], result[a]).agent = a
      BY DEF Thought
    <3>2. \A th \in thoughts : th.agent \in Agent
      BY <1>0 DEF TickInv
    <3> DEFINE new == Thought(a, intent[a], result[a])
    <3>3. \A th \in thoughts' : th \in thoughts \/ th = new
      BY <2>1
    <3> HIDE DEF new
    <3>4. QED
      BY <3>1, <3>2, <3>3 DEF new
  <2>3. silent' \subseteq DOMAIN ord'
    BY <1>0, <2>1 DEF TickInv, Silenced, book
  <2>4. \A b \in Agent :
          /\ result'[b] # None <=> phase'[b] = "answered"
          /\ result'[b] # None =>
               intent'[b] # None /\ (result'[b].accepted => result'[b].struct \in DOMAIN ord')
    BY <1>0, <2>1 DEF TickInv, book
  <2>5. /\ intent' \in [Agent -> Intent \cup {None}]
        /\ result' \in [Agent -> Result \cup {None}]
    BY <1>0, <2>1 DEF TickInv
  <2>6. UNCHANGED <<history, ticks, restarts, stopping, main>>
    BY <2>1 DEF mind, process
  <2>7. QED
    BY <1>0, <2>2, <2>3, <2>4, <2>5, <2>6 DEF TickInv
<1>4. ASSUME NEW a \in Agent, Leave(a) PROVE TickInv'
  BY <1>0, <1>4 DEF Leave, Goto, TickInv, mind, book, process
<1>5. ASSUME NEW r \in OutsiderRequest, Outside(r) PROVE TickInv'
  <2>1. DOMAIN ord' = DOMAIN ord \cup {Fresh}
    BY <1>5, OutsideServes DEF Outcome
  <2>2. UNCHANGED <<mind, phase, ticks, intent, result, thoughts, silent, restarts, process>>
    BY <1>5 DEF Outside
  <2>3. QED
    BY <1>0, <2>1, <2>2 DEF TickInv, mind, process
<1>6. CASE (\E o \in Order : OutsideCancel(o)) \/ UNCHANGED vars
  <2>1. UNCHANGED <<ord, mind, phase, ticks, intent, result, thoughts, silent, restarts, process>>
    BY <1>6 DEF OutsideCancel, Book!Cancel, vars, book
  <2>2. QED
    BY <1>0, <2>1 DEF TickInv, mind, process
<1>7. CASE ServerRestarts
  <2>1. restarts' \in 0 .. MaxRestarts
    <3>1. restarts < MaxRestarts /\ restarts' = restarts + 1
      BY <1>7 DEF ServerRestarts
    <3>2. restarts \in 0 .. MaxRestarts /\ MaxRestarts \in Nat
      BY <1>0, FloorAssumption DEF TickInv
    <3>3. QED
      BY <3>1, <3>2
  <2>2. UNCHANGED <<ord, mind, phase, ticks, intent, result, thoughts, silent, process>>
    BY <1>7 DEF ServerRestarts
  <2>3. QED
    BY <1>0, <2>1, <2>2 DEF TickInv, mind, process
<1>8. CASE Stop \/ Main
  BY <1>0, <1>8 DEF Stop, Main, Proceeds, TickInv, mind, book
<1>9. QED
  BY <1>1, <1>2, <1>3, <1>4, <1>5, <1>6, <1>7, <1>8, FloorSteps DEF Agent

\* One step.
LEMMA StepFloorInv == FloorInv /\ [Next]_vars => FloorInv'
BY FloorBookKept, StepEndInv, StepTickInv DEF FloorInv

\* The agents and main are where run_agents.py can have them, the histories
\* within their window, and every order known to be executed is in the book's.
THEOREM FloorTypeCorrect == Spec => []TypeOK
<1>1. FloorInv => TypeOK
  BY DEF FloorInv, EndInv, TickInv, TypeOK
<1>2. QED
  BY InitFloorInv, StepFloorInv, <1>1, PTL DEF Spec

-----------------------------------------------------------------------------
(* The sides. *)

\* What changes of the orders, whoever calls: the requested one is added, and
\* of the others nothing but their quantities changes.
LEMMA OrdersKept ==
  ASSUME FloorInv, [Next]_vars
  PROVE  /\ DOMAIN ord \subseteq DOMAIN ord'
         /\ \A m \in DOMAIN ord : /\ ord'[m].id = ord[m].id /\ ord'[m].side = ord[m].side
                                  /\ ord'[m].price = ord[m].price
                                  /\ ord'[m].original = ord[m].original
<1> DEFINE kept ==
      /\ DOMAIN ord \subseteq DOMAIN ord'
      /\ \A m \in DOMAIN ord : /\ ord'[m].id = ord[m].id /\ ord'[m].side = ord[m].side
                               /\ ord'[m].price = ord[m].price
                               /\ ord'[m].original = ord[m].original
<1>1. ASSUME NEW a \in Agent, NEW id \in ID, Execute(a, id) PROVE kept
  BY <1>1, ExecuteServes DEF Outcome
<1>2. ASSUME NEW r \in OutsiderRequest, Outside(r) PROVE kept
  BY <1>2, OutsideServes DEF Outcome
<1>3. CASE \/ \E o \in Order : OutsideCancel(o)
           \/ \E a \in Agent, id \in ID : Refused(a, id)
           \/ ServerRestarts \/ (\E a \in Agent : Leave(a)) \/ Stop \/ Main \/ UNCHANGED vars
  <2>1. ord' = ord
    BY <1>3 DEF OutsideCancel, Book!Cancel, Refused, Book!Refuse, ServerRestarts, Leave, Stop,
                Main, vars, book
  <2>2. QED
    BY <2>1
<1>4. CASE \/ \E a \in Momentum : PerceiveTrend(a)
           \/ \E a \in News : PerceiveNews(a)
           \/ \E a \in Agent : EndTick(a)
  <2>1. ord' = ord
    BY <1>4, TickEnds DEF PerceiveTrend, PerceiveNews, book
  <2>2. QED
    BY <2>1
<1>5. CASE \E a \in Agent, id \in ID : Execute(a, id)
  BY <1>1, <1>5
<1>6. CASE \E r \in OutsiderRequest : Outside(r)
  BY <1>2, <1>6
<1> HIDE DEF kept
<1>7. QED
  BY <1>3, <1>4, <1>5, <1>6, FloorSteps

\* And an order that is new is the one its owner has in mind, or the other
\* client's.
LEMMA OrdersAdded ==
  ASSUME FloorInv, [Next]_vars, NEW o \in DOMAIN ord' \ DOMAIN ord
  PROVE  \/ /\ ord'[o].id[1] = Outsider
            /\ \E r \in OutsiderRequest : Outside(r)
         \/ \E a \in Agent, id \in ID :
              /\ Execute(a, id) /\ o = Fresh /\ ord'[o].id[1] = a
              /\ intent[a] \in Intent
              /\ ord'[o].side = intent[a].side /\ ord'[o].price = intent[a].price
<1>1. ASSUME NEW a \in Agent, NEW id \in ID, Execute(a, id)
      PROVE  /\ o = Fresh /\ ord'[o].id[1] = a /\ intent[a] \in Intent
             /\ ord'[o].side = intent[a].side /\ ord'[o].price = intent[a].price
  <2> DEFINE t == Accepted(OrderRequest(id, intent[a]), clock + 1)
  <2>1. /\ intent[a] \in Intent /\ id[1] = a /\ Outcome(Fresh, t)
    BY <1>1, ExecuteServes
  <2>2. t.id = id /\ t.side = intent[a].side /\ t.price = intent[a].price
    BY DEF Accepted, OrderRequest
  <2> HIDE DEF t
  <2>3. QED
    BY <2>1, <2>2 DEF Outcome
<1>2. ASSUME NEW r \in OutsiderRequest, Outside(r) PROVE ord'[o].id[1] = Outsider
  <2> DEFINE t == Accepted(r, clock + 1)
  <2>1. r.id[1] = Outsider /\ Outcome(Fresh, t)
    BY <1>2, OutsideServes
  <2>2. t.id = r.id
    BY DEF Accepted
  <2> HIDE DEF t
  <2>3. QED
    BY <2>1, <2>2 DEF Outcome
<1>3. CASE \/ \E x \in Order : OutsideCancel(x)
           \/ \E a \in Agent, id \in ID : Refused(a, id)
           \/ ServerRestarts \/ (\E a \in Agent : Leave(a)) \/ Stop \/ Main \/ UNCHANGED vars
  BY <1>3 DEF OutsideCancel, Book!Cancel, Refused, Book!Refuse, ServerRestarts, Leave, Stop,
              Main, vars, book
<1>4. CASE \/ \E a \in Momentum : PerceiveTrend(a)
           \/ \E a \in News : PerceiveNews(a)
           \/ \E a \in Agent : EndTick(a)
  BY <1>4, TickEnds DEF PerceiveTrend, PerceiveNews, book
<1>5. CASE \E a \in Agent, id \in ID : Execute(a, id)
  BY <1>1, <1>5
<1>6. CASE \E r \in OutsiderRequest : Outside(r)
  BY <1>2, <1>6
<1>7. QED
  BY <1>3, <1>4, <1>5, <1>6, FloorSteps

\* The news stay what they are, and so does what each agent reads in them.
LEMMA NewsStay ==
  ASSUME FloorInv, [Next]_vars
  PROVE  /\ UNCHANGED <<collection, ranking>>
         /\ \A a \in News : Reading(a)' = Reading(a)
<1>1. UNCHANGED <<collection, ranking>>
  BY TickEnds, FloorSteps
  DEF PerceiveTrend, PerceiveNews, Execute, Refused, Outside, OutsideCancel, ServerRestarts,
      Leave, Stop, Main, vars, mind
<1>2. QED
  BY <1>1 DEF Reading

\* Every order of a news agent, made or intended, takes the side that the news
\* tell.
SideInv ==
  /\ \A a \in News : intent[a] # None => intent[a].side = Reading(a)
  /\ \A o \in DOMAIN ord : Owner(o) \in News => ord[o].side = Reading(Owner(o))

\* The initial state.
LEMMA InitSideInv == Init => SideInv
BY DEF Init, SideInv, Book!Init, Book!EmptyMap, Agent

\* One step: what is intended, and what is made of it.
LEMMA StepSideInv == FloorInv /\ SideInv /\ [Next]_vars => SideInv'
<1> SUFFICES ASSUME FloorInv, SideInv, [Next]_vars PROVE SideInv'
  OBVIOUS
<1>1. \A a \in News : Reading(a)' = Reading(a)
  BY NewsStay
<1>2. \A a \in News : intent'[a] # None => intent'[a].side = Reading(a)
  <2>0. intent \in [Agent -> Intent \cup {None}]
    BY DEF FloorInv, TickInv
  <2>1. SUFFICES ASSUME NEW a \in News, intent'[a] # None, intent'[a] # intent[a]
                 PROVE  intent'[a].side = Reading(a)
    BY DEF SideInv
  <2>2. PerceiveNews(a)
    <3>1. ASSUME NEW b \in Momentum, PerceiveTrend(b) PROVE FALSE
      BY <2>0, <2>1, <3>1, FloorAssumption DEF PerceiveTrend, Agent
    <3>2. ASSUME NEW b \in News, PerceiveNews(b) PROVE b = a
      BY <2>0, <2>1, <3>2 DEF PerceiveNews, Agent
    <3>3. ASSUME NEW b \in Agent, EndTick(b) PROVE FALSE
      BY <2>0, <2>1, <3>3, TickEnds DEF Agent
    <3>4. CASE \/ \E b \in Agent, id \in ID : Execute(b, id) \/ Refused(b, id)
               \/ \E r \in OutsiderRequest : Outside(r)
               \/ \E o \in Order : OutsideCancel(o)
               \/ ServerRestarts \/ (\E b \in Agent : Leave(b)) \/ Stop \/ Main
               \/ UNCHANGED vars
      BY <2>1, <3>4 DEF Execute, Refused, Outside, OutsideCancel, ServerRestarts, Leave, Stop,
                        Main, vars
    <3>5. QED
      BY <3>1, <3>2, <3>3, <3>4, FloorSteps
  <2> DEFINE i == OrderIntent(Reading(a), Depth, ReferencePrice, OrderQuantity)
  <2>3. intent'[a] = i
    BY <2>0, <2>2 DEF PerceiveNews, Agent
  <2>4. i # None => i.side = Reading(a)
    BY DEF OrderIntent
  <2>5. QED
    BY <2>1, <2>3, <2>4
<1>3. ASSUME NEW o \in DOMAIN ord', ord'[o].id[1] \in News
      PROVE  ord'[o].side = Reading(ord'[o].id[1])
  <2>1. CASE o \in DOMAIN ord
    BY <1>3, <2>1, OrdersKept DEF SideInv, Owner
  <2>2. CASE o \notin DOMAIN ord
    <3>1. Outsider \notin News
      BY FloorAssumption DEF Agent
    <3>2. \E a \in Agent, id \in ID :
            /\ Execute(a, id) /\ ord'[o].id[1] = a
            /\ intent[a] \in Intent /\ ord'[o].side = intent[a].side
      BY <1>3, <2>2, <3>1, OrdersAdded
    <3>3. intent[ord'[o].id[1]] # None
      BY <3>2, FloorAssumption
    <3>4. QED
      BY <1>3, <3>2, <3>3 DEF SideInv
  <2>3. QED
    BY <2>1, <2>2
<1>4. \A o \in DOMAIN ord' :
        Owner(o)' \in News => ord'[o].side = Reading(Owner(o))'
  BY <1>3, NewsStay DEF Owner, Reading
<1>5. QED
  BY <1>1, <1>2, <1>4 DEF SideInv

\* News agents configured alike never take different sides.
THEOREM AlikeAlwaysAgree == Spec => []AlikeAgree
<1>1. SideInv => AlikeAgree
  BY DEF SideInv, AlikeAgree, Reading
<1>2. QED
  BY InitFloorInv, StepFloorInv, InitSideInv, StepSideInv, <1>1, PTL DEF Spec

-----------------------------------------------------------------------------
(* The news. *)

\* What is stored, and the ranking.
NewsInv ==
  /\ \A h \in DOMAIN collection : collection[h].sentiment \in Int \cup {Unscored}
  /\ ranking \in Seq(STRING)

\* The seeding stores scored headlines.
LEMMA InitNewsInv == Init => NewsInv
<1> SUFFICES ASSUME Init PROVE NewsInv
  OBVIOUS
<1>1. PICK stored \in StoredNews : collection = Upsert(stored, SampleHeadlines)
  BY DEF Init
<1>2. \A h \in DOMAIN SampleHeadlines : SampleHeadlines[h].sentiment \in Int
  BY DEF SampleHeadlines, Headline
<1>3. \A h \in DOMAIN stored : stored[h].sentiment \in Int \cup {Unscored}
  BY FloorAssumption
<1>4. \A h \in DOMAIN collection : collection[h].sentiment \in Int \cup {Unscored}
  BY <1>1, <1>2, <1>3 DEF Upsert
<1>5. ranking \in Seq(STRING)
  BY FloorAssumption DEF Init
<1>6. QED
  BY <1>4, <1>5 DEF NewsInv

\* Nothing changes them.
LEMMA StepNewsInv == FloorInv /\ NewsInv /\ [Next]_vars => NewsInv'
BY NewsStay DEF NewsInv

\* An average is as good, and as bad, as one of the headlines it is of.
LEMMA AverageOfHeadlines ==
  ASSUME NewsInv, NEW k, NEW c \in Int,
         NEW average, average = RecentAverageSentiment(collection, ranking, Symbol, k)
  PROVE  /\ average.count \in Nat /\ average.sum \in Int
         /\ average.count > 0 /\ average.sum >= c * average.count =>
              \E h \in DOMAIN collection :
                /\ collection[h].symbol = Symbol /\ collection[h].sentiment # Unscored
                /\ collection[h].sentiment >= c
         /\ average.count > 0 /\ average.sum <= c * average.count =>
              \E h \in DOMAIN collection :
                /\ collection[h].symbol = Symbol /\ collection[h].sentiment # Unscored
                /\ collection[h].sentiment <= c
<1> DEFINE S == {i \in Query(collection, ranking, Symbol, k) :
                   collection[ranking[i]].sentiment # Unscored}
           f == [i \in S |-> collection[ranking[i]].sentiment]
<1>1. average.sum = SumFunctionOnSet(f, S) /\ average.count = Cardinality(S)
  BY DEF RecentAverageSentiment
<1>2. \A i \in S : /\ ranking[i] \in DOMAIN collection
                   /\ collection[ranking[i]].symbol = Symbol
                   /\ collection[ranking[i]].sentiment # Unscored
                   /\ f[i] = collection[ranking[i]].sentiment
  BY DEF Query
<1>3. \A i \in S : f[i] \in Int
  BY <1>2 DEF NewsInv
<1>4. IsFiniteSet(S)
  <2>1. ranking \in Seq(STRING) /\ DOMAIN ranking = 1 .. Len(ranking) /\ Len(ranking) \in Nat
    BY DEF NewsInv
  <2>2. IsFiniteSet(1 .. Len(ranking))
    BY <2>1, FS_Interval
  <2>3. S \subseteq 1 .. Len(ranking)
    BY <2>1 DEF Query
  <2>4. QED
    BY <2>2, <2>3, FS_Subset
<1> HIDE DEF S, f
<1>5. Cardinality(S) \in Nat /\ SumFunctionOnSet(f, S) \in Int
  BY <1>1, <1>3, <1>4, FS_CardinalityType, SumSplits
<1>6. ASSUME average.count > 0, average.sum >= c * average.count PROVE \E i \in S : f[i] >= c
  <2>1. SUFFICES ASSUME \A i \in S : ~(f[i] >= c) PROVE FALSE
    OBVIOUS
  <2>2. c - 1 \in Int /\ \A i \in S : f[i] \in Int /\ f[i] <= c - 1
    BY <1>3, <2>1
  <2> DEFINE d == c - 1
  <2>3. d \in Int /\ \A i \in S : f[i] \in Int /\ f[i] <= d
    BY <2>2
  <2>4. d * Cardinality(S) = c * Cardinality(S) - Cardinality(S)
    BY <1>5
  <2> HIDE DEF d
  <2>5. SumFunctionOnSet(f, S) <= d * Cardinality(S)
    BY <1>4, <2>3, SumAtMost
  <2> DEFINE cn == c * Cardinality(S)
  <2>6. cn \in Int /\ SumFunctionOnSet(f, S) >= cn
    BY <1>1, <1>5, <1>6
  <2>7. SumFunctionOnSet(f, S) <= cn - Cardinality(S)
    BY <2>4, <2>5
  <2> HIDE DEF cn
  <2>8. QED
    BY <1>1, <1>5, <1>6, <2>6, <2>7
<1>7. ASSUME average.count > 0, average.sum <= c * average.count PROVE \E i \in S : f[i] <= c
  <2>1. SUFFICES ASSUME \A i \in S : ~(f[i] <= c) PROVE FALSE
    OBVIOUS
  <2>2. c + 1 \in Int /\ \A i \in S : f[i] \in Int /\ f[i] >= c + 1
    BY <1>3, <2>1
  <2> DEFINE d == c + 1
  <2>3. d \in Int /\ \A i \in S : f[i] \in Int /\ f[i] >= d
    BY <2>2
  <2>4. d * Cardinality(S) = c * Cardinality(S) + Cardinality(S)
    BY <1>5
  <2> HIDE DEF d
  <2>5. SumFunctionOnSet(f, S) >= d * Cardinality(S)
    BY <1>4, <2>3, SumAtLeast
  <2> DEFINE cn == c * Cardinality(S)
  <2>6. cn \in Int /\ SumFunctionOnSet(f, S) <= cn
    BY <1>1, <1>5, <1>7
  <2>7. SumFunctionOnSet(f, S) >= cn + Cardinality(S)
    BY <2>4, <2>5
  <2> HIDE DEF cn
  <2>8. QED
    BY <1>1, <1>5, <1>7, <2>6, <2>7
<1>8. QED
  BY <1>1, <1>2, <1>5, <1>6, <1>7

\* So what an agent reads is what some headline says.
LEMMA ReadingFounded ==
  ASSUME NewsInv, NEW a \in News
  PROVE  /\ Reading(a) = Buy =>
              \E h \in DOMAIN collection :
                /\ collection[h].symbol = Symbol /\ collection[h].sentiment # Unscored
                /\ collection[h].sentiment >= Config[a].buy
         /\ Reading(a) = Sell =>
              \E h \in DOMAIN collection :
                /\ collection[h].symbol = Symbol /\ collection[h].sentiment # Unscored
                /\ collection[h].sentiment <= Config[a].sell
<1>1. PICK average : average = RecentAverageSentiment(collection, ranking, Symbol,
                                                      Config[a].lookback)
  OBVIOUS
<1>2. Reading(a) = NewsSide(average, Config[a])
  BY <1>1 DEF Reading
<1>3. Config[a].buy \in Int /\ Config[a].sell \in Int
  BY FloorAssumption
<1>4. average.count \in Nat /\ average.sum \in Int
  BY <1>1, AverageOfHeadlines
<1>5. Reading(a) = Buy =>
        average.count > 0 /\ average.sum >= Config[a].buy * average.count
  BY <1>2, <1>4, FloorAssumption DEF NewsSide, Side, Buy, Sell
<1>6. Reading(a) = Sell =>
        average.count > 0 /\ average.sum <= Config[a].sell * average.count
  BY <1>2, <1>4, FloorAssumption DEF NewsSide, Side, Buy, Sell
<1>7. QED
  BY <1>1, <1>3, <1>5, <1>6, AverageOfHeadlines

\* News agents configured alike take one side for ever, and none against all
\* the news about its symbol.
THEOREM ReadersOneSided == Spec => []OneSidedReaders
<1>1. FloorInv /\ SideInv /\ NewsInv => OneSidedReaders
  <2> SUFFICES ASSUME FloorInv, SideInv, NewsInv PROVE OneSidedReaders
    OBVIOUS
  <2>1. AlikeAgree
    BY DEF SideInv, AlikeAgree, Reading
  <2>2. ASSUME NEW a \in News, NEW o \in DOMAIN ord, Owner(o) = a
        PROVE  \E h \in DOMAIN collection :
                 /\ collection[h].symbol = Symbol /\ collection[h].sentiment # Unscored
                 /\ IF ord[o].side = Buy THEN collection[h].sentiment >= Config[a].buy
                    ELSE collection[h].sentiment <= Config[a].sell
    <3>1. ord[o].side = Reading(a)
      BY <2>2 DEF SideInv
    <3>2. ord[o].side = Buy \/ ord[o].side = Sell
      BY <2>2 DEF FloorInv, BookInv, Booked, Side
    <3>3. Sell # Buy
      BY DEF Buy, Sell
    <3>4. QED
      BY <3>1, <3>2, <3>3, ReadingFounded
  <2>3. QED
    BY <2>1, <2>2 DEF OneSidedReaders
<1>2. QED
  BY InitFloorInv, StepFloorInv, InitSideInv, StepSideInv, InitNewsInv, StepNewsInv, <1>1,
     PTL DEF Spec

-----------------------------------------------------------------------------
(* The tape. *)

\* A trade is between two orders of opposite sides.
TapeInv ==
  \A i \in DOMAIN tape : /\ tape[i].maker \in DOMAIN ord /\ tape[i].taker \in DOMAIN ord
                         /\ ord[tape[i].maker].side # ord[tape[i].taker].side

\* What a processed order does to the tape: its trades follow, and no other's.
LEMMA TradesFollow ==
  ASSUME FloorInv, NEW o \in Order, NEW t, Outcome(o, t)
  PROVE  /\ \A i \in DOMAIN tape : i \in DOMAIN tape' /\ tape'[i] = tape[i]
         /\ \A i \in DOMAIN tape' \ DOMAIN tape :
              /\ tape'[i].taker = o
              /\ tape'[i].maker \in resting /\ Book!Crosses(t, ord[tape'[i].maker])
         /\ Len(tape') - Len(tape) \in Nat
         /\ DOMAIN tape' \ DOMAIN tape = Len(tape) + 1 .. Len(tape')
<1> DEFINE b == Book!TradesOf(o, t)
<1>1. t \in Booked /\ tape' = tape \o b /\ BookInv
  BY DEF Outcome, FloorInv
<1>2. tape \in Seq(Trade) /\ DOMAIN tape = 1 .. Len(tape) /\ Len(tape) \in Nat
  BY <1>1 DEF BookInv
<1>3. /\ b \in Seq(Trade)
      /\ \A i \in DOMAIN b : b[i].taker = o /\ b[i].maker \in Taken(t)
  BY <1>1, NewTrades
<1> HIDE DEF b
<1>4. /\ Len(tape') = Len(tape) + Len(b) /\ Len(b) \in Nat
      /\ tape' \in Seq(Trade)
      /\ \A i \in DOMAIN tape : i \in DOMAIN tape' /\ tape'[i] = tape[i]
      /\ \A i \in DOMAIN b : tape'[Len(tape) + i] = b[i]
      /\ \A k \in DOMAIN tape' : \/ k \in DOMAIN tape
                                 \/ \E i \in DOMAIN b : k = Len(tape) + i
  BY <1>1, <1>2, <1>3, Continues
<1>5. \A m \in Taken(t) : m \in resting /\ Book!Crosses(t, ord[m])
  BY <1>1, FillBounds DEF Taken
<1>6. ASSUME NEW i \in DOMAIN tape' \ DOMAIN tape
      PROVE  tape'[i].taker = o /\ tape'[i].maker \in Taken(t)
  BY <1>3, <1>4
<1>7. DOMAIN tape' = 1 .. Len(tape') /\ Len(tape') \in Nat
  BY <1>4
<1>8. DOMAIN tape' \ DOMAIN tape = Len(tape) + 1 .. Len(tape')
  BY <1>2, <1>4, <1>7
<1>9. QED
  BY <1>2, <1>4, <1>5, <1>6, <1>8

\* The initial state.
LEMMA InitTapeInv == Init => TapeInv
BY DEF Init, Book!Init, TapeInv

\* A trade's orders are there, and of opposite sides.
LEMMA OutcomeTapeInv ==
  ASSUME FloorInv, TapeInv, NEW o \in Order, NEW t, Outcome(o, t)
  PROVE  TapeInv'
<1>1. /\ DOMAIN ord' = DOMAIN ord \cup {o} /\ ord'[o].side = t.side /\ t \in Booked
      /\ \A m \in DOMAIN ord : ord'[m].side = ord[m].side
  BY DEF Outcome
<1>2. ASSUME NEW i \in DOMAIN tape'
      PROVE  /\ tape'[i].maker \in DOMAIN ord' /\ tape'[i].taker \in DOMAIN ord'
             /\ ord'[tape'[i].maker].side # ord'[tape'[i].taker].side
  <2>1. CASE i \in DOMAIN tape
    <3>1. tape'[i] = tape[i]
      BY <2>1, TradesFollow
    <3>2. QED
      BY <1>1, <2>1, <3>1 DEF TapeInv
  <2>2. CASE i \notin DOMAIN tape
    <3>1. /\ tape'[i].taker = o
          /\ tape'[i].maker \in resting /\ Book!Crosses(t, ord[tape'[i].maker])
      BY <2>2, TradesFollow
    <3>2. tape'[i].maker \in DOMAIN ord
      BY <3>1 DEF FloorInv, BookInv
    <3>3. ord[tape'[i].maker].side # t.side
      <4>1. ord[tape'[i].maker].side = Book!Opposite(t.side)
        BY <3>1 DEF Book!Crosses
      <4>2. Book!Opposite(t.side) # t.side
        BY DEF Book!Opposite, Book!Buy, Book!Sell
      <4>3. QED
        BY <4>1, <4>2
    <3>4. QED
      BY <1>1, <3>1, <3>2, <3>3
  <2>3. QED
    BY <2>1, <2>2
<1>3. QED
  BY <1>2 DEF TapeInv

\* What does not come to the book leaves the tape.
LEMMA TapeKept ==
  ASSUME FloorInv, [Next]_vars
  PROVE  \/ UNCHANGED <<ord, tape>>
         \/ \E a \in Agent, id \in ID : Execute(a, id)
         \/ \E r \in OutsiderRequest : Outside(r)
<1>1. CASE \/ \E o \in Order : OutsideCancel(o)
           \/ \E a \in Agent, id \in ID : Refused(a, id)
           \/ ServerRestarts \/ (\E a \in Agent : Leave(a)) \/ Stop \/ Main \/ UNCHANGED vars
  BY <1>1 DEF OutsideCancel, Book!Cancel, Refused, Book!Refuse, ServerRestarts, Leave, Stop,
              Main, vars, book
<1>2. CASE \/ \E a \in Momentum : PerceiveTrend(a)
           \/ \E a \in News : PerceiveNews(a)
           \/ \E a \in Agent : EndTick(a)
  BY <1>2, TickEnds DEF PerceiveTrend, PerceiveNews, book
<1>3. QED
  BY <1>1, <1>2, FloorSteps

\* One step.
LEMMA StepTapeInv == FloorInv /\ TapeInv /\ [Next]_vars => TapeInv'
<1> SUFFICES ASSUME FloorInv, TapeInv, [Next]_vars PROVE TapeInv'
  OBVIOUS
<1>1. ASSUME NEW a \in Agent, NEW id \in ID, Execute(a, id) PROVE TapeInv'
  BY <1>1, ExecuteServes, OutcomeTapeInv
<1>2. ASSUME NEW r \in OutsiderRequest, Outside(r) PROVE TapeInv'
  BY <1>2, OutsideServes, OutcomeTapeInv
<1>3. CASE UNCHANGED <<ord, tape>>
  BY <1>3 DEF TapeInv
<1>4. QED
  BY <1>1, <1>2, <1>3, TapeKept

-----------------------------------------------------------------------------
(* Agents alone. *)

\* As long as no other client traded: every order is a news agent's, at the
\* reference price, every mid was that price, and one side rests.
Calm ==
  /\ \A o \in DOMAIN ord : ord[o].price = ReferencePrice /\ Owner(o) \in News
  /\ \A a \in Momentum : /\ intent[a] = None
                         /\ \A i \in DOMAIN history[a] : history[a][i] = 2 * ReferencePrice
  /\ \A a \in News : intent[a] # None => intent[a].price = ReferencePrice
  /\ \A o, p \in resting : ord[o].side = ord[p].side

CalmInv == MineOf(Outsider) = {} => Calm

\* The initial state.
LEMMA InitCalmInv == Init => CalmInv
<1> SUFFICES ASSUME Init PROVE Calm
  BY DEF CalmInv
<1>1. DOMAIN ord = {} /\ resting = {}
  BY DEF Init, Book!Init, Book!EmptyMap
<1>2. intent = [a \in Agent |-> None] /\ history = [a \in Momentum |-> <<>>]
  BY DEF Init
<1>3. \A a \in Momentum : DOMAIN history[a] = {}
  BY <1>2
<1>4. QED
  BY <1>1, <1>2, <1>3 DEF Calm, Agent

\* In a calm market the best quote, if any, is the reference price.
LEMMA CalmQuotes ==
  ASSUME FloorInv, Calm
  PROVE  /\ \A s \in Side : Best(s) = None \/ Best(s) = ReferencePrice
         /\ DoubleMid(Depth, ReferencePrice) = 2 * ReferencePrice
         /\ \A s \in Side \cup {None} :
              LET i == OrderIntent(s, Depth, ReferencePrice, OrderQuantity)
              IN i # None => i.price = ReferencePrice
<1>1. \A s \in Side : Best(s) = None \/ Best(s) = ReferencePrice
  <2>1. SUFFICES ASSUME NEW s \in Side, Quotes(s) # {} PROVE Best(s) = ReferencePrice
    BY BestIsQuoted DEF FloorInv
  <2>2. Best(s) \in Quotes(s)
    BY <2>1, BestIsQuoted DEF FloorInv
  <2>3. Quotes(s) \subseteq {ReferencePrice}
    BY DEF Quotes, Calm, FloorInv, BookInv
  <2>4. QED
    BY <2>2, <2>3
<1>2. /\ Depth.bid = None \/ Depth.bid = ReferencePrice
      /\ Depth.ask = None \/ Depth.ask = ReferencePrice
  BY <1>1 DEF Depth, MarketDepth, Side
<1>3. ReferencePrice \in Nat
  BY FloorAssumption
<1>4. DoubleMid(Depth, ReferencePrice) = 2 * ReferencePrice
  BY <1>2, <1>3 DEF DoubleMid
<1>5. \A s \in Side \cup {None} :
        LET i == OrderIntent(s, Depth, ReferencePrice, OrderQuantity)
        IN i # None => i.price = ReferencePrice
  BY <1>2 DEF OrderIntent
<1>6. QED
  BY <1>1, <1>4, <1>5

\* A history that is all one mid shows no trend.
LEMMA NoTrend ==
  ASSUME NEW c \in Int, NEW h \in Seq(Int), Len(h) <= HistoryWindow,
         \A i \in DOMAIN h : h[i] = c
  PROVE  TrendSide(c, h, HistoryWindow, TrendThreshold) = None
<1> DEFINE total == SumFunctionOnSet(h, DOMAIN h)
<1>1. HistoryWindow \in Nat \ {0} /\ TrendThreshold \in Nat
  BY FloorAssumption
<1>2. DOMAIN h = 1 .. Len(h) /\ Len(h) \in Nat
  OBVIOUS
<1>3. CASE Len(h) < HistoryWindow
  BY <1>1, <1>2, <1>3 DEF TrendSide
<1>4. CASE ~(Len(h) < HistoryWindow)
  <2>1. Len(h) = HistoryWindow
    <3>1. \A n, w \in Nat : n <= w /\ ~(n < w) => n = w
      OBVIOUS
    <3>2. QED
      BY <1>1, <1>2, <1>4, <3>1
  <2>2. IsFiniteSet(DOMAIN h) /\ Cardinality(DOMAIN h) = HistoryWindow
    <3>1. IsFiniteSet(1 .. HistoryWindow) /\ Cardinality(1 .. HistoryWindow) = HistoryWindow
      BY <1>1, FS_Interval
    <3>2. DOMAIN h = 1 .. HistoryWindow
      BY <1>2, <2>1
    <3> DEFINE D == DOMAIN h
    <3>3. D = 1 .. HistoryWindow
      BY <3>2
    <3> HIDE DEF D
    <3>4. IsFiniteSet(D) /\ Cardinality(D) = HistoryWindow
      BY <3>1, <3>3
    <3>5. QED
      BY <3>4 DEF D
  <2>3. \A i \in DOMAIN h : h[i] \in Int /\ h[i] <= c /\ h[i] >= c
    OBVIOUS
  <2>4. total \in Int /\ total <= c * HistoryWindow
    BY <2>2, <2>3, SumAtMost
  <2>5. total >= c * HistoryWindow
    BY <2>2, <2>3, SumAtLeast
  <2>6. c * HistoryWindow \in Int
    BY <1>1
  <2> HIDE DEF total
  <2>7. total = c * HistoryWindow
    BY <2>4, <2>5, <2>6
  <2> DEFINE trend == c * HistoryWindow - total
  <2>8. trend = 0
    BY <2>6, <2>7
  <2>9. ~(trend > 2 * HistoryWindow * TrendThreshold) /\ ~(trend < -2 * HistoryWindow * TrendThreshold)
    <3> DEFINE wt == HistoryWindow * TrendThreshold
    <3>1. wt \in Nat
      BY <1>1
    <3>2. /\ 2 * HistoryWindow * TrendThreshold = 2 * wt
          /\ -2 * HistoryWindow * TrendThreshold = -2 * wt
      BY <1>1
    <3> HIDE DEF wt, trend
    <3>3. QED
      BY <2>8, <3>1, <3>2
  <2>10. QED
    BY <1>4, <2>9 DEF TrendSide, total
<1>5. QED
  BY <1>3, <1>4

\* An order at the reference price leaves one side of a calm market resting: it
\* meets whatever rests opposite.
LEMMA OneSideRests ==
  ASSUME FloorInv, Calm, NEW a \in Agent, NEW id \in ID, Execute(a, id),
         intent[a].price = ReferencePrice
  PROVE  \A o, p \in resting' : ord'[o].side = ord'[p].side
<1> DEFINE r == OrderRequest(id, intent[a])
           t == Accepted(r, clock + 1)
<1>1. intent[a] \in Intent /\ Outcome(Fresh, t)
  BY ExecuteServes
<1>2. /\ t.side = intent[a].side /\ t.price = ReferencePrice /\ t.side \in Side
  BY <1>1 DEF Accepted, OrderRequest, Intent
<1>3. t \in Booked
  BY <1>1 DEF Outcome
<1> HIDE DEF t
<1>4. /\ \A m \in resting' \ {Fresh} :
           m \in resting /\ m # Fresh /\ ord'[m].quantity > 0 /\ ord'[m].side = ord[m].side
      /\ Fresh \in resting' => ord'[Fresh].quantity > 0
      /\ ord'[Fresh].side = t.side /\ ord'[Fresh].quantity = Book!Remainder(t)
      /\ \A m \in resting : ord'[m].quantity = ord[m].quantity - Book!FillOf(t, m)
  <2>1. \A m \in resting : m \in DOMAIN ord
    BY DEF FloorInv, BookInv
  <2>2. resting' \subseteq resting \cup {Fresh}
    BY <1>1 DEF Outcome
  <2>3. \A m \in resting' \ {Fresh} : m \in resting /\ m \in DOMAIN ord
    BY <2>1, <2>2
  <2>4. QED
    BY <1>1, <2>1, <2>3 DEF Outcome
<1>5. ASSUME NEW m \in resting' \ {Fresh}, ord[m].side # t.side PROVE Fresh \notin resting'
  <2>1. m \in resting /\ ord[m] \in Booked
    BY <1>4 DEF FloorInv, BookInv
  <2>2. ord[m].price = ReferencePrice
    BY <2>1 DEF Calm, FloorInv, BookInv
  <2>3. ord[m].side = Book!Opposite(t.side)
    BY <1>2, <1>5, <2>1 DEF Booked, Book!Opposite, Side, Book!Buy, Buy, Book!Sell, Sell
  <2>4. Book!Accepts(t, ord[m].price)
    BY <1>2, <2>2, FloorAssumption DEF Book!Accepts, Book!Precedes
  <2>5. Book!Crosses(t, ord[m])
    BY <2>3, <2>4 DEF Book!Crosses
  <2>6. Book!FillOf(t, m) # ord[m].quantity
    <3>1. ord'[m].quantity > 0 /\ ord'[m].quantity = ord[m].quantity - Book!FillOf(t, m)
      BY <1>4, <2>1
    <3>2. ord[m].quantity \in Int
      BY <2>1 DEF Booked
    <3>3. QED
      BY <3>1, <3>2
  <2>7. Book!Remainder(t) <= 0
    BY <1>3, <2>1, <2>5, <2>6, NothingLeftToCross DEF FloorInv
  <2>8. Book!Remainder(t) \in Int
    BY <1>3, RemainderIsInt DEF FloorInv
  <2>9. QED
    BY <1>4, <2>7, <2>8
<1>6. ASSUME NEW o \in resting', NEW p \in resting' PROVE ord'[o].side = ord'[p].side
  <2>1. CASE Fresh \notin resting'
    BY <1>4, <2>1 DEF Calm
  <2>2. CASE Fresh \in resting'
    BY <1>4, <1>5, <2>2
  <2>3. QED
    BY <2>1, <2>2
<1>7. QED
  BY <1>6

\* One step: a market without another client's orders was without them before.
LEMMA StepCalmInv == FloorInv /\ CalmInv /\ [Next]_vars => CalmInv'
<1> SUFFICES ASSUME FloorInv, CalmInv, [Next]_vars, MineOf(Outsider)' = {} PROVE Calm'
  BY DEF CalmInv
<1>1. \A o \in DOMAIN ord' : ord'[o].id[1] # Outsider
  BY DEF MineOf, Owner
<1>2. Calm
  <2>1. \A o \in DOMAIN ord : ord[o].id[1] # Outsider
    BY <1>1, OrdersKept
  <2>2. QED
    BY <2>1 DEF CalmInv, MineOf, Owner
<1>3. ASSUME NEW r \in OutsiderRequest, Outside(r) PROVE FALSE
  <2>1. Outcome(Fresh, Accepted(r, clock + 1)) /\ r.id[1] = Outsider
    BY <1>3, OutsideServes
  <2>2. Fresh \in DOMAIN ord' /\ ord'[Fresh].id = r.id
    BY <2>1 DEF Outcome, Accepted
  <2>3. QED
    BY <1>1, <2>1, <2>2
<1>4. intent \in [Agent -> Intent \cup {None}] /\ history \in [Momentum -> Seq(Int)]
  BY DEF FloorInv, TickInv
<1>5. \A o \in DOMAIN ord' : ord'[o].price = ReferencePrice /\ ord'[o].id[1] \in News
  <2>1. SUFFICES ASSUME NEW o \in DOMAIN ord'
                 PROVE  ord'[o].price = ReferencePrice /\ ord'[o].id[1] \in News
    OBVIOUS
  <2>2. CASE o \in DOMAIN ord
    BY <1>2, <2>2, OrdersKept DEF Calm, Owner
  <2>3. CASE o \notin DOMAIN ord
    <3>1. PICK a \in Agent : /\ ord'[o].id[1] = a /\ intent[a] \in Intent
                             /\ ord'[o].price = intent[a].price
      BY <1>1, <2>3, OrdersAdded
    <3>2. intent[a] # None
      BY <3>1, FloorAssumption
    <3>3. QED
      BY <1>2, <3>1, <3>2 DEF Calm, Agent
  <2>4. QED
    BY <2>2, <2>3
<1>6. ASSUME NEW a \in Momentum, PerceiveTrend(a) PROVE Calm'
  <2> DEFINE c == 2 * ReferencePrice
  <2>1. c \in Int
    BY FloorAssumption
  <2>2. DoubleMid(Depth, ReferencePrice) = c
    BY <1>2, CalmQuotes
  <2> HIDE DEF c
  <2>3. /\ history[a] \in Seq(Int) /\ Len(history[a]) <= HistoryWindow
        /\ \A i \in DOMAIN history[a] : history[a][i] = c
    BY <1>2, <1>4 DEF Calm, FloorInv, TickInv, c
  <2>4. TrendSide(c, history[a], HistoryWindow, TrendThreshold) = None
    BY <2>1, <2>3, NoTrend
  <2>5. intent' = [intent EXCEPT ![a] = None]
    <3>1. intent' = [intent EXCEPT ![a] = OrderIntent(None, Depth, ReferencePrice, OrderQuantity)]
      BY <1>6, <2>2, <2>4 DEF PerceiveTrend
    <3>2. OrderIntent(None, Depth, ReferencePrice, OrderQuantity) = None
      BY DEF OrderIntent
    <3>3. QED
      BY <3>1, <3>2
  <2> DEFINE h == Remember(history[a], c, HistoryWindow)
  <2>6. history' = [history EXCEPT ![a] = h]
    BY <1>6, <2>2 DEF PerceiveTrend
  <2>7. \A i \in DOMAIN h : h[i] = c
    BY <2>1, <2>3, RememberIsTyped
  <2> HIDE DEF h
  <2>8. \A b \in Momentum : \A i \in DOMAIN history'[b] : history'[b][i] = 2 * ReferencePrice
    BY <1>2, <1>4, <2>6, <2>7 DEF Calm, c
  <2>9. /\ \A b \in Momentum : intent'[b] = None
        /\ \A b \in News : intent'[b] # None => intent'[b].price = ReferencePrice
    BY <1>2, <1>4, <2>5 DEF Calm, Agent
  <2>10. \A o, p \in resting' : ord'[o].side = ord'[p].side
    BY <1>2, <1>6 DEF PerceiveTrend, book, Calm
  <2>11. QED
    BY <1>5, <2>8, <2>9, <2>10 DEF Calm, Owner
<1>7. ASSUME NEW a \in News, PerceiveNews(a) PROVE Calm'
  <2> DEFINE i == OrderIntent(Reading(a), Depth, ReferencePrice, OrderQuantity)
  <2>1. i # None => i.price = ReferencePrice
    BY <1>2, CalmQuotes, DecidedSides
  <2>2. intent' = [intent EXCEPT ![a] = i] /\ history' = history
    BY <1>7 DEF PerceiveNews, mind
  <2> HIDE DEF i
  <2>3. /\ \A b \in Momentum : intent'[b] = None
        /\ \A b \in News : intent'[b] # None => intent'[b].price = ReferencePrice
    <3>1. Momentum \cap News = {}
      BY FloorAssumption
    <3>2. QED
      BY <1>2, <1>4, <2>1, <2>2, <3>1 DEF Calm, Agent
  <2>4. \A o, p \in resting' : ord'[o].side = ord'[p].side
    BY <1>2, <1>7 DEF PerceiveNews, book, Calm
  <2>5. QED
    BY <1>2, <1>5, <2>2, <2>3, <2>4 DEF Calm, Owner
<1>8. ASSUME NEW a \in Agent, NEW id \in ID, Execute(a, id) PROVE Calm'
  <2>1. intent[a] # None /\ UNCHANGED <<mind, intent>>
    BY <1>8 DEF Execute
  <2>2. intent[a].price = ReferencePrice
    BY <1>2, <2>1 DEF Calm, Agent
  <2>3. \A o, p \in resting' : ord'[o].side = ord'[p].side
    BY <1>2, <1>8, <2>2, OneSideRests
  <2>4. QED
    BY <1>2, <1>5, <2>1, <2>3 DEF Calm, Owner, mind
<1>9. ASSUME NEW a \in Agent, EndTick(a) PROVE Calm'
  <2>1. intent' = [intent EXCEPT ![a] = None] /\ UNCHANGED <<book, mind>>
    BY <1>9, TickEnds
  <2>2. /\ \A b \in Momentum : intent'[b] = None
        /\ \A b \in News : intent'[b] # None => intent'[b].price = ReferencePrice
    BY <1>2, <1>4, <2>1 DEF Calm, Agent
  <2>3. QED
    BY <1>2, <1>5, <2>1, <2>2 DEF Calm, Owner, book, mind
<1>10. CASE \/ \E a \in Agent, id \in ID : Refused(a, id)
            \/ \E o \in Order : OutsideCancel(o)
            \/ ServerRestarts \/ (\E a \in Agent : Leave(a)) \/ Stop \/ Main \/ UNCHANGED vars
  <2>1. /\ UNCHANGED <<ord, history, intent>> /\ resting' \subseteq resting
    BY <1>10 DEF Refused, Book!Refuse, OutsideCancel, Book!Cancel, ServerRestarts, Leave, Stop,
                 Main, vars, book, mind
  <2>2. QED
    BY <1>2, <1>5, <2>1 DEF Calm, Owner
<1>11. CASE \E r \in OutsiderRequest : Outside(r)
  BY <1>3, <1>11
<1>12. QED
  BY <1>6, <1>7, <1>8, <1>9, <1>10, <1>11, FloorSteps

\* Alone, the agents of a symbol deal at the reference price and at nothing
\* else, and nothing trades but between agents configured differently.
THEOREM MarketIsAnchored == Spec => []AnchoredMarket
<1>1. FloorInv /\ SideInv /\ TapeInv /\ CalmInv => AnchoredMarket
  <2> SUFFICES ASSUME FloorInv, SideInv, TapeInv, Calm
               PROVE  /\ Quotes(Buy) = {} \/ Quotes(Sell) = {}
                      /\ \A o \in DOMAIN ord :
                           ord[o].price = ReferencePrice /\ Owner(o) \in News
                      /\ \A a \in Momentum : intent[a] = None
                      /\ \A i \in DOMAIN tape :
                           Config[Owner(tape[i].maker)] # Config[Owner(tape[i].taker)]
    BY DEF CalmInv, AnchoredMarket
  <2>1. Quotes(Buy) = {} \/ Quotes(Sell) = {}
    BY DEF Quotes, Calm, Buy, Sell
  <2>2. AlikeAgree
    BY DEF SideInv, AlikeAgree, Reading
  <2>3. ASSUME NEW i \in DOMAIN tape
        PROVE  Config[Owner(tape[i].maker)] # Config[Owner(tape[i].taker)]
    <3>1. /\ tape[i].maker \in DOMAIN ord /\ tape[i].taker \in DOMAIN ord
          /\ ord[tape[i].maker].side # ord[tape[i].taker].side
      BY DEF TapeInv
    <3>2. Owner(tape[i].maker) \in News /\ Owner(tape[i].taker) \in News
      BY <3>1 DEF Calm
    <3>3. QED
      BY <2>2, <3>1, <3>2 DEF AlikeAgree
  <2>4. QED
    BY <2>1, <2>3 DEF Calm
<1>2. QED
  BY InitFloorInv, StepFloorInv, InitSideInv, StepSideInv, InitTapeInv, StepTapeInv,
     InitCalmInv, StepCalmInv, <1>1, PTL DEF Spec

-----------------------------------------------------------------------------
(* What the thoughts tell. *)

\* The fills of order o as taker, and the orders of agent a, in a given tape
\* and given orders.
Fills(trades, o) == {i \in DOMAIN trades : trades[i].taker = o}
OrdersOf(orders, a) == {o \in DOMAIN orders : orders[o].id[1] = a}

\* An order of a, on side s, is as x tells.
Holds(orders, trades, refusals, a, s, x) ==
  IF x.accepted
  THEN /\ x.struct \in DOMAIN orders /\ orders[x.struct].id[1] = a
       /\ orders[x.struct].side = s
       /\ orders[x.struct].price = x.price /\ orders[x.struct].original = x.quantity
       /\ Cardinality(Fills(trades, x.struct)) = x.trades
  ELSE x.struct \in refusals

\* What will be told of an intent that was answered.
Tells(i, x) ==
  [price |-> i.price, quantity |-> i.quantity,
   struct |-> x.struct, accepted |-> x.accepted, trades |-> x.trades]

\* Everything told, or about to be, holds; no order is refused and accepted.
ToldInv ==
  /\ \A o \in DOMAIN ord : o \notin refused
  /\ \A a \in Agent : result[a] # None =>
       Holds(ord, tape, refused, a, intent[a].side, Tells(intent[a], result[a]))
  /\ \A th \in thoughts :
       /\ th.order = None <=> th.decision = "HOLD"
       /\ th.order # None =>
            Holds(ord, tape, refused, th.agent, th.decision, th.order)

\* The initial state.
LEMMA InitToldInv == Init => ToldInv
BY DEF Init, Book!Init, Book!EmptyMap, ToldInv

\* A thought tells what Tells says, or nothing.
LEMMA ThoughtTells ==
  ASSUME NEW a
  PROVE  /\ \A i \in Intent, x \in Result :
              /\ Thought(a, i, x) = [agent |-> a, decision |-> i.side, order |-> Tells(i, x)]
              /\ Tells(i, x) # None /\ i.side # "HOLD"
         /\ \A x : Thought(a, None, x) = [agent |-> a, decision |-> "HOLD", order |-> None]
<1>1. ASSUME NEW i \in Intent, NEW x \in Result
      PROVE  /\ Thought(a, i, x) = [agent |-> a, decision |-> i.side, order |-> Tells(i, x)]
             /\ Tells(i, x) # None /\ i.side # "HOLD"
  <2>1. i # None /\ x # None
    BY FloorAssumption
  <2>2. Tells(i, x) \in ToldOrder
    BY DEF Tells, ToldOrder, Intent, Result
  <2>3. Tells(i, x) # None
    BY <2>2, FloorAssumption
  <2>4. Thought(a, i, x) = [agent |-> a, decision |-> i.side, order |-> Tells(i, x)]
    BY <2>1 DEF Thought, Tells
  <2>5. i.side # "HOLD"
    BY DEF Intent, Side, Buy, Sell
  <2>6. QED
    BY <2>3, <2>4, <2>5
<1>2. \A x : Thought(a, None, x) = [agent |-> a, decision |-> "HOLD", order |-> None]
  BY DEF Thought
<1>3. QED
  BY <1>1, <1>2

\* The fills of an order are those of its arrival: no later order adds any.
LEMMA FillsKept ==
  ASSUME FloorInv, TapeInv, [Next]_vars
  PROVE  \A o \in DOMAIN ord : Fills(tape', o) = Fills(tape, o)
<1>1. ASSUME NEW x \in Order, NEW t, Outcome(x, t), NEW o \in DOMAIN ord
      PROVE  Fills(tape', o) = Fills(tape, o)
  <2>1. o # x
    BY <1>1 DEF Outcome
  <2>2. \A i \in DOMAIN tape : i \in DOMAIN tape' /\ tape'[i] = tape[i]
    BY <1>1, TradesFollow
  <2>3. \A i \in DOMAIN tape' \ DOMAIN tape : tape'[i].taker = x
    BY <1>1, TradesFollow
  <2>4. QED
    BY <2>1, <2>2, <2>3 DEF Fills
<1>2. CASE \E a \in Agent, id \in ID : Execute(a, id)
  BY <1>1, <1>2, ExecuteServes
<1>3. CASE \E r \in OutsiderRequest : Outside(r)
  BY <1>1, <1>3, OutsideServes
<1>4. CASE UNCHANGED <<ord, tape>>
  BY <1>4
<1>5. QED
  BY <1>2, <1>3, <1>4, TapeKept

\* And those of an order just executed are all the trades that its answer
\* counts.
LEMMA FillsCounted ==
  ASSUME FloorInv, TapeInv, NEW o \in Order, NEW t, Outcome(o, t)
  PROVE  Cardinality(Fills(tape', o)) = Len(tape') - Len(tape)
<1>1. o \notin DOMAIN ord
  BY DEF Outcome
<1>2. \A i \in DOMAIN tape : tape[i].taker # o
  BY <1>1 DEF TapeInv
<1>3. /\ \A i \in DOMAIN tape : tape'[i] = tape[i]
      /\ \A i \in DOMAIN tape' \ DOMAIN tape : tape'[i].taker = o
      /\ Len(tape') - Len(tape) \in Nat
      /\ DOMAIN tape' \ DOMAIN tape = Len(tape) + 1 .. Len(tape')
  BY TradesFollow
<1>4. Fills(tape', o) = DOMAIN tape' \ DOMAIN tape
  BY <1>2, <1>3 DEF Fills
<1>5. Len(tape) \in Nat
  BY DEF FloorInv, BookInv
<1> DEFINE n == Len(tape') - Len(tape)
<1>6. Len(tape') \in Int
  <2>1. tape' = tape \o Book!TradesOf(o, t) /\ t \in Booked
    BY DEF Outcome
  <2>2. Book!TradesOf(o, t) \in Seq(Trade) /\ tape \in Seq(Trade)
    BY <2>1, NewTrades DEF FloorInv, BookInv
  <2>3. QED
    BY <2>1, <2>2, Continues
<1>7. Cardinality(Len(tape) + 1 .. Len(tape')) = Len(tape') - Len(tape)
  <2>1. \A l, k \in Int : l <= k => Cardinality(l + 1 .. k) = k - l
    <3>1. SUFFICES ASSUME NEW l \in Int, NEW k \in Int, l <= k
                   PROVE  Cardinality(l + 1 .. k) = k - l
      OBVIOUS
    <3> DEFINE m == l + 1
    <3>2. m \in Int /\ (IF m > k THEN 0 ELSE k - m + 1) = k - l
      BY <3>1
    <3> HIDE DEF m
    <3>3. Cardinality(m .. k) = IF m > k THEN 0 ELSE k - m + 1
      BY <3>2, FS_Interval
    <3>4. QED
      BY <3>2, <3>3 DEF m
  <2>2. Len(tape) <= Len(tape')
    BY <1>3, <1>5, <1>6
  <2>3. QED
    BY <1>5, <1>6, <2>1, <2>2
<1>8. QED
  BY <1>3, <1>4, <1>7

\* What held holds.
LEMMA HoldsKept ==
  ASSUME FloorInv, TapeInv, [Next]_vars, NEW a, NEW s, NEW x,
         Holds(ord, tape, refused, a, s, x)
  PROVE  Holds(ord', tape', refused', a, s, x)
<1>1. CASE x.accepted
  <2>1. x.struct \in DOMAIN ord
    BY <1>1 DEF Holds
  <2>2. /\ x.struct \in DOMAIN ord' /\ ord'[x.struct].id = ord[x.struct].id
        /\ ord'[x.struct].side = ord[x.struct].side /\ ord'[x.struct].price = ord[x.struct].price
        /\ ord'[x.struct].original = ord[x.struct].original
    BY <2>1, OrdersKept
  <2>3. Fills(tape', x.struct) = Fills(tape, x.struct)
    BY <2>1, FillsKept
  <2>4. QED
    BY <1>1, <2>2, <2>3 DEF Holds
<1>2. CASE ~ x.accepted
  <2>1. refused \subseteq refused'
    <3>1. ASSUME NEW b \in Agent, NEW id \in ID, Execute(b, id) \/ Refused(b, id)
          PROVE  refused \subseteq refused'
      BY <3>1 DEF Execute, Refused, Book!Process, Book!Refuse
    <3>2. CASE \/ \E b \in Momentum : PerceiveTrend(b)
               \/ \E b \in News : PerceiveNews(b)
               \/ \E b \in Agent : EndTick(b)
      BY <3>2, TickEnds DEF PerceiveTrend, PerceiveNews, book
    <3>3. CASE \/ \E r \in OutsiderRequest : Outside(r)
               \/ \E o \in Order : OutsideCancel(o)
               \/ ServerRestarts \/ (\E b \in Agent : Leave(b)) \/ Stop \/ Main
               \/ UNCHANGED vars
      BY <3>3 DEF Outside, Book!Process, OutsideCancel, Book!Cancel, ServerRestarts, Leave,
                  Stop, Main, vars, book
    <3>4. QED
      BY <3>1, <3>2, <3>3, FloorSteps
  <2>2. QED
    BY <1>2, <2>1 DEF Holds
<1>3. QED
  BY <1>1, <1>2

\* What Execute and Refused do with the answer.
LEMMA Answers ==
  ASSUME FloorInv, TapeInv, ToldInv, NEW a \in Agent, NEW id \in ID,
         Execute(a, id) \/ Refused(a, id)
  PROVE  /\ phase[a] = "act" /\ phase' = [phase EXCEPT ![a] = "answered"]
         /\ UNCHANGED <<intent, ticks, thoughts, silent>> /\ intent[a] \in Intent
         /\ Fresh \in Order /\ Fresh \notin DOMAIN ord /\ Fresh \notin refused
         /\ \/ DOMAIN ord' = DOMAIN ord /\ refused' = refused \cup {Fresh}
            \/ DOMAIN ord' = DOMAIN ord \cup {Fresh} /\ ord'[Fresh].id[1] = a /\ refused' = refused
         /\ \E x \in Result :
              /\ result' = [result EXCEPT ![a] = x] /\ x.struct = Fresh
              /\ x.accepted <=> Fresh \in DOMAIN ord'
              /\ Holds(ord', tape', refused', a, intent[a].side, Tells(intent[a], x))
<1>0. intent[a] # None /\ intent \in [Agent -> Intent \cup {None}]
  BY DEF Execute, Refused, FloorInv, TickInv
<1>1. intent[a] \in Intent
  BY <1>0
<1>2. Fresh \in Order /\ Fresh \notin DOMAIN ord /\ Fresh \notin refused
  BY FreshIsNew DEF Execute, Refused, Book!IsNew
<1>3. CASE Execute(a, id)
  <2> DEFINE t == Accepted(OrderRequest(id, intent[a]), clock + 1)
             n == Len(tape') - Len(tape)
             x == OrderResult(Fresh, TRUE, n)
  <2>1. Outcome(Fresh, t) /\ id[1] = a /\ Book!Process(Fresh, OrderRequest(id, intent[a]))
    BY <1>3, ExecuteServes
  <2>2. /\ t.id = id /\ t.side = intent[a].side /\ t.price = intent[a].price
        /\ t.quantity = intent[a].quantity
    BY DEF Accepted, OrderRequest
  <2> HIDE DEF t
  <2>3. /\ DOMAIN ord' = DOMAIN ord \cup {Fresh} /\ ord'[Fresh].id[1] = a
        /\ ord'[Fresh].side = intent[a].side /\ ord'[Fresh].price = intent[a].price
        /\ ord'[Fresh].original = intent[a].quantity
    BY <2>1, <2>2 DEF Outcome
  <2>4. refused' = refused
    BY <2>1 DEF Book!Process
  <2>5. n \in Nat /\ Cardinality(Fills(tape', Fresh)) = n
    BY <1>2, <2>1, TradesFollow, FillsCounted
  <2>6. result' = [result EXCEPT ![a] = x]
    BY <1>3 DEF Execute
  <2> HIDE DEF n
  <2>7. /\ x \in Result /\ x.struct = Fresh /\ x.accepted
        /\ Tells(intent[a], x) = [price |-> intent[a].price, quantity |-> intent[a].quantity,
                                  struct |-> Fresh, accepted |-> TRUE, trades |-> n]
    BY <1>2, <2>5 DEF OrderResult, Result, Tells
  <2> HIDE DEF x
  <2>8. Holds(ord', tape', refused', a, intent[a].side, Tells(intent[a], x))
    BY <2>3, <2>5, <2>7 DEF Holds
  <2>9. /\ phase[a] = "act" /\ phase' = [phase EXCEPT ![a] = "answered"]
        /\ UNCHANGED <<intent, ticks, thoughts, silent>>
    BY <1>3 DEF Execute, Goto
  <2>10. QED
    BY <1>1, <1>2, <2>3, <2>4, <2>6, <2>7, <2>8, <2>9
<1>4. CASE Refused(a, id)
  <2> DEFINE x == OrderResult(Fresh, FALSE, 0)
  <2>1. ord' = ord /\ refused' = refused \cup {Fresh} /\ result' = [result EXCEPT ![a] = x]
    BY <1>4 DEF Refused, Book!Refuse
  <2>2. /\ x \in Result /\ x.struct = Fresh /\ ~ x.accepted
        /\ Tells(intent[a], x).struct = Fresh /\ ~ Tells(intent[a], x).accepted
    BY <1>2 DEF OrderResult, Result, Tells
  <2> HIDE DEF x
  <2>3. Holds(ord', tape', refused', a, intent[a].side, Tells(intent[a], x))
    BY <2>1, <2>2 DEF Holds
  <2>4. /\ phase[a] = "act" /\ phase' = [phase EXCEPT ![a] = "answered"]
        /\ UNCHANGED <<intent, ticks, thoughts, silent>>
    BY <1>4 DEF Refused, Goto
  <2>5. QED
    BY <1>1, <1>2, <2>1, <2>2, <2>3, <2>4
<1>5. QED
  BY <1>3, <1>4

\* One step.
LEMMA StepToldInv == FloorInv /\ TapeInv /\ ToldInv /\ [Next]_vars => ToldInv'
<1> SUFFICES ASSUME FloorInv, TapeInv, ToldInv, [Next]_vars PROVE ToldInv'
  OBVIOUS
<1>0. /\ intent \in [Agent -> Intent \cup {None}] /\ result \in [Agent -> Result \cup {None}]
      /\ \A a \in Agent : result[a] # None <=> phase[a] = "answered"
      /\ \A a \in Agent : result[a] # None => intent[a] # None
      /\ None \notin Intent /\ None \notin Result
  BY FloorAssumption DEF FloorInv, TickInv
<1> DEFINE Apart == \A o \in DOMAIN ord' : o \notin refused'
           Hand(a) == result'[a] # None =>
             Holds(ord', tape', refused', a, intent'[a].side, Tells(intent'[a], result'[a]))
           Says(th) == /\ th.order = None <=> th.decision = "HOLD"
                       /\ th.order # None =>
                            Holds(ord', tape', refused', th.agent, th.decision, th.order)
<1>1. \A th \in thoughts : Says(th)
  BY HoldsKept DEF ToldInv
<1>2. \A a \in Agent : result'[a] = result[a] /\ intent'[a] = intent[a] => Hand(a)
  <2>1. SUFFICES ASSUME NEW a \in Agent, result[a] # None
                 PROVE  Holds(ord', tape', refused', a, intent[a].side, Tells(intent[a], result[a]))
    OBVIOUS
  <2>2. Holds(ord, tape, refused, a, intent[a].side, Tells(intent[a], result[a]))
    BY <2>1 DEF ToldInv
  <2> DEFINE s == intent[a].side
             x == Tells(intent[a], result[a])
  <2> HIDE DEF s, x
  <2>3. Holds(ord', tape', refused', a, s, x)
    BY <2>2, HoldsKept DEF s, x
  <2>4. QED
    BY <2>3 DEF s, x
<1>3. ASSUME NEW a \in Agent, NEW id \in ID, Execute(a, id) \/ Refused(a, id)
      PROVE  Apart /\ (\A b \in Agent : Hand(b)) /\ (\A th \in thoughts' : Says(th))
  <2>1. /\ UNCHANGED <<intent, thoughts>>
        /\ Fresh \notin DOMAIN ord /\ Fresh \notin refused
        /\ \/ DOMAIN ord' = DOMAIN ord /\ refused' = refused \cup {Fresh}
           \/ DOMAIN ord' = DOMAIN ord \cup {Fresh} /\ refused' = refused
    BY <1>3, Answers
  <2>2. PICK x \in Result :
          /\ result' = [result EXCEPT ![a] = x]
          /\ Holds(ord', tape', refused', a, intent[a].side, Tells(intent[a], x))
    BY <1>3, Answers
  <2>3. Apart
    BY <2>1 DEF ToldInv
  <2>4. \A b \in Agent \ {a} : result'[b] = result[b] /\ intent'[b] = intent[b]
    BY <2>1, <2>2
  <2>5. result'[a] = x /\ intent'[a] = intent[a]
    BY <1>0, <2>1, <2>2
  <2>6. Hand(a)
    BY <2>2, <2>5
  <2> HIDE DEF Hand, Says, Apart
  <2>7. QED
    BY <1>1, <1>2, <2>1, <2>3, <2>4, <2>6
<1>4. ASSUME NEW a \in Agent, EndTick(a)
      PROVE  Apart /\ (\A b \in Agent : Hand(b)) /\ (\A th \in thoughts' : Says(th))
  <2>1. /\ intent' = [intent EXCEPT ![a] = None] /\ result' = [result EXCEPT ![a] = None]
        /\ UNCHANGED book
        /\ \/ thoughts' = thoughts \cup {Thought(a, intent[a], result[a])}
              /\ (phase[a] = "act" => intent[a] = None)
           \/ thoughts' = thoughts
        /\ phase[a] \in {"act", "answered"}
    BY <1>4, TickEnds
  <2>2. Apart
    BY <2>1 DEF ToldInv, book
  <2>3. ASSUME phase[a] = "act" => intent[a] = None
        PROVE  Says(Thought(a, intent[a], result[a]))
    <3>1. CASE intent[a] = None
      BY <3>1, ThoughtTells
    <3>2. CASE intent[a] # None
      <4>1. /\ intent[a] \in Intent /\ result[a] \in Result /\ result[a] # None
        BY <1>0, <2>1, <2>3, <3>2
      <4>2. Holds(ord, tape, refused, a, intent[a].side, Tells(intent[a], result[a]))
        BY <4>1 DEF ToldInv
      <4>3. Holds(ord', tape', refused', a, intent[a].side, Tells(intent[a], result[a]))
        BY <2>1, <4>2 DEF book
      <4> DEFINE i == intent[a]
                 x == result[a]
      <4> HIDE DEF i, x
      <4>4. /\ Thought(a, i, x) = [agent |-> a, decision |-> i.side, order |-> Tells(i, x)]
            /\ Tells(i, x) # None /\ i.side # "HOLD"
        BY <4>1, ThoughtTells DEF i, x
      <4>5. Holds(ord', tape', refused', a, i.side, Tells(i, x))
        BY <4>3 DEF i, x
      <4>6. Says(Thought(a, i, x))
        BY <4>4, <4>5
      <4>7. QED
        BY <4>6 DEF i, x
    <3>3. QED
      BY <3>1, <3>2
  <2>4. \A b \in Agent \ {a} : result'[b] = result[b] /\ intent'[b] = intent[b]
    BY <2>1
  <2>5. Hand(a)
    BY <1>0, <2>1
  <2>6. ASSUME NEW th \in thoughts' PROVE Says(th)
    <3> DEFINE new == Thought(a, intent[a], result[a])
    <3>1. \/ thoughts' = thoughts \cup {new} /\ (phase[a] = "act" => intent[a] = None)
          \/ thoughts' = thoughts
      BY <2>1
    <3>2. (phase[a] = "act" => intent[a] = None) => Says(new)
      BY <2>3
    <3> HIDE DEF new, Says
    <3>3. QED
      BY <1>1, <2>6, <3>1, <3>2
  <2> HIDE DEF Hand, Says, Apart
  <2>7. \A b \in Agent : Hand(b)
    BY <1>2, <2>4, <2>5
  <2>8. QED
    BY <2>2, <2>6, <2>7
<1>5. ASSUME NEW a \in Agent, PerceiveTrend(a) \/ PerceiveNews(a)
      PROVE  Apart /\ (\A b \in Agent : Hand(b)) /\ (\A th \in thoughts' : Says(th))
  <2>1. /\ phase[a] = "idle" /\ \E i : intent' = [intent EXCEPT ![a] = i]
        /\ UNCHANGED <<book, result, thoughts>>
    BY <1>5, Perceives
  <2>2. Apart
    BY <2>1 DEF ToldInv, book
  <2>3. Hand(a)
    BY <1>0, <2>1
  <2>4. \A b \in Agent \ {a} : result'[b] = result[b] /\ intent'[b] = intent[b]
    BY <2>1
  <2> HIDE DEF Hand, Says, Apart
  <2>5. QED
    <3>1. thoughts' = thoughts
      BY <2>1
    <3>2. \A b \in Agent : Hand(b)
      BY <1>2, <2>3, <2>4
    <3>3. QED
      BY <1>1, <2>2, <3>1, <3>2
<1>6. ASSUME UNCHANGED <<intent, result, thoughts>>, Apart
      PROVE  Apart /\ (\A b \in Agent : Hand(b)) /\ (\A th \in thoughts' : Says(th))
  <2> HIDE DEF Hand, Says, Apart
  <2>1. QED
    BY <1>1, <1>2, <1>6
<1>7. CASE \E r \in OutsiderRequest : Outside(r)
  <2>1. UNCHANGED <<intent, result, thoughts>>
    BY <1>7 DEF Outside
  <2>2. Apart
    <3>1. DOMAIN ord' = DOMAIN ord \cup {Fresh} /\ Fresh \notin refused
      BY <1>7, OutsideServes DEF Outcome
    <3>2. refused' = refused
      BY <1>7 DEF Outside, Book!Process
    <3>3. QED
      BY <3>1, <3>2 DEF ToldInv
  <2>3. QED
    BY <1>6, <2>1, <2>2 DEF ToldInv
<1>8. CASE \/ \E o \in Order : OutsideCancel(o)
           \/ ServerRestarts \/ (\E a \in Agent : Leave(a)) \/ Stop \/ Main \/ UNCHANGED vars
  <2>1. UNCHANGED <<intent, result, thoughts, ord, refused>>
    BY <1>8 DEF OutsideCancel, Book!Cancel, ServerRestarts, Leave, Stop, Main, vars, book
  <2>2. Apart
    BY <2>1 DEF ToldInv
  <2>3. QED
    BY <1>6, <2>1, <2>2 DEF ToldInv
<1>9. ToldInv' <=> Apart /\ (\A b \in Agent : Hand(b)) /\ (\A th \in thoughts' : Says(th))
  BY DEF ToldInv
<1>10. CASE \E a \in Agent, id \in ID : Execute(a, id) \/ Refused(a, id)
  BY <1>3, <1>9, <1>10
<1>11. CASE \E a \in Agent : EndTick(a)
  BY <1>4, <1>9, <1>11
<1>12. CASE (\E a \in Momentum : PerceiveTrend(a)) \/ (\E a \in News : PerceiveNews(a))
  BY <1>5, <1>9, <1>12 DEF Agent
<1>13. QED
  BY <1>7, <1>8, <1>10, <1>11, <1>12, FloorSteps

-----------------------------------------------------------------------------
(* One order a tick, told once. *)

\* Every tick that got a depth made at most one order, and one that is yet to
\* act none.
CountInv ==
  \A a \in Agent :
    /\ IsFiniteSet(OrdersOf(ord, a))
    /\ Cardinality(OrdersOf(ord, a)) + (IF phase[a] = "act" THEN 1 ELSE 0) <= ticks[a]

\* The initial state.
LEMMA InitCountInv == Init => CountInv
<1> SUFFICES ASSUME Init, NEW a \in Agent
             PROVE  /\ IsFiniteSet(OrdersOf(ord, a))
                    /\ Cardinality(OrdersOf(ord, a)) + (IF phase[a] = "act" THEN 1 ELSE 0) <= ticks[a]
  BY DEF CountInv
<1>1. OrdersOf(ord, a) = {}
  BY DEF Init, Book!Init, Book!EmptyMap, OrdersOf
<1>2. phase[a] = "idle" /\ ticks[a] = 0
  BY DEF Init
<1>3. QED
  BY <1>1, <1>2, FS_EmptySet

\* The orders of an agent are what they were, and its newest.
LEMMA OrdersOfKept ==
  ASSUME FloorInv, [Next]_vars, NEW b \in Agent,
         \A o \in DOMAIN ord' \ DOMAIN ord : ord'[o].id[1] # b
  PROVE  OrdersOf(ord', b) = OrdersOf(ord, b)
BY OrdersKept DEF OrdersOf

\* One step.
LEMMA StepCountInv == FloorInv /\ TapeInv /\ ToldInv /\ CountInv /\ [Next]_vars => CountInv'
<1> SUFFICES ASSUME FloorInv, TapeInv, ToldInv, CountInv, [Next]_vars, NEW b \in Agent
             PROVE  /\ IsFiniteSet(OrdersOf(ord', b))
                    /\ Cardinality(OrdersOf(ord', b)) + (IF phase'[b] = "act" THEN 1 ELSE 0)
                         <= ticks'[b]
  <2>1. CountInv' <=>
          \A b \in Agent :
            /\ IsFiniteSet(OrdersOf(ord', b))
            /\ Cardinality(OrdersOf(ord', b)) + (IF phase'[b] = "act" THEN 1 ELSE 0)
                 <= ticks'[b]
    BY DEF CountInv
  <2>2. QED
    BY <2>1
<1> DEFINE n == Cardinality(OrdersOf(ord, b))
<1>0. /\ ticks \in [Agent -> 0 .. MaxTicks] /\ MaxTicks \in Nat
      /\ phase \in [Agent -> {"idle", "act", "answered", "left"}]
  BY FloorAssumption DEF FloorInv, TickInv, EndInv
<1>1. /\ IsFiniteSet(OrdersOf(ord, b)) /\ n \in Nat /\ ticks[b] \in Nat
      /\ n + (IF phase[b] = "act" THEN 1 ELSE 0) <= ticks[b]
  BY <1>0, FS_CardinalityType DEF CountInv
<1>2. ASSUME OrdersOf(ord', b) = OrdersOf(ord, b),
             \/ phase'[b] = phase[b] /\ ticks'[b] = ticks[b]
             \/ phase'[b] # "act" /\ ticks'[b] = ticks[b]
             \/ phase[b] = "idle" /\ ticks'[b] = ticks[b] + 1
      PROVE  /\ IsFiniteSet(OrdersOf(ord', b))
             /\ Cardinality(OrdersOf(ord', b)) + (IF phase'[b] = "act" THEN 1 ELSE 0)
                  <= ticks'[b]
  <2>1. IsFiniteSet(OrdersOf(ord', b)) /\ Cardinality(OrdersOf(ord', b)) = n
    BY <1>1, <1>2
  <2> HIDE DEF n
  <2>2. n + (IF phase'[b] = "act" THEN 1 ELSE 0) <= ticks'[b]
    BY <1>1, <1>2
  <2>3. QED
    BY <2>1, <2>2
<1>3. CASE \E a \in Agent, id \in ID : Execute(a, id) \/ Refused(a, id)
  <2>1. PICK a \in Agent, id \in ID : Execute(a, id) \/ Refused(a, id)
    BY <1>3
  <2>2. /\ phase[a] = "act" /\ phase' = [phase EXCEPT ![a] = "answered"] /\ ticks' = ticks
        /\ Fresh \notin DOMAIN ord
        /\ \/ DOMAIN ord' = DOMAIN ord
           \/ DOMAIN ord' = DOMAIN ord \cup {Fresh} /\ ord'[Fresh].id[1] = a
    BY <2>1, Answers
  <2>3. CASE b # a \/ DOMAIN ord' = DOMAIN ord
    <3>1. OrdersOf(ord', b) = OrdersOf(ord, b)
      BY <2>2, <2>3, OrdersOfKept
    <3>2. \/ phase'[b] = phase[b] /\ ticks'[b] = ticks[b]
          \/ phase'[b] # "act" /\ ticks'[b] = ticks[b]
      BY <1>0, <2>2
    <3>3. QED
      BY <1>2, <3>1, <3>2
  <2>4. CASE b = a /\ DOMAIN ord' = DOMAIN ord \cup {Fresh} /\ ord'[Fresh].id[1] = a
    <3>1. OrdersOf(ord', b) = OrdersOf(ord, b) \cup {Fresh} /\ Fresh \notin OrdersOf(ord, b)
      BY <2>2, <2>4, OrdersKept DEF OrdersOf
    <3>2. IsFiniteSet(OrdersOf(ord', b)) /\ Cardinality(OrdersOf(ord', b)) = n + 1
      BY <1>1, <3>1, FS_AddElement
    <3> HIDE DEF n
    <3>3. phase[b] = "act" /\ phase'[b] = "answered" /\ ticks'[b] = ticks[b]
      BY <1>0, <2>2, <2>4
    <3>4. n + 1 <= ticks[b]
      BY <1>1, <3>3
    <3>5. QED
      BY <1>1, <3>2, <3>3, <3>4
  <2>5. QED
    BY <2>2, <2>3, <2>4
<1>4. CASE \E r \in OutsiderRequest : Outside(r)
  <2>1. \A o \in DOMAIN ord' \ DOMAIN ord : ord'[o].id[1] # b
    <3>1. PICK r \in OutsiderRequest : Outside(r)
      BY <1>4
    <3> DEFINE t == Accepted(r, clock + 1)
    <3>2. Outcome(Fresh, t) /\ r.id[1] = Outsider
      BY <3>1, OutsideServes
    <3>3. t.id = r.id
      BY DEF Accepted
    <3> HIDE DEF t
    <3>4. Outsider # b
      BY FloorAssumption
    <3>5. QED
      BY <3>2, <3>3, <3>4 DEF Outcome
  <2>2. OrdersOf(ord', b) = OrdersOf(ord, b)
    BY <2>1, OrdersOfKept
  <2>3. phase' = phase /\ ticks' = ticks
    BY <1>4 DEF Outside
  <2>4. QED
    BY <1>2, <2>2, <2>3
<1>5. CASE (\E a \in Momentum : PerceiveTrend(a)) \/ (\E a \in News : PerceiveNews(a))
  <2>1. PICK a \in Agent : PerceiveTrend(a) \/ PerceiveNews(a)
    BY <1>5 DEF Agent
  <2>2. /\ phase[a] = "idle" /\ phase' = [phase EXCEPT ![a] = "act"]
        /\ ticks' = [ticks EXCEPT ![a] = @ + 1] /\ UNCHANGED book
    BY <2>1, Perceives
  <2>3. OrdersOf(ord', b) = OrdersOf(ord, b)
    BY <2>2 DEF book
  <2>4. CASE b = a
    BY <1>0, <1>2, <2>2, <2>3, <2>4
  <2>5. CASE b # a
    BY <1>0, <1>2, <2>2, <2>3, <2>5
  <2>6. QED
    BY <2>4, <2>5
<1>6. CASE \E a \in Agent : EndTick(a)
  <2>1. PICK a \in Agent : EndTick(a)
    BY <1>6
  <2>2. phase' = [phase EXCEPT ![a] = "idle"] /\ ticks' = ticks /\ UNCHANGED book
    BY <2>1, TickEnds
  <2>3. OrdersOf(ord', b) = OrdersOf(ord, b)
    BY <2>2 DEF book
  <2>4. CASE b = a
    BY <1>0, <1>2, <2>2, <2>3, <2>4
  <2>5. CASE b # a
    BY <1>0, <1>2, <2>2, <2>3, <2>5
  <2>6. QED
    BY <2>4, <2>5
<1>7. CASE \E a \in Agent : Leave(a)
  <2>1. PICK a \in Agent : Leave(a)
    BY <1>7
  <2>2. phase' = [phase EXCEPT ![a] = "left"] /\ ticks' = ticks /\ UNCHANGED book
    BY <2>1 DEF Leave, Goto
  <2>3. OrdersOf(ord', b) = OrdersOf(ord, b)
    BY <2>2 DEF book
  <2>4. CASE b = a
    BY <1>0, <1>2, <2>2, <2>3, <2>4
  <2>5. CASE b # a
    BY <1>0, <1>2, <2>2, <2>3, <2>5
  <2>6. QED
    BY <2>4, <2>5
<1>8. CASE (\E o \in Order : OutsideCancel(o)) \/ ServerRestarts \/ Stop \/ Main \/ UNCHANGED vars
  <2>1. UNCHANGED <<ord, phase, ticks>>
    BY <1>8 DEF OutsideCancel, Book!Cancel, ServerRestarts, Stop, Main, vars, book
  <2>2. QED
    BY <1>2, <2>1
<1>9. QED
  BY <1>3, <1>4, <1>5, <1>6, <1>7, <1>8, FloorSteps

\* The thoughts that tell of order o.
Tellers(said, o) == {th \in said : th.order # None /\ th.order.struct = o}

\* Whether the answer to order o, of a, is in hand.
InHand(results, a, o) == results[a] # None /\ results[a].struct = o

\* An order of an agent is in its hands, silent, or told, once.
OnceInv ==
  \A o \in DOMAIN ord : ord[o].id[1] \in Agent =>
    LET hand == InHand(result, ord[o].id[1], o)
    IN /\ ~(hand /\ o \in silent)
       /\ hand \/ o \in silent => Tellers(thoughts, o) = {}
       /\ ~hand /\ o \notin silent => \E th : Tellers(thoughts, o) = {th}

\* The initial state.
LEMMA InitOnceInv == Init => OnceInv
BY DEF Init, Book!Init, Book!EmptyMap, OnceInv

\* Thoughts and answers are about structs the book has seen, and an answer
\* about an order of the book is to its owner and accepts it.
LEMMA AboutSeen ==
  ASSUME FloorInv, ToldInv
  PROVE  /\ \A th \in thoughts : th.order # None =>
              th.order.struct \in DOMAIN ord \/ th.order.struct \in refused
         /\ \A a \in Agent : \A o \in DOMAIN ord : InHand(result, a, o) =>
              /\ ord[o].id[1] = a /\ result[a].accepted
              /\ intent[a] \in Intent /\ result[a] \in Result
<1>1. \A th \in thoughts : th.order # None =>
        th.order.struct \in DOMAIN ord \/ th.order.struct \in refused
  BY DEF ToldInv, Holds
<1>2. ASSUME NEW a \in Agent, NEW o \in DOMAIN ord, InHand(result, a, o)
      PROVE  /\ ord[o].id[1] = a /\ result[a].accepted
             /\ intent[a] \in Intent /\ result[a] \in Result
  <2>1. result[a] # None /\ result[a].struct = o
    BY <1>2 DEF InHand
  <2>2. intent[a] \in Intent /\ result[a] \in Result
    BY <2>1 DEF FloorInv, TickInv
  <2>3. /\ Tells(intent[a], result[a]).struct = o
        /\ Tells(intent[a], result[a]).accepted = result[a].accepted
    BY <2>1 DEF Tells
  <2>4. Holds(ord, tape, refused, a, intent[a].side, Tells(intent[a], result[a]))
    BY <2>1 DEF ToldInv
  <2>5. o \notin refused
    BY DEF ToldInv
  <2>6. QED
    BY <2>2, <2>3, <2>4, <2>5 DEF Holds
<1>3. QED
  BY <1>1, <1>2

\* One step.
LEMMA StepOnceInv == FloorInv /\ TapeInv /\ ToldInv /\ OnceInv /\ [Next]_vars => OnceInv'
<1> SUFFICES ASSUME FloorInv, TapeInv, ToldInv, OnceInv, [Next]_vars,
                    NEW o \in DOMAIN ord', NEW a \in Agent, ord'[o].id[1] = a
             PROVE  /\ ~(InHand(result', a, o) /\ o \in silent')
                    /\ InHand(result', a, o) \/ o \in silent' => Tellers(thoughts', o) = {}
                    /\ ~InHand(result', a, o) /\ o \notin silent' =>
                         \E th : Tellers(thoughts', o) = {th}
  <2>1. OnceInv' <=>
          \A o \in DOMAIN ord' : ord'[o].id[1] \in Agent =>
            /\ ~(InHand(result', ord'[o].id[1], o) /\ o \in silent')
            /\ InHand(result', ord'[o].id[1], o) \/ o \in silent' => Tellers(thoughts', o) = {}
            /\ ~InHand(result', ord'[o].id[1], o) /\ o \notin silent' =>
                 \E th : Tellers(thoughts', o) = {th}
    BY DEF OnceInv
  <2>2. QED
    BY <2>1
<1> DEFINE Once == /\ ~(InHand(result', a, o) /\ o \in silent')
                   /\ InHand(result', a, o) \/ o \in silent' => Tellers(thoughts', o) = {}
                   /\ ~InHand(result', a, o) /\ o \notin silent' =>
                        \E th : Tellers(thoughts', o) = {th}
<1>0. /\ result \in [Agent -> Result \cup {None}] /\ silent \subseteq DOMAIN ord
      /\ \A b \in Agent : result[b] # None <=> phase[b] = "answered"
      /\ \A b \in Agent : result[b] # None => intent[b] # None
      /\ intent \in [Agent -> Intent \cup {None}]
      /\ None \notin Result /\ None \notin Intent
  BY FloorAssumption DEF FloorInv, TickInv
<1>1. ASSUME o \in DOMAIN ord
      PROVE  /\ ord[o].id[1] = a
             /\ ~(InHand(result, a, o) /\ o \in silent)
             /\ InHand(result, a, o) \/ o \in silent => Tellers(thoughts, o) = {}
             /\ ~InHand(result, a, o) /\ o \notin silent => \E th : Tellers(thoughts, o) = {th}
  <2>1. ord[o].id[1] = a
    BY <1>1, OrdersKept
  <2>2. QED
    BY <1>1, <2>1 DEF OnceInv
<1>2. ASSUME o \in DOMAIN ord, UNCHANGED <<thoughts, silent>>,
             InHand(result', a, o) <=> InHand(result, a, o)
      PROVE  Once
  BY <1>1, <1>2
<1>3. CASE \E c \in Agent, id \in ID : Execute(c, id) \/ Refused(c, id)
  <2>1. PICK c \in Agent, id \in ID : Execute(c, id) \/ Refused(c, id)
    BY <1>3
  <2>2. /\ phase[c] = "act" /\ UNCHANGED <<thoughts, silent>>
        /\ Fresh \notin DOMAIN ord /\ Fresh \notin refused
        /\ \/ DOMAIN ord' = DOMAIN ord
           \/ DOMAIN ord' = DOMAIN ord \cup {Fresh} /\ ord'[Fresh].id[1] = c
    BY <2>1, Answers
  <2>3. PICK x \in Result : result' = [result EXCEPT ![c] = x] /\ x.struct = Fresh
    BY <2>1, Answers
  <2>4. x # None /\ result[c] = None
    BY <1>0, <2>2, <2>3
  <2>5. CASE o \in DOMAIN ord
    <3>1. o # Fresh
      BY <2>2, <2>5
    <3>2. InHand(result', a, o) <=> InHand(result, a, o)
      BY <1>0, <2>3, <2>4, <3>1 DEF InHand
    <3>3. QED
      BY <1>2, <2>2, <2>5, <3>2
  <2>6. CASE o \notin DOMAIN ord
    <3>1. o = Fresh /\ a = c
      BY <2>2, <2>6
    <3>2. InHand(result', a, o)
      BY <1>0, <2>3, <2>4, <3>1 DEF InHand
    <3>3. o \notin silent'
      BY <1>0, <2>2, <2>6
    <3>4. Tellers(thoughts', o) = {}
      BY <2>2, <3>1, AboutSeen DEF Tellers
    <3>5. QED
      BY <3>2, <3>3, <3>4
  <2>7. QED
    BY <2>5, <2>6
<1>4. CASE \E r \in OutsiderRequest : Outside(r)
  <2>1. PICK r \in OutsiderRequest : Outside(r)
    BY <1>4
  <2> DEFINE t == Accepted(r, clock + 1)
  <2>2. Outcome(Fresh, t) /\ r.id[1] = Outsider
    BY <2>1, OutsideServes
  <2>3. t.id = r.id
    BY DEF Accepted
  <2> HIDE DEF t
  <2>4. o \in DOMAIN ord
    BY <2>2, <2>3, FloorAssumption DEF Outcome
  <2>5. UNCHANGED <<thoughts, silent, result>>
    BY <1>4 DEF Outside
  <2>6. QED
    BY <1>2, <2>4, <2>5
<1>5. CASE \E c \in Agent : EndTick(c)
  <2>1. PICK c \in Agent : EndTick(c)
    BY <1>5
  <2>2. /\ result' = [result EXCEPT ![c] = None] /\ UNCHANGED book
        /\ \/ thoughts' = thoughts \cup {Thought(c, intent[c], result[c])} /\ silent' = silent
           \/ thoughts' = thoughts /\ Silenced(c)
        /\ thoughts' # thoughts /\ phase[c] = "act" => intent[c] = None
    <3>1. /\ result' = [result EXCEPT ![c] = None] /\ UNCHANGED book
          /\ \/ thoughts' = thoughts \cup {Thought(c, intent[c], result[c])} /\ silent' = silent
                /\ (phase[c] = "act" => intent[c] = None)
             \/ thoughts' = thoughts /\ Silenced(c)
      BY <2>1, TickEnds
    <3>2. QED
      BY <3>1
  <2>3. o \in DOMAIN ord
    BY <2>2 DEF book
  <2> DEFINE new == Thought(c, intent[c], result[c])
  <2>4. CASE InHand(result, c, o)
    <3>1. /\ a = c /\ result[c].accepted /\ result[c].struct = o /\ result[c] # None
          /\ intent[c] \in Intent /\ result[c] \in Result
      BY <1>1, <2>3, <2>4, AboutSeen DEF InHand
    <3>2. new.order # None /\ new.order.struct = o
      <4> DEFINE i == intent[c]
                 x == result[c]
      <4>1. i \in Intent /\ x \in Result /\ x.struct = o
        BY <3>1
      <4> HIDE DEF i, x
      <4>2. Thought(c, i, x).order = Tells(i, x) /\ Tells(i, x) # None
        BY <4>1, ThoughtTells
      <4>3. Tells(i, x).struct = o
        BY <4>1 DEF Tells
      <4>4. QED
        BY <4>2, <4>3 DEF i, x
    <3>3. ~InHand(result', a, o)
      BY <1>0, <2>2, <3>1 DEF InHand
    <3>4. o \notin silent /\ Tellers(thoughts, o) = {}
      BY <1>1, <2>3, <2>4, <3>1
    <3>5. CASE thoughts' = thoughts \cup {new} /\ silent' = silent
      <4> HIDE DEF new
      <4>1. Tellers(thoughts', o) = {new}
        BY <3>2, <3>4, <3>5 DEF Tellers
      <4>2. QED
        BY <3>3, <3>4, <3>5, <4>1
    <3>6. CASE thoughts' = thoughts /\ Silenced(c)
      <4>1. o \in silent'
        BY <3>1, <3>6 DEF Silenced
      <4>2. QED
        BY <3>3, <3>4, <3>6, <4>1
    <3>7. QED
      BY <2>2, <3>5, <3>6
  <2>5. CASE ~InHand(result, c, o)
    <3>1. InHand(result', a, o) <=> InHand(result, a, o)
      BY <1>0, <2>2, <2>5 DEF InHand
    <3>2. o \in silent' <=> o \in silent
      <4>1. \/ silent' = silent
            \/ silent' = silent \cup {result[c].struct} /\ result[c] # None
        BY <2>2 DEF Silenced
      <4>2. result[c] # None => result[c].struct # o
        BY <2>5 DEF InHand
      <4>3. QED
        BY <4>1, <4>2
    <3>3. ~(new.order # None /\ new.order.struct = o)
      <4>1. CASE result[c] = None
        BY <4>1 DEF Thought
      <4>2. CASE result[c] # None
        <5> DEFINE i == intent[c]
                   x == result[c]
        <5>1. i \in Intent /\ x \in Result /\ x.struct # o
          BY <1>0, <2>5, <4>2 DEF InHand
        <5> HIDE DEF i, x
        <5>2. Thought(c, i, x).order = Tells(i, x)
          BY <5>1, ThoughtTells
        <5>3. Tells(i, x).struct # o
          BY <5>1 DEF Tells
        <5>4. QED
          BY <5>2, <5>3 DEF i, x
      <4>3. QED
        BY <4>1, <4>2
    <3>4. Tellers(thoughts', o) = Tellers(thoughts, o)
      <4>1. thoughts' = thoughts \cup {new} \/ thoughts' = thoughts
        BY <2>2
      <4> HIDE DEF new
      <4>2. QED
        BY <3>3, <4>1 DEF Tellers
    <3>5. QED
      BY <1>1, <2>3, <3>1, <3>2, <3>4
  <2>6. QED
    BY <2>4, <2>5
<1>6. CASE \/ \E c \in Momentum : PerceiveTrend(c)
           \/ \E c \in News : PerceiveNews(c)
           \/ \E x \in Order : OutsideCancel(x)
           \/ ServerRestarts \/ (\E c \in Agent : Leave(c)) \/ Stop \/ Main \/ UNCHANGED vars
  <2>1. UNCHANGED <<ord, thoughts, silent, result>>
    BY <1>6 DEF PerceiveTrend, PerceiveNews, OutsideCancel, Book!Cancel, ServerRestarts, Leave,
                Stop, Main, vars, book
  <2>2. QED
    BY <1>2, <2>1
<1>7. QED
  BY <1>3, <1>4, <1>5, <1>6, FloorSteps

\* The feed tells the truth: what the thoughts say of an order is so, and every
\* order of an agent is told once, in its hands, or silent.
THEOREM ThoughtsAreTrue == Spec => []ThoughtsTrue
<1>1. FloorInv /\ ToldInv /\ CountInv /\ OnceInv => ThoughtsTrue
  <2> SUFFICES ASSUME FloorInv, ToldInv, CountInv, OnceInv PROVE ThoughtsTrue
    OBVIOUS
  <2>1. ASSUME NEW th \in thoughts
        PROVE  /\ th.order = None <=> th.decision = "HOLD"
               /\ th.order # None =>
                    LET o == th.order.struct
                    IN IF th.order.accepted
                       THEN /\ o \in MineOf(th.agent) /\ ord[o].side = th.decision
                            /\ ord[o].price = th.order.price
                            /\ ord[o].original = th.order.quantity
                            /\ Cardinality(FillsOf(o)) = th.order.trades
                       ELSE o \in refused
    <3>1. /\ th.order = None <=> th.decision = "HOLD"
          /\ th.order # None =>
               Holds(ord, tape, refused, th.agent, th.decision, th.order)
      BY DEF ToldInv
    <3>2. \A o : FillsOf(o) = Fills(tape, o)
      BY DEF FillsOf, Fills
    <3>3. QED
      BY <3>1, <3>2 DEF Holds, MineOf, Owner
  <2>2. ASSUME NEW a \in Agent PROVE Cardinality(MineOf(a)) <= ticks[a]
    <3>1. MineOf(a) = OrdersOf(ord, a)
      BY DEF MineOf, OrdersOf, Owner
    <3>2. ticks[a] \in Nat
      <4>1. ticks \in [Agent -> 0 .. MaxTicks]
        BY DEF FloorInv, TickInv
      <4>2. ticks[a] \in 0 .. MaxTicks
        BY <4>1
      <4>3. QED
        BY <4>2
    <3>3. /\ IsFiniteSet(OrdersOf(ord, a))
          /\ Cardinality(OrdersOf(ord, a)) + (IF phase[a] = "act" THEN 1 ELSE 0) <= ticks[a]
      BY DEF CountInv
    <3>4. Cardinality(OrdersOf(ord, a)) \in Nat
      BY <3>3, FS_CardinalityType
    <3>5. QED
      BY <3>1, <3>2, <3>3, <3>4
  <2>3. ASSUME NEW a \in Agent, NEW o \in MineOf(a)
        PROVE  LET told == {th \in thoughts : th.order # None /\ th.order.struct = o}
                   inHand == result[a] # None /\ result[a].struct = o
               IN /\ Cardinality(told) = IF inHand \/ o \in silent THEN 0 ELSE 1
                  /\ ~(inHand /\ o \in silent)
    <3>1. o \in DOMAIN ord /\ ord[o].id[1] = a
      BY DEF MineOf, Owner
    <3>2. /\ ~(InHand(result, a, o) /\ o \in silent)
          /\ InHand(result, a, o) \/ o \in silent => Tellers(thoughts, o) = {}
          /\ ~InHand(result, a, o) /\ o \notin silent => \E th : Tellers(thoughts, o) = {th}
      BY <3>1 DEF OnceInv
    <3>3. Cardinality({}) = 0 /\ \A th : Cardinality({th}) = 1
      BY FS_EmptySet, FS_Singleton
    <3>4. Cardinality(Tellers(thoughts, o)) =
            IF InHand(result, a, o) \/ o \in silent THEN 0 ELSE 1
      BY <3>2, <3>3
    <3>5. QED
      BY <3>2, <3>4 DEF Tellers, InHand
  <2>4. QED
    BY <2>1, <2>2, <2>3 DEF ThoughtsTrue
<1>2. QED
  BY InitFloorInv, StepFloorInv, InitTapeInv, StepTapeInv, InitToldInv, StepToldInv,
     InitCountInv, StepCountInv, InitOnceInv, StepOnceInv, <1>1, PTL DEF Spec
=============================================================================
