---------------------------- MODULE MarketServer ----------------------------
(***************************************************************************)
(* server/grpc_server.go and server/events.go: SubmitOrder and CancelOrder *)
(* of one symbol as concurrent RPC handlers over a shared book.  The book  *)
(* is AtomicBook: each of its methods is one step, and a handler takes     *)
(* several.  Between two of them any other handler may take any number of  *)
(* its own; nothing but the book's lock (and subMu, see TradeStream) is    *)
(* held, and neither across steps.                                         *)
(***************************************************************************)
EXTENDS ServedBook, Sequences, FiniteSets, SequencesExt

CONSTANTS
  Canceller,         \* the CancelOrder calls; the SubmitOrder calls are Order
  MaxInFlight,       \* bound: calls served at one time
  RedisMayFail,      \* whether Redis may refuse a message
  ClientMayGiveUp    \* whether a client may go away before its answer

Call == Order \cup Canceller

ASSUME ServerAssumption ==
  /\ None \notin Call
  /\ Order \cap Canceller = {}
  /\ MaxInFlight \in Nat \ {0}
  /\ RedisMayFail \in BOOLEAN /\ ClientMayGiveUp \in BOOLEAN

VARIABLES
  pc,           \* what each handler does next
  made,         \* the trades ProcessOrder returned to each handler
  cursor,       \* how many of them it has published
  snap,         \* the depth each handler holds
  gaveUp,       \* the calls whose request context is cancelled
  reply,        \* what each call answered, or None
  stream,       \* the trades broadcast to streaming clients, in order
  redisTrades,  \* the trades published on ChannelTrades, in order
  redisDepth,   \* the snapshots published on ChannelOrderBookUpdates, in order
  lostTrades,   \* the trades whose publication failed
  lostDepth     \* the calls whose snapshot's publication failed

events == <<stream, redisTrades, redisDepth, lostTrades, lostDepth>>
vars == <<book, pc, made, cursor, snap, gaveUp, reply, events>>

\* What GetDepth returns: volume and number of orders at every quoted price.
Depth ==
  [s \in Side |->
     [p \in {ord[o].price : o \in {x \in resting : ord[x].side = s}} |->
        LET at == {o \in resting : ord[o].side = s /\ ord[o].price = p}
        IN [volume |-> SumFunctionOnSet(Book!Remaining, at),
            count |-> Cardinality(at)]]]

Init ==
  /\ Book!Init
  /\ pc = [c \in Call |-> "idle"]
  /\ made = [o \in Order |-> <<>>]
  /\ cursor = [o \in Order |-> 0]
  /\ snap = [c \in Call |-> None]
  /\ gaveUp = {}
  /\ reply = [c \in Call |-> None]
  /\ stream = <<>> /\ redisTrades = <<>> /\ redisDepth = <<>>
  /\ lostTrades = {} /\ lostDepth = {}

InFlight == {c \in Call : pc[c] \notin {"idle", "answered"}}

Idle(c) == pc[c] = "idle" /\ Cardinality(InFlight) < MaxInFlight

Goto(c, where) == pc' = [pc EXCEPT ![c] = where]

-----------------------------------------------------------------------------
(* SubmitOrder. *)

\* toEngineOrder or ProcessOrder returns an error.
Reject(o, r) ==
  /\ Idle(o)
  /\ Book!Refuse(o, r)
  /\ reply' = [reply EXCEPT ![o] = [accepted |-> FALSE]]
  /\ Goto(o, "answered")
  /\ UNCHANGED <<made, cursor, snap, gaveUp, events>>

\* ProcessOrder: the handler holds the trades it returned.
Execute(o, r) ==
  /\ Idle(o)
  /\ Book!Process(o, r)
  /\ made' = [made EXCEPT ![o] = SubSeq(tape', Len(tape) + 1, Len(tape'))]
  /\ Goto(o, "broadcast")
  /\ UNCHANGED <<cursor, snap, gaveUp, reply, events>>

\* broadcastTrades: the whole batch under subMu.
Broadcast(o) ==
  /\ pc[o] = "broadcast"
  /\ stream' = stream \o made[o]
  /\ Goto(o, "trades")
  /\ UNCHANGED <<book, made, cursor, snap, gaveUp, reply, redisTrades,
                 redisDepth, lostTrades, lostDepth>>

\* Publish fails if the request context is cancelled, or because of Redis; the
\* error is logged and the handler goes on.
Delivers(c) == c \notin gaveUp

\* Mutant of PublishTrade: the last trade first.
PublishTradeBackwards(o) ==
  LET t == made[o][Len(made[o]) - cursor[o]]
  IN /\ pc[o] = "trades" /\ cursor[o] < Len(made[o])
     /\ cursor' = [cursor EXCEPT ![o] = @ + 1]
     /\ redisTrades' = Append(redisTrades, t)
     /\ UNCHANGED <<book, pc, made, snap, gaveUp, reply, stream, redisDepth,
                    lostTrades, lostDepth>>

\* Mutant of PublishTrade: an error ends the batch (return for continue).
PublishTradeOrStop(o) ==
  LET t == made[o][cursor[o] + 1]
  IN /\ pc[o] = "trades" /\ cursor[o] < Len(made[o])
     /\ \/ /\ Delivers(o)
           /\ cursor' = [cursor EXCEPT ![o] = @ + 1]
           /\ redisTrades' = Append(redisTrades, t)
           /\ UNCHANGED lostTrades
        \/ /\ RedisMayFail \/ ~Delivers(o)
           /\ cursor' = [cursor EXCEPT ![o] = Len(made[o])]
           /\ lostTrades' = lostTrades \cup {t}
           /\ UNCHANGED redisTrades
     /\ UNCHANGED <<book, pc, made, snap, gaveUp, reply, stream, redisDepth,
                    lostDepth>>

\* publishTrades, one trade.
PublishTrade(o) ==
  LET t == made[o][cursor[o] + 1]
  IN /\ pc[o] = "trades" /\ cursor[o] < Len(made[o])
     /\ cursor' = [cursor EXCEPT ![o] = @ + 1]
     /\ \/ /\ Delivers(o)
           /\ redisTrades' = Append(redisTrades, t)
           /\ UNCHANGED lostTrades
        \/ /\ RedisMayFail \/ ~Delivers(o)
           /\ lostTrades' = lostTrades \cup {t}
           /\ UNCHANGED redisTrades
     /\ UNCHANGED <<book, pc, made, snap, gaveUp, reply, stream, redisDepth,
                    lostDepth>>

\* Mutant of QuantityReads: what was asked instead of what remains.
QuantityReadsOriginal(o) == {ord[o].original}

\* What a read of order.Quantity outside the book's lock may return: its value
\* when ProcessOrder returned, or after any fill of the order since.
QuantityReads(o) ==
  LET mine(n) == {i \in 1 .. n : o \in {tape[i].maker, tape[i].taker}}
      own0 == {i \in DOMAIN tape : tape[i].taker = o}
  IN {ord[o].original - SumFunctionOnSet(Quantities(tape), mine(n)) :
        n \in {k \in 0 .. Len(tape) : own0 \subseteq 1 .. k}}

\* The answer is built of the trades made and of order.Quantity, which is read
\* with no lock held.
AnswerSubmit(o) ==
  /\ pc[o] = "answer"
  /\ \E q \in QuantityReads(o) :
       reply' = [reply EXCEPT ![o] = [accepted |-> TRUE, remaining |-> q]]
  /\ Goto(o, "answered")
  /\ UNCHANGED <<book, made, cursor, snap, gaveUp, events>>

-----------------------------------------------------------------------------
(* CancelOrder. *)

CancelResting(c, id) ==
  /\ Idle(c)
  /\ \E m \in resting : ord[m].id = id /\ Book!Cancel(m)
  /\ Goto(c, "depth")
  /\ UNCHANGED <<made, cursor, snap, gaveUp, reply, events>>

CancelUnknown(c, id) ==
  /\ Idle(c)
  /\ ~Book!IdResting(id)
  /\ reply' = [reply EXCEPT ![c] = [accepted |-> FALSE]]
  /\ Goto(c, "answered")
  /\ UNCHANGED <<book, made, cursor, snap, gaveUp, events>>

AnswerCancel(c) ==
  /\ pc[c] = "answer"
  /\ reply' = [reply EXCEPT ![c] = [accepted |-> TRUE]]
  /\ Goto(c, "answered")
  /\ UNCHANGED <<book, made, cursor, snap, gaveUp, events>>

-----------------------------------------------------------------------------
(* Both. *)

\* Mutant of ReadyForDepth: a handler moves on before its last trade.
ReadyForDepthEarly(c) ==
  \/ c \in Canceller /\ pc[c] = "depth"
  \/ c \in Order /\ pc[c] = "trades" /\ cursor[c] + 1 >= Len(made[c])

\* Every trade is out; the cancel comes here straight from the book.
ReadyForDepth(c) ==
  \/ c \in Canceller /\ pc[c] = "depth"
  \/ c \in Order /\ pc[c] = "trades" /\ cursor[c] = Len(made[c])

\* book.GetDepth, under the book's lock again but later.
TakeDepth(c) ==
  /\ ReadyForDepth(c)
  /\ snap' = [snap EXCEPT ![c] = Depth]
  /\ Goto(c, "publish")
  /\ UNCHANGED <<book, made, cursor, gaveUp, reply, events>>

\* Mutant of PublishDepth: only what traded is published.
PublishDepthOfFills(c) ==
  /\ pc[c] = "publish"
  /\ redisDepth' = IF c \in Order /\ made[c] # <<>>
                     THEN Append(redisDepth, snap[c]) ELSE redisDepth
  /\ snap' = [snap EXCEPT ![c] = None]
  /\ Goto(c, "answer")
  /\ UNCHANGED <<book, made, cursor, gaveUp, reply, stream, redisTrades,
                 lostTrades, lostDepth>>

\* publishDepth.
PublishDepth(c) ==
  /\ pc[c] = "publish"
  /\ \/ /\ Delivers(c)
        /\ redisDepth' = Append(redisDepth, snap[c])
        /\ UNCHANGED lostDepth
     \/ /\ RedisMayFail \/ ~Delivers(c)
        /\ lostDepth' = lostDepth \cup {c}
        /\ UNCHANGED redisDepth
  /\ snap' = [snap EXCEPT ![c] = None]
  /\ Goto(c, "answer")
  /\ UNCHANGED <<book, made, cursor, gaveUp, reply, stream, redisTrades,
                 lostTrades>>

\* The client of a call under way goes away: its context is cancelled.
GiveUp(c) ==
  /\ ClientMayGiveUp
  /\ c \in InFlight \ gaveUp
  /\ gaveUp' = gaveUp \cup {c}
  /\ UNCHANGED <<book, pc, made, cursor, snap, reply, events>>

-----------------------------------------------------------------------------
Submit(o) == Broadcast(o) \/ PublishTrade(o) \/ AnswerSubmit(o)

Serve(c) ==
  \/ TakeDepth(c)
  \/ PublishDepth(c)
  \/ c \in Order /\ Submit(c)
  \/ c \in Canceller /\ AnswerCancel(c)

Next ==
  \/ \E o \in Order, r \in Request : Reject(o, r) \/ Execute(o, r)
  \/ \E c \in Canceller, id \in ID : CancelResting(c, id) \/ CancelUnknown(c, id)
  \/ \E c \in Call : Serve(c) \/ GiveUp(c)

Spec == Init /\ [][Next]_vars

-----------------------------------------------------------------------------
\* The type invariant, with where in a handler its cursor and snapshot may be.
TypeOK ==
  /\ pc \in [Call -> {"idle", "broadcast", "trades", "depth", "publish",
                      "answer", "answered"}]
  /\ \A o \in Order : made[o] \in Seq(Trade) /\ cursor[o] \in 0 .. Len(made[o])
  /\ \A o \in Order :
       pc[o] \in {"publish", "answer", "answered"} => cursor[o] = Len(made[o])
  /\ \A c \in Call : IF pc[c] = "publish" THEN DOMAIN snap[c] = Side ELSE snap[c] = None
  /\ gaveUp \subseteq Call
  /\ stream \in Seq(Trade) /\ redisTrades \in Seq(Trade)
  /\ lostTrades \subseteq Trade /\ lostDepth \subseteq Call

\* The trades handlers still owe the streaming clients, and owe Redis.
UnsentTrades == UNION {Range(made[o]) : o \in {x \in Order : pc[x] = "broadcast"}}

UnpublishedTrades ==
  UNION {{made[o][i] : i \in cursor[o] + 1 .. Len(made[o])} : o \in Order}

Distinct(q) == Cardinality(Range(q)) = Len(q)

\* Every trade of the book reaches the streaming clients exactly once, and
\* Redis exactly once unless its publication failed, however handlers
\* interleave; neither ever sees a trade that did not happen.
EveryTradeOnce ==
  /\ Distinct(stream) /\ Distinct(redisTrades)
  /\ Range(stream) \cap UnsentTrades = {}
  /\ Range(stream) \cup UnsentTrades = Range(tape)
  /\ Range(redisTrades) \cap (UnpublishedTrades \cup lostTrades) = {}
  /\ Range(redisTrades) \cup UnpublishedTrades \cup lostTrades = Range(tape)

\* The trades of one order are published in the order they were executed.
OwnTradesInOrder ==
  \A q \in {stream, redisTrades} : \A i, j \in DOMAIN q :
    i < j /\ q[i].taker = q[j].taker => q[i].id < q[j].id

Acknowledged(c) == reply[c] # None /\ reply[c].accepted

\* Snapshots race each other to Redis, but the current one is among them: when
\* no call is under way and no snapshot was lost, the depth the book is left
\* with has been published (if not last, see LastDepthIsCurrent).
CurrentDepthPublished ==
  /\ InFlight = {} /\ lostDepth = {}
  /\ \E c \in Call : Acknowledged(c)
  => Depth \in Range(redisDepth)

\* The fills the answer of o lists.
Filled(o) == SumFunctionOnSet(Quantities(made[o]), DOMAIN made[o])

\* An answer never promises more than was left: the fills it lists and the
\* remainder it reports together are at most what was asked, and the remainder
\* is no less than what is left now.
AnswersNeverOverstate ==
  \A o \in Order : Acknowledged(o) =>
    /\ ord[o].quantity <= reply[o].remaining
    /\ reply[o].remaining + Filled(o) <= ord[o].original

-----------------------------------------------------------------------------
(* What the comments say; true of one call at a time only. *)

\* events.go:78: "publishDepth emits the current book snapshot".  When no call
\* is under way and nothing was lost, the last snapshot is that of the book.
LastDepthIsCurrent ==
  InFlight = {} /\ lostTrades = {} /\ lostDepth = {} /\ redisDepth # <<>> =>
    redisDepth[Len(redisDepth)] = Depth

\* market.proto:50: remaining_quantity is the "unfilled quantity: resting
\* (LIMIT) or dropped (MARKET)" of an answer that lists the fills.
AnswerAddsUp ==
  \A o \in Order : Acknowledged(o) => reply[o].remaining + Filled(o) = ord[o].original

\* events.go:50: "publishTrades emits one JSON message per trade".  With a
\* Redis that never fails, the trades of an answered call are published.
TradesPublished ==
  \A o \in Order : pc[o] = "answered" => Range(made[o]) \subseteq Range(redisTrades)
=============================================================================
