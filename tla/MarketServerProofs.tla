-------------------------- MODULE MarketServerProofs --------------------------
(***************************************************************************)
(* Theorems about MarketServer, for every set of orders, cancels, ids and  *)
(* requests and any number of calls in flight.                             *)
(***************************************************************************)
EXTENDS MarketServer, ServedBookProofs

-----------------------------------------------------------------------------
(* The inductive invariant.                                                *)

\* Where a handler is, with what: only an order the book accepted has trades,
\* and its answer comes after the last of them.
HandlersInv ==
  /\ pc \in [Call -> {"idle", "broadcast", "trades", "depth", "publish",
                      "answer", "answered"}]
  /\ made \in [Order -> Seq(Trade)] /\ cursor \in [Order -> Nat]
  /\ \A o \in Order :
       /\ cursor[o] <= Len(made[o])
       /\ pc[o] \in {"publish", "answer", "answered"} => cursor[o] = Len(made[o])
       /\ pc[o] \in {"broadcast", "trades", "publish", "answer"} => o \in DOMAIN ord
       /\ o \notin DOMAIN ord => made[o] = <<>>
  /\ DOMAIN snap = Call /\ DOMAIN reply = Call
  /\ \A c \in Call : IF pc[c] = "publish" THEN DOMAIN snap[c] = Side ELSE snap[c] = None
  /\ gaveUp \subseteq Call /\ lostDepth \subseteq Call

\* Each handler holds the trades of its own order, as the tape has them, and
\* every trade of the tape is held by the handler of its taker.
HeldInv ==
  /\ \A o \in Order : \A i \in DOMAIN made[o] :
       /\ made[o][i].taker = o
       /\ made[o][i].id \in DOMAIN tape /\ tape[made[o][i].id] = made[o][i]
  /\ \A o \in Order : \A i, j \in DOMAIN made[o] :
       i < j => made[o][i].id < made[o][j].id
  /\ \A k \in DOMAIN tape : tape[k] \in Range(made[tape[k].taker])

\* The trades of one order are in q in the order they were executed.
InOrder(q) ==
  \A i, j \in DOMAIN q : i < j /\ q[i].taker = q[j].taker => q[i].id < q[j].id

\* The stream has the trades of the handlers that are past their broadcast.
StreamInv ==
  /\ stream \in Seq(Trade)
  /\ \A k \in DOMAIN stream :
       /\ pc[stream[k].taker] # "broadcast"
       /\ stream[k] \in Range(made[stream[k].taker])
  /\ \A o \in Order : pc[o] # "broadcast" => Range(made[o]) \subseteq Range(stream)
  /\ InOrder(stream)

\* The first n trades of a list.
First(list, n) == {list[i] : i \in 1 .. n}

\* Redis has, or has refused, the trades the handlers are done with.
RedisInv ==
  /\ redisTrades \in Seq(Trade) /\ lostTrades \subseteq Trade
  /\ \A k \in DOMAIN redisTrades :
       redisTrades[k] \in First(made[redisTrades[k].taker], cursor[redisTrades[k].taker])
  /\ \A t \in lostTrades :
       t \in First(made[t.taker], cursor[t.taker]) /\ t \notin Range(redisTrades)
  /\ \A o \in Order :
       First(made[o], cursor[o]) \subseteq Range(redisTrades) \cup lostTrades
  /\ InOrder(redisTrades)

\* Once a call has reached the book, the snapshot of the book as it is has
\* been published, or lost, or is in the hands of a handler still to publish.
ReachedBook(c) ==
  Acknowledged(c) \/ pc[c] \in {"broadcast", "trades", "depth", "publish", "answer"}

SnapshotInv ==
  /\ redisDepth \in Seq(Range(redisDepth))
  /\ (\E c \in Call : ReachedBook(c)) =>
       \/ \E c \in Call : pc[c] \in {"broadcast", "trades", "depth"}
       \/ \E c \in Call : pc[c] = "publish" /\ snap[c] = Depth
       \/ Depth \in Range(redisDepth)
       \/ lostDepth # {}

ServerInv ==
  BookInv /\ HandlersInv /\ HeldInv /\ StreamInv /\ RedisInv /\ SnapshotInv

\* The trades of a list o is a party of.
Fills(list, o) == {i \in DOMAIN list : o \in {list[i].maker, list[i].taker}}

\* What is left of an order is what was asked less its fills.
SoldInv ==
  /\ \A i \in DOMAIN tape : {tape[i].maker, tape[i].taker} \subseteq DOMAIN ord
  /\ \A o \in DOMAIN ord :
       ord[o].quantity =
         ord[o].original - SumFunctionOnSet(Quantities(tape), Fills(tape, o))

\* AnswersNeverOverstate, of orders the book has.
AnswerInv ==
  \A o \in Order : Acknowledged(o) =>
    /\ o \in DOMAIN ord /\ reply[o].remaining \in Int
    /\ ord[o].quantity <= reply[o].remaining
    /\ reply[o].remaining + Filled(o) <= ord[o].original

-----------------------------------------------------------------------------
(* The steps of a handler that move no trade.                              *)

Quietly(c) ==
  \/ \E r \in Request : c \in Order /\ Reject(c, r)
  \/ \E id \in ID : c \in Canceller /\ (CancelResting(c, id) \/ CancelUnknown(c, id))
  \/ TakeDepth(c) \/ PublishDepth(c) \/ GiveUp(c)
  \/ c \in Order /\ AnswerSubmit(c)
  \/ c \in Canceller /\ AnswerCancel(c)

\* The steps that concern the trades, and all the others.
LEMMA StepKinds ==
  ASSUME [Next]_vars
  PROVE  \/ \E o \in Order, r \in Request : Execute(o, r)
         \/ \E o \in Order : Broadcast(o)
         \/ \E o \in Order : PublishTrade(o)
         \/ \E c \in Call : Quietly(c)
         \/ UNCHANGED vars
BY DEF Next, Serve, Submit, Quietly, Call

\* The trades are where they were.
Still ==
  /\ UNCHANGED <<tape, made, cursor, stream, redisTrades, lostTrades>>
  /\ \A o \in Order : pc'[o] = "broadcast" <=> pc[o] = "broadcast"

\* The other steps leave batches, streams and Redis's trades alone.
LEMMA QuietlyStill ==
  ASSUME HandlersInv, NEW c \in Call, Quietly(c)
  PROVE  Still
<1>1. DOMAIN pc = Call
  BY DEF HandlersInv
<1>2. ASSUME NEW r \in Request, Reject(c, r) PROVE Still
  BY <1>1, <1>2 DEF Reject, Book!Refuse, Still, Goto, events, Idle
<1>3. ASSUME NEW id \in ID, CancelResting(c, id) PROVE Still
  BY <1>1, <1>3 DEF CancelResting, Book!Cancel, Still, Goto, events, Idle
<1>4. ASSUME NEW id \in ID, CancelUnknown(c, id) PROVE Still
  BY <1>1, <1>4 DEF CancelUnknown, Still, Goto, events, Idle, book
<1>5. ASSUME TakeDepth(c) PROVE Still
  BY <1>1, <1>5 DEF TakeDepth, ReadyForDepth, Still, Goto, events, book
<1>6. ASSUME PublishDepth(c) PROVE Still
  BY <1>1, <1>6 DEF PublishDepth, Still, Goto, book
<1>7. ASSUME GiveUp(c) PROVE Still
  BY <1>1, <1>7 DEF GiveUp, Still, events, book
<1>8. ASSUME AnswerSubmit(c) PROVE Still
  BY <1>1, <1>8 DEF AnswerSubmit, Still, Goto, events, book
<1>9. ASSUME AnswerCancel(c) PROVE Still
  BY <1>1, <1>9 DEF AnswerCancel, Still, Goto, events, book
<1>10. QED
  BY <1>2, <1>3, <1>4, <1>5, <1>6, <1>7, <1>8, <1>9 DEF Quietly

\* So does a stuttering step.
LEMMA UnchangedStill == UNCHANGED vars => Still
BY DEF vars, Still, events, book

-----------------------------------------------------------------------------
(* The book keeps its invariant.                                           *)

\* Every step of the server keeps the book's invariant.
LEMMA BookKept ==
  ASSUME BookInv, [Next]_vars
  PROVE  BookInv'
<1>1. ASSUME NEW o \in Order, NEW r \in Request, Execute(o, r) PROVE BookInv'
  BY <1>1, ProcessBookInv, OrdersAssumption DEF Execute
<1>2. ASSUME NEW o \in Order, Broadcast(o) \/ PublishTrade(o) PROVE BookInv'
  BY <1>2, BookUnchanged DEF Broadcast, PublishTrade, book
<1>3. ASSUME NEW c \in Call, Quietly(c) PROVE BookInv'
  <2>1. ASSUME NEW r \in Request, Reject(c, r) PROVE BookInv'
    BY <2>1, BookUnchanged DEF Reject, Book!Refuse
  <2>2. ASSUME NEW id \in ID, CancelResting(c, id) PROVE BookInv'
    BY <2>2, BookCancelled DEF CancelResting
  <2>3. ASSUME \/ \E id \in ID : CancelUnknown(c, id)
               \/ TakeDepth(c) \/ PublishDepth(c) \/ GiveUp(c)
               \/ AnswerSubmit(c) \/ AnswerCancel(c)
        PROVE  BookInv'
    BY <2>3, BookUnchanged DEF CancelUnknown, TakeDepth, PublishDepth, GiveUp,
                               AnswerSubmit, AnswerCancel, book
  <2>4. QED
    BY <1>3, <2>1, <2>2, <2>3 DEF Quietly
<1>4. ASSUME UNCHANGED vars PROVE BookInv'
  BY <1>4, BookUnchanged DEF vars, book
<1>5. QED
  BY <1>1, <1>2, <1>3, <1>4, StepKinds

-----------------------------------------------------------------------------
(* Each handler holds its own trades.                                      *)

\* What ProcessOrder gives its handler.
LEMMA ExecuteEffect ==
  ASSUME BookInv, HandlersInv, NEW o \in Order, NEW r \in Request, Execute(o, r)
  PROVE  /\ o \notin DOMAIN ord /\ DOMAIN ord' = DOMAIN ord \cup {o}
         /\ pc[o] = "idle" /\ pc' = [pc EXCEPT ![o] = "broadcast"]
         /\ made[o] = <<>> /\ cursor[o] = 0
         /\ made' = [made EXCEPT ![o] = made'[o]] /\ made'[o] \in Seq(Trade)
         /\ tape' = tape \o made'[o]
         /\ \A i \in DOMAIN made'[o] :
              made'[o][i].id = Len(tape) + i /\ made'[o][i].taker = o
         /\ UNCHANGED <<cursor, snap, gaveUp, reply, events>>
<1>1. /\ Idle(o) /\ Book!Process(o, r)
      /\ made' = [made EXCEPT ![o] = SubSeq(tape', Len(tape) + 1, Len(tape'))]
      /\ pc' = [pc EXCEPT ![o] = "broadcast"]
      /\ UNCHANGED <<cursor, snap, gaveUp, reply, events>>
  BY DEF Execute, Goto
<1>2. PICK t : t = Book!Accepted(r, clock + 1)
  OBVIOUS
<1> DEFINE b == Book!TradesOf(o, t)
<1>3. /\ t \in Booked /\ o \notin DOMAIN ord /\ DOMAIN ord' = DOMAIN ord \cup {o}
      /\ tape' = tape \o b
  BY <1>1, <1>2, ProcessEffect, OrdersAssumption
<1>4. /\ b \in Seq(Trade)
      /\ \A i \in DOMAIN b : b[i].id = Len(tape) + i /\ b[i].taker = o
  BY <1>3, NewTrades
<1>5. tape \in Seq(Trade)
  BY DEF BookInv
<1> HIDE DEF b
<1>6. SubSeq(tape', Len(tape) + 1, Len(tape')) = b
  <2>1. /\ Len(tape') = Len(tape) + Len(b) /\ Len(tape) \in Nat /\ Len(b) \in Nat
        /\ tape' \in Seq(Trade)
        /\ \A i \in DOMAIN b : tape'[Len(tape) + i] = b[i]
    BY <1>3, <1>4, <1>5, Continues
  <2>2. DOMAIN b = 1 .. Len(b) /\ b = [i \in 1 .. Len(b) |-> b[i]]
    BY <1>4
  <2> DEFINE c == SubSeq(tape', Len(tape) + 1, Len(tape'))
             n == Len(tape)
  <2>3. c = [i \in 1 .. (1 + Len(tape') - (n + 1)) |-> tape'[i + (n + 1) - 1]]
    BY <2>1
  <2> HIDE DEF c
  <2>4. 1 + Len(tape') - (n + 1) = Len(b) /\ \A i \in 1 .. Len(b) : i + (n + 1) - 1 = n + i
    BY <2>1
  <2> HIDE DEF n
  <2>5. c = [i \in 1 .. Len(b) |-> tape'[n + i]]
    BY <2>3, <2>4
  <2>6. \A i \in 1 .. Len(b) : tape'[n + i] = b[i]
    BY <2>1, <2>2 DEF n
  <2>7. c = b
    BY <2>2, <2>5, <2>6
  <2>8. QED
    BY <2>7 DEF c
<1>7. made \in [Order -> Seq(Trade)] /\ made[o] = <<>> /\ cursor[o] = 0
  <2>1. /\ made \in [Order -> Seq(Trade)] /\ made[o] = <<>>
        /\ cursor[o] \in Nat /\ cursor[o] <= Len(made[o])
    BY <1>3 DEF HandlersInv
  <2>2. QED
    BY <2>1
<1>8. made'[o] = b
  BY <1>1, <1>6, <1>7
<1>9. pc[o] = "idle"
  BY <1>1 DEF Idle
<1>10. made' = [made EXCEPT ![o] = made'[o]]
  BY <1>1, <1>6, <1>8
<1>11. QED
  BY <1>1, <1>3, <1>4, <1>7, <1>8, <1>9, <1>10

\* The handlers, then, by the step they take.
LEMMA ExecuteHandlers ==
  ASSUME BookInv, HandlersInv, NEW o \in Order, NEW r \in Request, Execute(o, r)
  PROVE  HandlersInv'
<1>1. /\ DOMAIN ord' = DOMAIN ord \cup {o}
      /\ pc[o] = "idle" /\ pc' = [pc EXCEPT ![o] = "broadcast"]
      /\ cursor[o] = 0
      /\ made' = [made EXCEPT ![o] = made'[o]] /\ made'[o] \in Seq(Trade)
      /\ UNCHANGED <<cursor, snap, gaveUp, reply, events>>
  BY ExecuteEffect
<1>2. /\ pc \in [Call -> {"idle", "broadcast", "trades", "depth", "publish",
                          "answer", "answered"}]
      /\ made \in [Order -> Seq(Trade)] /\ cursor \in [Order -> Nat]
      /\ o \in Call
  BY DEF HandlersInv, Call
<1>3. /\ pc' \in [Call -> {"idle", "broadcast", "trades", "depth", "publish",
                           "answer", "answered"}]
      /\ made' \in [Order -> Seq(Trade)] /\ cursor' \in [Order -> Nat]
  <2>1. pc' \in [Call -> {"idle", "broadcast", "trades", "depth", "publish",
                           "answer", "answered"}]
    BY <1>1, <1>2
  <2>2. made' \in [Order -> Seq(Trade)]
    BY <1>1, <1>2
  <2>3. QED
    BY <1>1, <1>2, <2>1, <2>2
<1>4. ASSUME NEW p \in Order
      PROVE  /\ cursor'[p] <= Len(made'[p])
             /\ pc'[p] \in {"publish", "answer", "answered"} => cursor'[p] = Len(made'[p])
             /\ pc'[p] \in {"broadcast", "trades", "publish", "answer"} => p \in DOMAIN ord'
             /\ p \notin DOMAIN ord' => made'[p] = <<>>
  <2>1. CASE p = o
    <3>1. Len(made'[o]) \in Nat /\ cursor'[o] = 0 /\ pc'[o] = "broadcast" /\ o \in DOMAIN ord'
      BY <1>1, <1>2
    <3>2. QED
      BY <2>1, <3>1
  <2>2. CASE p # o
    <3>1. made'[p] = made[p]
      BY <1>1, <1>2, <2>2
    <3>2. pc'[p] = pc[p] /\ cursor'[p] = cursor[p] /\ (p \in DOMAIN ord' <=> p \in DOMAIN ord)
      BY <1>1, <1>2, <2>2 DEF Call
    <3>3. QED
      BY <3>1, <3>2 DEF HandlersInv
  <2>3. QED
    BY <2>1, <2>2
<1>5. \A c \in Call : IF pc'[c] = "publish" THEN DOMAIN snap'[c] = Side ELSE snap'[c] = None
  <2>1. \A c \in Call : pc'[c] = "publish" <=> pc[c] = "publish"
    BY <1>1, <1>2
  <2>2. snap' = snap
    BY <1>1
  <2>3. QED
    BY <2>1, <2>2 DEF HandlersInv
<1>6. /\ DOMAIN snap' = Call /\ DOMAIN reply' = Call
      /\ gaveUp' \subseteq Call /\ lostDepth' \subseteq Call
  BY <1>1 DEF HandlersInv, events
<1>7. QED
  BY <1>3, <1>4, <1>5, <1>6 DEF HandlersInv

\* An executed order's batch is the new end of the tape.
LEMMA ExecuteHeld ==
  ASSUME BookInv, HandlersInv, HeldInv, NEW o \in Order, NEW r \in Request, Execute(o, r)
  PROVE  HeldInv'
<1> DEFINE b == made'[o]
           n == Len(tape)
<1>1. /\ made[o] = <<>>
      /\ made' = [made EXCEPT ![o] = b] /\ b \in Seq(Trade)
      /\ tape' = tape \o b
      /\ \A i \in DOMAIN b : b[i].id = n + i /\ b[i].taker = o
  BY ExecuteEffect
<1>2. tape \in Seq(Trade) /\ made \in [Order -> Seq(Trade)]
  BY DEF BookInv, HandlersInv
<1> HIDE DEF b
<1>0. DOMAIN b = 1 .. Len(b)
  BY <1>1
<1>3. /\ n \in Nat /\ DOMAIN b = 1 .. Len(b) /\ Len(b) \in Nat
      /\ \A i \in DOMAIN tape : i \in DOMAIN tape' /\ tape'[i] = tape[i]
      /\ \A i \in DOMAIN b : n + i \in DOMAIN tape' /\ tape'[n + i] = b[i]
      /\ \A k \in DOMAIN tape' : k \in DOMAIN tape \/ \E i \in DOMAIN b : k = n + i
  BY <1>1, <1>2, <1>0, Continues
<1>4. \A p \in Order : p # o => made'[p] = made[p]
  BY <1>1, <1>2
<1> HIDE DEF n
<1>5. ASSUME NEW p \in Order, NEW i \in DOMAIN made'[p]
      PROVE  /\ made'[p][i].taker = p
             /\ made'[p][i].id \in DOMAIN tape' /\ tape'[made'[p][i].id] = made'[p][i]
  <2>1. CASE p = o
    BY <1>1, <1>3, <1>5, <2>1 DEF b
  <2>2. CASE p # o
    <3>1. made'[p] = made[p]
      BY <1>4, <2>2
    <3>2. QED
      BY <1>3, <1>5, <3>1 DEF HeldInv
  <2>3. QED
    BY <2>1, <2>2
<1>6. ASSUME NEW p \in Order, NEW i \in DOMAIN made'[p], NEW j \in DOMAIN made'[p], i < j
      PROVE  made'[p][i].id < made'[p][j].id
  <2>1. CASE p = o
    <3>1. i \in 1 .. Len(b) /\ j \in 1 .. Len(b)
      BY <1>3, <1>6, <2>1 DEF b
    <3>2. b[i].id = n + i /\ b[j].id = n + j
      BY <1>1, <1>3, <3>1
    <3>3. b[i].id < b[j].id
      BY <1>3, <1>6, <3>1, <3>2
    <3>4. QED
      BY <2>1, <3>3 DEF b
  <2>2. CASE p # o
    <3>1. made'[p] = made[p]
      BY <1>4, <2>2
    <3>2. QED
      BY <1>6, <3>1 DEF HeldInv
  <2>3. QED
    BY <2>1, <2>2
<1>7. ASSUME NEW k \in DOMAIN tape'
      PROVE  tape'[k] \in Range(made'[tape'[k].taker])
  <2>1. CASE k \in DOMAIN tape
    <3>1. tape'[k] = tape[k] /\ tape[k] \in Range(made[tape[k].taker])
      BY <1>3, <2>1 DEF HeldInv
    <3>2. tape[k] \in Trade
      BY <1>2, <2>1
    <3>3. tape[k].taker \in Order
      BY <3>2 DEF Trade
    <3>4. tape[k].taker # o
      <4>1. Range(made[o]) = {}
        BY <1>1 DEF Range
      <4>2. QED
        BY <3>1, <4>1
    <3>5. QED
      BY <1>4, <3>1, <3>3, <3>4
  <2>2. CASE \E i \in DOMAIN b : k = n + i
    <3>1. PICK i \in DOMAIN b : k = n + i
      BY <2>2
    <3>2. tape'[k] = b[i] /\ b[i].taker = o
      BY <1>1, <1>3, <3>1
    <3>3. b[i] \in Range(made'[o])
      BY DEF Range, b
    <3>4. QED
      BY <3>2, <3>3
  <2>3. QED
    BY <1>3, <2>1, <2>2
<1>8. QED
  BY <1>5, <1>6, <1>7 DEF HeldInv

\* A batch once made is never changed, and the tape only grows.
LEMMA HeldKept ==
  ASSUME BookInv, HandlersInv, HeldInv, [Next]_vars
  PROVE  HeldInv'
<1>1. ASSUME NEW o \in Order, NEW r \in Request, Execute(o, r) PROVE HeldInv'
  BY <1>1, ExecuteHeld
<1>2. ASSUME UNCHANGED <<tape, made>> PROVE HeldInv'
  BY <1>2 DEF HeldInv
<1>3. ASSUME NEW o \in Order, Broadcast(o) \/ PublishTrade(o) PROVE HeldInv'
  BY <1>2, <1>3 DEF Broadcast, PublishTrade, book
<1>4. ASSUME NEW c \in Call, Quietly(c) PROVE HeldInv'
  BY <1>2, <1>4, QuietlyStill DEF Still
<1>5. ASSUME UNCHANGED vars PROVE HeldInv'
  BY <1>2, <1>5, UnchangedStill DEF Still
<1>6. QED
  BY <1>1, <1>3, <1>4, <1>5, StepKinds

\* A handler moves on; everything it may hold fits where it goes.
LEMMA HandlerMoves ==
  ASSUME HandlersInv, NEW c \in Call,
         NEW w \in {"idle", "broadcast", "trades", "depth", "publish",
                    "answer", "answered"},
         pc' = [pc EXCEPT ![c] = w],
         UNCHANGED <<made, cursor, gaveUp>>, DOMAIN ord' = DOMAIN ord,
         c \in Order =>
           /\ w \in {"publish", "answer", "answered"} => cursor[c] = Len(made[c])
           /\ w \in {"broadcast", "trades", "publish", "answer"} => c \in DOMAIN ord,
         DOMAIN snap' = Call, DOMAIN reply' = Call, lostDepth' \subseteq Call,
         \A d \in Call : d # c => snap'[d] = snap[d],
         IF w = "publish" THEN DOMAIN snap'[c] = Side ELSE snap'[c] = None
  PROVE  HandlersInv'
<1>1. pc' \in [Call -> {"idle", "broadcast", "trades", "depth", "publish",
                        "answer", "answered"}]
  BY DEF HandlersInv
<1>2. pc'[c] = w /\ \A d \in Call : d # c => pc'[d] = pc[d]
  BY DEF HandlersInv
<1>3. ASSUME NEW o \in Order
      PROVE  /\ cursor'[o] <= Len(made'[o])
             /\ pc'[o] \in {"publish", "answer", "answered"} => cursor'[o] = Len(made'[o])
             /\ pc'[o] \in {"broadcast", "trades", "publish", "answer"} => o \in DOMAIN ord'
             /\ o \notin DOMAIN ord' => made'[o] = <<>>
  <2>1. /\ cursor[o] <= Len(made[o])
        /\ pc[o] \in {"publish", "answer", "answered"} => cursor[o] = Len(made[o])
        /\ pc[o] \in {"broadcast", "trades", "publish", "answer"} => o \in DOMAIN ord
        /\ o \notin DOMAIN ord => made[o] = <<>>
    BY DEF HandlersInv
  <2>2. o \in Call
    BY DEF Call
  <2>3. CASE o = c
    BY <1>2, <2>1, <2>3
  <2>4. CASE o # c
    BY <1>2, <2>1, <2>2, <2>4
  <2>5. QED
    BY <2>3, <2>4
<1>4. ASSUME NEW d \in Call
      PROVE  IF pc'[d] = "publish" THEN DOMAIN snap'[d] = Side ELSE snap'[d] = None
  <2>1. CASE d = c
    BY <1>2, <2>1
  <2>2. CASE d # c
    <3>1. pc'[d] = pc[d] /\ snap'[d] = snap[d]
      BY <1>2, <2>2
    <3>2. IF pc[d] = "publish" THEN DOMAIN snap[d] = Side ELSE snap[d] = None
      BY DEF HandlersInv
    <3>3. QED
      BY <3>1, <3>2
  <2>3. QED
    BY <2>1, <2>2
<1>5. /\ made' \in [Order -> Seq(Trade)] /\ cursor' \in [Order -> Nat]
      /\ gaveUp' \subseteq Call
  BY DEF HandlersInv
<1>6. QED
  BY <1>1, <1>3, <1>4, <1>5 DEF HandlersInv

\* One iteration of publishTrades publishes the next trade or loses it.
LEMMA PublishTradeEffect ==
  ASSUME HandlersInv, NEW o \in Order, PublishTrade(o)
  PROVE  /\ pc[o] = "trades" /\ cursor[o] + 1 \in DOMAIN made[o]
         /\ cursor' \in [Order -> Nat]
         /\ cursor'[o] = cursor[o] + 1 /\ \A p \in Order : p # o => cursor'[p] = cursor[p]
         /\ \/ /\ redisTrades' = Append(redisTrades, made[o][cursor[o] + 1])
               /\ UNCHANGED lostTrades
            \/ /\ lostTrades' = lostTrades \cup {made[o][cursor[o] + 1]}
               /\ UNCHANGED redisTrades
         /\ UNCHANGED <<book, pc, made, snap, gaveUp, reply, stream, redisDepth, lostDepth>>
<1>1. /\ pc[o] = "trades" /\ cursor[o] < Len(made[o])
      /\ cursor' = [cursor EXCEPT ![o] = @ + 1]
      /\ \/ /\ redisTrades' = Append(redisTrades, made[o][cursor[o] + 1])
            /\ UNCHANGED lostTrades
         \/ /\ lostTrades' = lostTrades \cup {made[o][cursor[o] + 1]}
            /\ UNCHANGED redisTrades
      /\ UNCHANGED <<book, pc, made, snap, gaveUp, reply, stream, redisDepth, lostDepth>>
  BY DEF PublishTrade
<1>2. cursor \in [Order -> Nat] /\ made[o] \in Seq(Trade)
  BY DEF HandlersInv
<1>3. cursor[o] \in Nat /\ cursor[o] + 1 \in DOMAIN made[o]
  BY <1>1, <1>2
<1>4. /\ cursor' \in [Order -> Nat] /\ cursor'[o] = cursor[o] + 1
      /\ \A p \in Order : p # o => cursor'[p] = cursor[p]
  BY <1>1, <1>2, <1>3
<1>5. QED
  BY <1>1, <1>3, <1>4

\* One iteration of publishTrades keeps the handlers' invariant.
LEMMA PublishTradeHandlers ==
  ASSUME HandlersInv, NEW o \in Order, PublishTrade(o)
  PROVE  HandlersInv'
<1>1. /\ pc[o] = "trades" /\ cursor[o] + 1 \in DOMAIN made[o]
      /\ cursor' \in [Order -> Nat]
      /\ cursor'[o] = cursor[o] + 1 /\ \A p \in Order : p # o => cursor'[p] = cursor[p]
      /\ UNCHANGED <<book, pc, made, snap, gaveUp, reply, stream, redisDepth, lostDepth>>
  BY PublishTradeEffect
<1>2. made \in [Order -> Seq(Trade)] /\ ord' = ord
  BY <1>1 DEF HandlersInv, book
<1>3. ASSUME NEW p \in Order
      PROVE  /\ cursor'[p] <= Len(made'[p])
             /\ pc'[p] \in {"publish", "answer", "answered"} => cursor'[p] = Len(made'[p])
             /\ pc'[p] \in {"broadcast", "trades", "publish", "answer"} => p \in DOMAIN ord'
             /\ p \notin DOMAIN ord' => made'[p] = <<>>
  <2>1. /\ cursor[p] <= Len(made[p])
        /\ pc[p] \in {"publish", "answer", "answered"} => cursor[p] = Len(made[p])
        /\ pc[p] \in {"broadcast", "trades", "publish", "answer"} => p \in DOMAIN ord
        /\ p \notin DOMAIN ord => made[p] = <<>>
    BY DEF HandlersInv
  <2>2. cursor[o] + 1 <= Len(made[o])
    BY <1>1, <1>2
  <2>3. QED
    BY <1>1, <1>2, <2>1, <2>2
<1>4. QED
  BY <1>1, <1>3 DEF HandlersInv

\* So does every step that publishes no trade.
LEMMA QuietlyHandlers ==
  ASSUME BookInv, HandlersInv, NEW c \in Call, Quietly(c)
  PROVE  HandlersInv'
<1>1. /\ DOMAIN snap = Call /\ DOMAIN reply = Call /\ lostDepth \subseteq Call
      /\ IF pc[c] = "publish" THEN DOMAIN snap[c] = Side ELSE snap[c] = None
  BY DEF HandlersInv
<1>2. c \in Order =>
        /\ pc[c] \in {"publish", "answer", "answered"} => cursor[c] = Len(made[c])
        /\ pc[c] \in {"broadcast", "trades", "publish", "answer"} => c \in DOMAIN ord
        /\ c \notin DOMAIN ord => made[c] = <<>>
        /\ cursor[c] \in Nat /\ cursor[c] <= Len(made[c])
  BY DEF HandlersInv
<1>3. ASSUME NEW r \in Request, c \in Order, Reject(c, r) PROVE HandlersInv'
  <2>1. /\ c \notin DOMAIN ord /\ pc[c] = "idle" /\ ord' = ord
        /\ pc' = [pc EXCEPT ![c] = "answered"]
        /\ reply' = [reply EXCEPT ![c] = [accepted |-> FALSE]]
        /\ UNCHANGED <<made, cursor, snap, gaveUp, lostDepth>>
    BY <1>3 DEF Reject, Idle, Book!Refuse, Book!IsNew, Goto, events
  <2>2. cursor[c] = Len(made[c])
    BY <1>2, <1>3, <2>1
  <2>3. DOMAIN reply' = Call
    BY <1>1, <2>1
  <2>4. QED
    BY <1>1, <2>1, <2>2, <2>3, HandlerMoves
<1>4. ASSUME NEW id \in ID, c \in Canceller, CancelResting(c, id) \/ CancelUnknown(c, id)
      PROVE  HandlersInv'
  <2>1. c \notin Order
    BY <1>4, ServerAssumption
  <2>2. pc[c] = "idle" /\ ord' = ord /\ UNCHANGED <<made, cursor, snap, gaveUp, lostDepth>>
    BY <1>4 DEF CancelResting, CancelUnknown, Idle, Book!Cancel, events, book
  <2>3. /\ DOMAIN reply' = Call
        /\ \/ pc' = [pc EXCEPT ![c] = "depth"]
           \/ pc' = [pc EXCEPT ![c] = "answered"]
    BY <1>1, <1>4 DEF CancelResting, CancelUnknown, Goto
  <2>4. QED
    BY <1>1, <2>1, <2>2, <2>3, HandlerMoves
<1>5. ASSUME TakeDepth(c) PROVE HandlersInv'
  <2>1. /\ ReadyForDepth(c) /\ snap' = [snap EXCEPT ![c] = Depth]
        /\ pc' = [pc EXCEPT ![c] = "publish"]
        /\ ord' = ord /\ UNCHANGED <<made, cursor, gaveUp, reply, lostDepth>>
    BY <1>5 DEF TakeDepth, Goto, book, events
  <2>2. c \in Order => pc[c] = "trades" /\ cursor[c] = Len(made[c])
    BY <2>1, ServerAssumption DEF ReadyForDepth
  <2>3. DOMAIN Depth = Side
    BY DEF Depth
  <2> HIDE DEF Depth
  <2>4. /\ DOMAIN snap' = Call /\ snap'[c] = Depth
        /\ \A d \in Call : d # c => snap'[d] = snap[d]
    BY <1>1, <2>1
  <2>5. QED
    BY <1>1, <1>2, <2>1, <2>2, <2>3, <2>4, HandlerMoves
<1>6. ASSUME PublishDepth(c) PROVE HandlersInv'
  <2>1. /\ pc[c] = "publish" /\ snap' = [snap EXCEPT ![c] = None]
        /\ pc' = [pc EXCEPT ![c] = "answer"]
        /\ ord' = ord /\ UNCHANGED <<made, cursor, gaveUp, reply>>
        /\ lostDepth' \subseteq lostDepth \cup {c}
    BY <1>6 DEF PublishDepth, Goto, book
  <2>2. /\ DOMAIN snap' = Call /\ snap'[c] = None
        /\ \A d \in Call : d # c => snap'[d] = snap[d]
    BY <1>1, <2>1
  <2>3. lostDepth' \subseteq Call
    BY <1>1, <2>1
  <2>4. QED
    BY <1>1, <1>2, <2>1, <2>2, <2>3, HandlerMoves
<1>7. ASSUME GiveUp(c) PROVE HandlersInv'
  <2>1. /\ gaveUp' = gaveUp \cup {c} /\ ord' = ord
        /\ UNCHANGED <<pc, made, cursor, snap, reply, lostDepth>>
    BY <1>7 DEF GiveUp, book, events
  <2>2. QED
    BY <2>1 DEF HandlersInv
<1>8. ASSUME c \in Order, AnswerSubmit(c) PROVE HandlersInv'
  <2>1. /\ pc[c] = "answer" /\ ord' = ord
        /\ \E a : reply' = [reply EXCEPT ![c] = a]
        /\ pc' = [pc EXCEPT ![c] = "answered"]
        /\ UNCHANGED <<made, cursor, snap, gaveUp, lostDepth>>
    BY <1>8 DEF AnswerSubmit, Goto, book, events
  <2>2. DOMAIN reply' = Call
    BY <1>1, <2>1
  <2>3. QED
    BY <1>1, <1>2, <2>1, <2>2, HandlerMoves
<1>9. ASSUME c \in Canceller, AnswerCancel(c) PROVE HandlersInv'
  <2>1. /\ pc[c] = "answer" /\ ord' = ord
        /\ reply' = [reply EXCEPT ![c] = [accepted |-> TRUE]]
        /\ pc' = [pc EXCEPT ![c] = "answered"]
        /\ UNCHANGED <<made, cursor, snap, gaveUp, lostDepth>>
    BY <1>9 DEF AnswerCancel, Goto, book, events
  <2>2. DOMAIN reply' = Call /\ c \notin Order
    BY <1>1, <1>9, <2>1, ServerAssumption
  <2>3. QED
    BY <1>1, <2>1, <2>2, HandlerMoves
<1>10. QED
  BY <1>3, <1>4, <1>5, <1>6, <1>7, <1>8, <1>9 DEF Quietly

\* Every step keeps the handlers' invariant.
LEMMA HandlersKept ==
  ASSUME BookInv, HandlersInv, [Next]_vars
  PROVE  HandlersInv'
<1>1. ASSUME NEW o \in Order, NEW r \in Request, Execute(o, r) PROVE HandlersInv'
  BY <1>1, ExecuteHandlers
<1>2. ASSUME NEW o \in Order, Broadcast(o) PROVE HandlersInv'
  <2>1. /\ pc[o] = "broadcast" /\ ord' = ord /\ pc' = [pc EXCEPT ![o] = "trades"]
        /\ UNCHANGED <<made, cursor, snap, gaveUp, reply, lostDepth>>
    BY <1>2 DEF Broadcast, Goto, book
  <2>2. /\ DOMAIN snap = Call /\ DOMAIN reply = Call /\ lostDepth \subseteq Call
        /\ o \in Call /\ snap[o] = None /\ o \in DOMAIN ord
    BY <2>1 DEF HandlersInv, Call
  <2>3. QED
    BY <2>1, <2>2, HandlerMoves
<1>3. ASSUME NEW o \in Order, PublishTrade(o) PROVE HandlersInv'
  BY <1>3, PublishTradeHandlers
<1>4. ASSUME NEW c \in Call, Quietly(c) PROVE HandlersInv'
  BY <1>4, QuietlyHandlers
<1>5. ASSUME UNCHANGED vars PROVE HandlersInv'
  BY <1>5 DEF vars, book, events, HandlersInv
<1>6. QED
  BY <1>1, <1>2, <1>3, <1>4, <1>5, StepKinds

-----------------------------------------------------------------------------
(* What is sent is what was made, in order.                                *)

\* A trade of one handler is no other handler's.
LEMMA MadeTyped ==
  ASSUME HandlersInv, HeldInv, NEW o \in Order, NEW i \in DOMAIN made[o]
  PROVE  /\ made[o][i] \in Trade /\ made[o][i].taker = o
         /\ made[o][i].id \in Nat
<1>1. made[o] \in Seq(Trade)
  BY DEF HandlersInv
<1>2. made[o][i] \in Trade
  BY <1>1
<1>3. QED
  BY <1>2 DEF HeldInv, Trade

\* broadcastTrades adds a batch none of whose trades was on the stream.
LEMMA BroadcastStream ==
  ASSUME HandlersInv, HeldInv, StreamInv, NEW o \in Order, Broadcast(o)
  PROVE  StreamInv'
<1> DEFINE b == made[o]
<1>1. /\ pc[o] = "broadcast" /\ pc' = [pc EXCEPT ![o] = "trades"]
      /\ stream' = stream \o b /\ made' = made
  BY DEF Broadcast, Goto
<1>2. /\ b \in Seq(Trade) /\ stream \in Seq(Trade) /\ DOMAIN pc = Call
      /\ o \in Call /\ Order \subseteq Call
  BY DEF HandlersInv, StreamInv, Call
<1>3. /\ pc'[o] # "broadcast"
      /\ \A p \in Order : p # o => pc'[p] = pc[p]
  BY <1>1, <1>2
<1>4. \A i \in DOMAIN b : b[i].taker = o /\ b[i] \in Range(made[o])
  BY MadeTyped DEF Range
<1>5. \A k \in DOMAIN stream :
        /\ stream[k].taker \in Order /\ stream[k].taker # o
        /\ pc[stream[k].taker] # "broadcast"
        /\ stream[k] \in Range(made[stream[k].taker])
  <2>1. \A k \in DOMAIN stream : stream[k] \in Trade
    BY <1>2
  <2>2. QED
    BY <1>1, <2>1 DEF StreamInv, Trade
<1>6. \A i, j \in DOMAIN b : i < j => b[i].id < b[j].id
  BY DEF HeldInv
<1> HIDE DEF b
<1> DEFINE n == Len(stream)
<1>7. /\ stream' \in Seq(Trade) /\ n \in Nat
      /\ \A k \in DOMAIN stream : k \in DOMAIN stream' /\ stream'[k] = stream[k]
      /\ \A i \in DOMAIN b : n + i \in DOMAIN stream' /\ stream'[n + i] = b[i]
      /\ \A k \in DOMAIN stream' : k \in DOMAIN stream \/ \E i \in DOMAIN b : k = n + i
  BY <1>1, <1>2, Continues
<1>8. DOMAIN stream = 1 .. n /\ DOMAIN b \subseteq Nat \ {0}
  BY <1>2
<1> HIDE DEF n
<1>9. ASSUME NEW k \in DOMAIN stream'
      PROVE  /\ pc'[stream'[k].taker] # "broadcast"
             /\ stream'[k] \in Range(made'[stream'[k].taker])
  <2>1. CASE k \in DOMAIN stream
    BY <1>1, <1>3, <1>5, <1>7, <2>1
  <2>2. CASE \E i \in DOMAIN b : k = n + i
    BY <1>1, <1>3, <1>4, <1>7, <2>2
  <2>3. QED
    BY <1>7, <2>1, <2>2
<1>10. ASSUME NEW p \in Order, pc'[p] # "broadcast"
       PROVE  Range(made'[p]) \subseteq Range(stream')
  <2>1. Range(stream) \subseteq Range(stream')
    BY <1>7 DEF Range
  <2>2. CASE p = o
    <3>1. Range(b) \subseteq Range(stream')
      BY <1>7 DEF Range
    <3>2. QED
      BY <1>1, <2>2, <3>1 DEF b
  <2>3. CASE p # o
    <3>1. Range(made[p]) \subseteq Range(stream)
      BY <1>3, <1>10, <2>3 DEF StreamInv
    <3>2. QED
      BY <1>1, <2>1, <3>1
  <2>4. QED
    BY <2>2, <2>3
<1>11. ASSUME NEW k \in DOMAIN stream', NEW l \in DOMAIN stream', k < l,
              stream'[k].taker = stream'[l].taker
       PROVE  stream'[k].id < stream'[l].id
  <2>1. CASE k \in DOMAIN stream /\ l \in DOMAIN stream
    BY <1>7, <1>11, <2>1 DEF StreamInv, InOrder
  <2>2. CASE k \in DOMAIN stream /\ \E i \in DOMAIN b : l = n + i
    BY <1>4, <1>5, <1>7, <1>11, <2>2
  <2>3. CASE (\E i \in DOMAIN b : k = n + i) /\ l \in DOMAIN stream
    <3>1. PICK i \in DOMAIN b : k = n + i
      BY <2>3
    <3>2. i \in Nat \ {0} /\ l <= n /\ l \in Nat
      BY <1>7, <1>8, <2>3
    <3>3. QED
      BY <1>7, <1>11, <3>1, <3>2
  <2>4. CASE (\E i \in DOMAIN b : k = n + i) /\ (\E j \in DOMAIN b : l = n + j)
    <3>1. PICK i \in DOMAIN b, j \in DOMAIN b : k = n + i /\ l = n + j
      BY <2>4
    <3>2. i < j
      BY <1>7, <1>8, <1>11, <3>1
    <3>3. QED
      BY <1>6, <1>7, <3>1, <3>2
  <2>5. QED
    BY <1>7, <1>11, <2>1, <2>2, <2>3, <2>4
<1>12. QED
  BY <1>7, <1>9, <1>10, <1>11 DEF StreamInv, InOrder

\* An execution leaves the stream alone, its trades are still to be sent.
LEMMA ExecuteStream ==
  ASSUME BookInv, HandlersInv, StreamInv,
         NEW o \in Order, NEW r \in Request, Execute(o, r)
  PROVE  StreamInv'
<1>1. /\ pc' = [pc EXCEPT ![o] = "broadcast"] /\ made[o] = <<>>
      /\ made' = [made EXCEPT ![o] = made'[o]] /\ stream' = stream
  BY ExecuteEffect DEF events
<1>2. /\ made \in [Order -> Seq(Trade)] /\ DOMAIN pc = Call /\ Order \subseteq Call
      /\ stream \in Seq(Trade)
  BY DEF HandlersInv, StreamInv, Call
<1>3. \A p \in Order : p # o => pc'[p] = pc[p] /\ made'[p] = made[p]
  BY <1>1, <1>2
<1>4. pc'[o] = "broadcast"
  BY <1>1, <1>2
<1>5. \A k \in DOMAIN stream : stream[k].taker \in Order /\ stream[k].taker # o
  <2>1. \A k \in DOMAIN stream : stream[k] \in Trade /\ stream[k] \in Range(made[stream[k].taker])
    BY <1>2 DEF StreamInv
  <2>2. Range(made[o]) = {}
    BY <1>1 DEF Range
  <2>3. QED
    BY <2>1, <2>2 DEF Trade
<1>6. QED
  BY <1>1, <1>3, <1>4, <1>5 DEF StreamInv, InOrder

\* Every step keeps the stream's invariant.
LEMMA StreamKept ==
  ASSUME BookInv, HandlersInv, HeldInv, StreamInv, [Next]_vars
  PROVE  StreamInv'
<1>1. ASSUME Still PROVE StreamInv'
  <2>1. UNCHANGED <<made, stream>> /\ \A o \in Order : pc'[o] = "broadcast" <=> pc[o] = "broadcast"
    BY <1>1 DEF Still
  <2>2. \A k \in DOMAIN stream : stream[k].taker \in Order
    <3>1. \A k \in DOMAIN stream : stream[k] \in Trade
      BY DEF StreamInv
    <3>2. QED
      BY <3>1 DEF Trade
  <2>3. QED
    BY <2>1, <2>2 DEF StreamInv, InOrder
<1>2. ASSUME NEW o \in Order, NEW r \in Request, Execute(o, r) PROVE StreamInv'
  BY <1>2, ExecuteStream
<1>3. ASSUME NEW o \in Order, Broadcast(o) PROVE StreamInv'
  BY <1>3, BroadcastStream
<1>4. ASSUME NEW o \in Order, PublishTrade(o) PROVE StreamInv'
  <2>1. UNCHANGED <<pc, made, stream>>
    BY <1>4 DEF PublishTrade
  <2>2. QED
    BY <2>1 DEF StreamInv, InOrder
<1>5. QED
  BY <1>1, <1>2, <1>3, <1>4, StepKinds, QuietlyStill, UnchangedStill

-----------------------------------------------------------------------------
(* Redis.                                                                  *)

\* A trade that publishTrades comes to was neither published nor lost before.
LEMMA PublishTradeRedis ==
  ASSUME HandlersInv, HeldInv, RedisInv, NEW o \in Order, PublishTrade(o)
  PROVE  RedisInv'
<1> DEFINE t == made[o][cursor[o] + 1]
<1>1. /\ cursor[o] + 1 \in DOMAIN made[o]
      /\ cursor'[o] = cursor[o] + 1 /\ \A p \in Order : p # o => cursor'[p] = cursor[p]
      /\ \/ redisTrades' = Append(redisTrades, t) /\ UNCHANGED lostTrades
         \/ lostTrades' = lostTrades \cup {t} /\ UNCHANGED redisTrades
      /\ UNCHANGED made
  BY PublishTradeEffect
<1>2. t \in Trade /\ t.taker = o /\ t.id \in Nat
  BY <1>1, MadeTyped
<1>3. /\ redisTrades \in Seq(Trade) /\ lostTrades \subseteq Trade
      /\ cursor[o] \in Nat /\ made[o] \in Seq(Trade)
  BY DEF RedisInv, HandlersInv
<1>4. /\ First(made'[o], cursor'[o]) = First(made[o], cursor[o]) \cup {t}
      /\ \A p \in Order :
           p # o => First(made'[p], cursor'[p]) = First(made[p], cursor[p])
  <2>1. \A i : i \in 1 .. cursor[o] + 1 <=> i \in 1 .. cursor[o] \/ i = cursor[o] + 1
    BY <1>3
  <2>2. QED
    BY <1>1, <2>1 DEF First
<1>5. \A x \in First(made[o], cursor[o]) : x.id < t.id
  <2>1. SUFFICES ASSUME NEW i \in 1 .. cursor[o] PROVE made[o][i].id < made[o][cursor[o] + 1].id
    BY DEF First
  <2>2. i \in DOMAIN made[o] /\ i < cursor[o] + 1
    BY <1>1, <1>3
  <2>3. QED
    BY <1>1, <2>2 DEF HeldInv
<1> HIDE DEF t
<1>6. \A x \in Range(redisTrades) \cup lostTrades :
        x.taker \in Order /\ x \in First(made[x.taker], cursor[x.taker]) /\ x # t
  <2>1. \A x \in Range(redisTrades) \cup lostTrades :
          x \in Trade /\ x \in First(made[x.taker], cursor[x.taker])
    BY <1>3 DEF RedisInv, Range
  <2>2. t \notin First(made[o], cursor[o])
    BY <1>2, <1>5
  <2>3. QED
    BY <1>2, <2>1, <2>2 DEF Trade
<1>7. CASE lostTrades' = lostTrades \cup {t} /\ UNCHANGED redisTrades
  <2>1. redisTrades' \in Seq(Trade) /\ lostTrades' \subseteq Trade
    BY <1>2, <1>3, <1>7
  <2>2. \A k \in DOMAIN redisTrades' :
          redisTrades'[k] \in
            First(made'[redisTrades'[k].taker], cursor'[redisTrades'[k].taker])
    <3>1. \A k \in DOMAIN redisTrades : redisTrades[k] \in Range(redisTrades)
      BY DEF Range
    <3>2. QED
      BY <1>4, <1>6, <1>7, <3>1
  <2>3. \A x \in lostTrades' :
          x \in First(made'[x.taker], cursor'[x.taker]) /\ x \notin Range(redisTrades')
    BY <1>2, <1>4, <1>6, <1>7 DEF RedisInv
  <2>4. \A p \in Order :
          First(made'[p], cursor'[p]) \subseteq Range(redisTrades') \cup lostTrades'
    BY <1>4, <1>7 DEF RedisInv
  <2>5. InOrder(redisTrades')
    BY <1>7 DEF RedisInv
  <2>6. QED
    BY <2>1, <2>2, <2>3, <2>4, <2>5 DEF RedisInv
<1>8. CASE redisTrades' = Append(redisTrades, t) /\ UNCHANGED lostTrades
  <2> DEFINE n == Len(redisTrades)
  <2>1. /\ redisTrades' \in Seq(Trade) /\ n \in Nat
        /\ DOMAIN redisTrades = 1 .. n /\ DOMAIN redisTrades' = 1 .. n + 1
        /\ \A k \in 1 .. n : redisTrades'[k] = redisTrades[k]
        /\ redisTrades'[n + 1] = t
    BY <1>2, <1>3, <1>8
  <2> HIDE DEF n
  <2>2. \A k \in 1 .. n + 1 : k \in 1 .. n \/ k = n + 1
    BY <2>1
  <2>3. Range(redisTrades') = Range(redisTrades) \cup {t}
    <3>1. 1 .. n \subseteq 1 .. n + 1 /\ n + 1 \in 1 .. n + 1
      BY <2>1
    <3>2. QED
      BY <2>1, <2>2, <3>1 DEF Range
  <2>4. \A k \in 1 .. n : redisTrades[k] \in Range(redisTrades)
    BY <2>1 DEF Range
  <2>5. \A k \in DOMAIN redisTrades' :
          redisTrades'[k] \in
            First(made'[redisTrades'[k].taker], cursor'[redisTrades'[k].taker])
    BY <1>2, <1>4, <1>6, <2>1, <2>2, <2>4
  <2>6. \A x \in lostTrades' :
          x \in First(made'[x.taker], cursor'[x.taker]) /\ x \notin Range(redisTrades')
    BY <1>4, <1>6, <1>8, <2>3 DEF RedisInv
  <2>7. \A p \in Order :
          First(made'[p], cursor'[p]) \subseteq Range(redisTrades') \cup lostTrades'
    BY <1>4, <1>8, <2>3 DEF RedisInv
  <2>8. ASSUME NEW k \in 1 .. n + 1, NEW l \in 1 .. n + 1, k < l,
               redisTrades'[k].taker = redisTrades'[l].taker
        PROVE  redisTrades'[k].id < redisTrades'[l].id
    <3>1. k \in 1 .. n
      BY <2>1, <2>8
    <3>2. CASE l \in 1 .. n
      BY <2>1, <2>8, <3>1, <3>2 DEF RedisInv, InOrder
    <3>3. CASE l = n + 1
      <4>1. redisTrades[k] \in First(made[o], cursor[o])
        BY <1>2, <1>6, <2>1, <2>4, <2>8, <3>1, <3>3
      <4>2. QED
        BY <1>5, <2>1, <3>1, <3>3, <4>1
    <3>4. QED
      BY <2>2, <3>2, <3>3
  <2>9. InOrder(redisTrades')
    BY <2>1, <2>8 DEF InOrder
  <2>10. lostTrades' \subseteq Trade
    BY <1>3, <1>8
  <2>11. QED
    BY <2>1, <2>5, <2>6, <2>7, <2>9, <2>10 DEF RedisInv
<1>9. QED
  BY <1>1, <1>7, <1>8

\* An execution leaves Redis alone, its trades are still to be published.
LEMMA ExecuteRedis ==
  ASSUME BookInv, HandlersInv, RedisInv,
         NEW o \in Order, NEW r \in Request, Execute(o, r)
  PROVE  RedisInv'
<1>1. /\ cursor[o] = 0 /\ made' = [made EXCEPT ![o] = made'[o]]
      /\ UNCHANGED <<cursor, redisTrades, lostTrades>>
  BY ExecuteEffect DEF events
<1>2. \A p \in Order : p # o => made'[p] = made[p]
  BY <1>1 DEF HandlersInv
<1>3. \A p \in Order : First(made'[p], cursor'[p]) = First(made[p], cursor[p])
  <2>1. 1 .. 0 = {}
    OBVIOUS
  <2>2. First(made'[o], cursor'[o]) = {} /\ First(made[o], cursor[o]) = {}
    BY <1>1, <2>1 DEF First
  <2>3. \A p \in Order : p # o => First(made'[p], cursor'[p]) = First(made[p], cursor[p])
    BY <1>1, <1>2 DEF First
  <2>4. QED
    BY <2>2, <2>3
<1>4. \A x \in Range(redisTrades) \cup lostTrades : x.taker \in Order
  <2>1. \A x \in Range(redisTrades) \cup lostTrades : x \in Trade
    BY DEF RedisInv, Range
  <2>2. QED
    BY <2>1 DEF Trade
<1>5. \A k \in DOMAIN redisTrades : redisTrades[k].taker \in Order
  BY <1>4 DEF Range
<1>6. QED
  BY <1>1, <1>3, <1>4, <1>5 DEF RedisInv

\* Every step keeps Redis's invariant.
LEMMA RedisKept ==
  ASSUME BookInv, HandlersInv, HeldInv, RedisInv, [Next]_vars
  PROVE  RedisInv'
<1>1. ASSUME UNCHANGED <<made, cursor, redisTrades, lostTrades>> PROVE RedisInv'
  <2>1. \A o : First(made'[o], cursor'[o]) = First(made[o], cursor[o])
    BY <1>1 DEF First
  <2>2. QED
    BY <1>1, <2>1 DEF RedisInv
<1>2. ASSUME Still PROVE RedisInv'
  BY <1>1, <1>2 DEF Still
<1>3. ASSUME NEW o \in Order, NEW r \in Request, Execute(o, r) PROVE RedisInv'
  BY <1>3, ExecuteRedis
<1>4. ASSUME NEW o \in Order, Broadcast(o) PROVE RedisInv'
  BY <1>1, <1>4 DEF Broadcast
<1>5. ASSUME NEW o \in Order, PublishTrade(o) PROVE RedisInv'
  BY <1>5, PublishTradeRedis
<1>6. QED
  BY <1>2, <1>3, <1>4, <1>5, StepKinds, QuietlyStill, UnchangedStill

-----------------------------------------------------------------------------
(* The current snapshot is published, lost or on its way.                  *)

\* Appending adds one element to the range.
LEMMA AppendRange ==
  ASSUME NEW S, NEW q \in Seq(S), NEW e
  PROVE  Append(q, e) \in Seq(S \cup {e}) /\ Range(Append(q, e)) = Range(q) \cup {e}
<1>1. Len(q) \in Nat /\ DOMAIN q = 1 .. Len(q) /\ q \in Seq(S \cup {e})
  OBVIOUS
<1> DEFINE a == Append(q, e)
<1>2. /\ a \in Seq(S \cup {e}) /\ Len(a) = Len(q) + 1
      /\ a[Len(q) + 1] = e /\ \A i \in 1 .. Len(q) : a[i] = q[i]
  BY <1>1, AppendProperties
<1>3. DOMAIN a = 1 .. Len(q) + 1
  BY <1>2
<1>4. \A i : i \in 1 .. Len(q) + 1 <=> i \in 1 .. Len(q) \/ i = Len(q) + 1
  BY <1>1
<1> HIDE DEF a
<1>5. Range(a) = Range(q) \cup {e}
  BY <1>1, <1>2, <1>3, <1>4 DEF Range
<1>6. QED
  BY <1>2, <1>5 DEF a

\* The depth is a function of the orders and of those that rest.
LEMMA SameDepth == UNCHANGED <<ord, resting>> => Depth' = Depth
BY DEF Depth, Book!Remaining

\* A call is answered that was idle, and turned down, or had published.
LEMMA AnsweredSnapshot ==
  ASSUME HandlersInv, SnapshotInv, NEW c \in Call, UNCHANGED <<ord, resting>>,
         pc[c] \in {"idle", "answer"}, pc' = [pc EXCEPT ![c] = "answered"],
         UNCHANGED <<snap, redisDepth, lostDepth>>,
         \A d \in Call : d # c => reply'[d] = reply[d],
         pc[c] = "idle" => ~reply'[c].accepted
  PROVE  SnapshotInv'
<1>1. Depth' = Depth
  BY SameDepth
<1>2. pc'[c] = "answered" /\ \A d \in Call : d # c => pc'[d] = pc[d]
  BY DEF HandlersInv
<1>3. ASSUME NEW d \in Call, ReachedBook(d)' PROVE ReachedBook(d)
  <2>1. CASE d = c
    BY <1>2, <1>3, <2>1 DEF ReachedBook, Acknowledged
  <2>2. CASE d # c
    BY <1>2, <1>3, <2>2 DEF ReachedBook, Acknowledged
  <2>3. QED
    BY <2>1, <2>2
<1>4. \A d \in Call : pc[d] \in {"broadcast", "trades", "depth", "publish"} => pc'[d] = pc[d]
  BY <1>2
<1>5. (\E d \in Call : ReachedBook(d)) =>
        \/ \E e \in Call : pc'[e] \in {"broadcast", "trades", "depth"}
        \/ \E e \in Call : pc'[e] = "publish" /\ snap'[e] = Depth'
        \/ Depth' \in Range(redisDepth')
        \/ lostDepth' # {}
  <2>0. HAVE \E d \in Call : ReachedBook(d)
  <2>1. \/ \E e \in Call : pc[e] \in {"broadcast", "trades", "depth"}
        \/ \E e \in Call : pc[e] = "publish" /\ snap[e] = Depth
        \/ Depth \in Range(redisDepth)
        \/ lostDepth # {}
    BY <2>0 DEF SnapshotInv
  <2>2. QED
    BY <1>1, <1>4, <2>1
<1>6. redisDepth' \in Seq(Range(redisDepth'))
  BY DEF SnapshotInv
<1>7. (\E d \in Call : ReachedBook(d)') => \E d \in Call : ReachedBook(d)
  BY <1>3
<1>8. QED
  BY <1>5, <1>6, <1>7, Zenon DEF SnapshotInv

\* After a publication the current depth is published, lost, or still held
\* by another handler.
LEMMA PublishDepthSnapshot ==
  ASSUME HandlersInv, SnapshotInv, NEW c \in Call, PublishDepth(c)
  PROVE  SnapshotInv'
<1>1. /\ pc[c] = "publish" /\ pc' = [pc EXCEPT ![c] = "answer"]
      /\ snap' = [snap EXCEPT ![c] = None] /\ reply' = reply
      /\ UNCHANGED <<ord, resting>>
      /\ \/ redisDepth' = Append(redisDepth, snap[c]) /\ lostDepth' = lostDepth
         \/ lostDepth' = lostDepth \cup {c} /\ redisDepth' = redisDepth
  BY DEF PublishDepth, Goto, book
<1>2. Depth' = Depth
  BY <1>1, SameDepth
<1>3. /\ pc'[c] = "answer" /\ \A d \in Call : d # c => pc'[d] = pc[d] /\ snap'[d] = snap[d]
  BY <1>1 DEF HandlersInv
<1>4. ASSUME NEW d \in Call, ReachedBook(d)' PROVE ReachedBook(d)
  <2>1. CASE d = c
    BY <1>1, <2>1 DEF ReachedBook
  <2>2. CASE d # c
    BY <1>1, <1>3, <1>4, <2>2 DEF ReachedBook, Acknowledged
  <2>3. QED
    BY <2>1, <2>2
<1>5. CASE lostDepth' = lostDepth \cup {c} /\ redisDepth' = redisDepth
  BY <1>5 DEF SnapshotInv
<1>6. CASE redisDepth' = Append(redisDepth, snap[c]) /\ lostDepth' = lostDepth
  <2>1. /\ \A x \in Range(redisDepth) : x \in Range(redisDepth')
        /\ snap[c] \in Range(redisDepth')
    <3>1. redisDepth \in Seq(Range(redisDepth))
      BY DEF SnapshotInv
    <3>2. Range(redisDepth') = Range(redisDepth) \cup {snap[c]}
      BY <1>6, <3>1, AppendRange
    <3>3. QED
      BY <3>2
  <2>2. ASSUME NEW d \in Call, pc[d] \in {"broadcast", "trades", "depth"}
        PROVE  pc'[d] \in {"broadcast", "trades", "depth"}
    BY <1>1, <1>3, <2>2
  <2>3. ASSUME NEW d \in Call, pc[d] = "publish", snap[d] = Depth
        PROVE  \/ pc'[d] = "publish" /\ snap'[d] = Depth'
               \/ Depth' \in Range(redisDepth')
    BY <1>2, <1>3, <2>1, <2>3
  <2>4. redisDepth' \in Seq(Range(redisDepth'))
    <3>1. redisDepth \in Seq(Range(redisDepth))
      BY DEF SnapshotInv
    <3>2. /\ redisDepth' \in Seq(Range(redisDepth) \cup {snap[c]})
          /\ Range(redisDepth') = Range(redisDepth) \cup {snap[c]}
      BY <1>6, <3>1, AppendRange
    <3>3. QED
      BY <3>2
  <2>5. QED
    BY <1>2, <1>4, <1>6, <2>1, <2>2, <2>3, <2>4 DEF SnapshotInv
<1>7. QED
  BY <1>1, <1>5, <1>6

\* Every step keeps the invariant about snapshots.
LEMMA SnapshotKept ==
  ASSUME BookInv, HandlersInv, SnapshotInv, [Next]_vars
  PROVE  SnapshotInv'
<1>1. redisDepth \in Seq(Range(redisDepth)) /\ DOMAIN pc = Call
  BY DEF SnapshotInv, HandlersInv
<1>2. ASSUME NEW c \in Call, redisDepth' = redisDepth,
             pc'[c] \in {"broadcast", "trades", "depth"}
      PROVE  SnapshotInv'
  BY <1>1, <1>2 DEF SnapshotInv
<1>3. ASSUME UNCHANGED <<ord, resting, pc, snap, reply, redisDepth, lostDepth>>
      PROVE  SnapshotInv'
  <2>1. Depth' = Depth
    BY <1>3, SameDepth
  <2>2. \A c : ReachedBook(c)' <=> ReachedBook(c)
    BY <1>3 DEF ReachedBook, Acknowledged
  <2>3. QED
    BY <1>3, <2>1, <2>2 DEF SnapshotInv
<1>4. ASSUME NEW o \in Order, NEW r \in Request, Execute(o, r) PROVE SnapshotInv'
  <2>1. pc' = [pc EXCEPT ![o] = "broadcast"] /\ redisDepth' = redisDepth /\ o \in Call
    BY <1>4 DEF Execute, Goto, events, Call
  <2>2. QED
    BY <1>1, <1>2, <2>1
<1>5. ASSUME NEW o \in Order, Broadcast(o) PROVE SnapshotInv'
  <2>1. pc' = [pc EXCEPT ![o] = "trades"] /\ redisDepth' = redisDepth /\ o \in Call
    BY <1>5 DEF Broadcast, Goto, events, Call
  <2>2. QED
    BY <1>1, <1>2, <2>1
<1>6. ASSUME NEW o \in Order, PublishTrade(o) PROVE SnapshotInv'
  BY <1>3, <1>6 DEF PublishTrade, book
<1>7. ASSUME UNCHANGED vars PROVE SnapshotInv'
  BY <1>3, <1>7 DEF vars, book, events
<1>8. ASSUME NEW c \in Call, Quietly(c) PROVE SnapshotInv'
  <2>1. \A d \in Call : \A a : reply' = [reply EXCEPT ![c] = a] =>
          (d # c => reply'[d] = reply[d]) /\ reply'[c] = a
    BY DEF HandlersInv
  <2>2. ASSUME NEW r \in Request, Reject(c, r) PROVE SnapshotInv'
    <3>1. /\ pc[c] = "idle" /\ pc' = [pc EXCEPT ![c] = "answered"]
          /\ reply' = [reply EXCEPT ![c] = [accepted |-> FALSE]]
          /\ UNCHANGED <<ord, resting>> /\ UNCHANGED <<snap, redisDepth, lostDepth>>
      BY <2>2 DEF Reject, Idle, Goto, events, Book!Refuse
    <3>2. ~reply'[c].accepted
      BY <2>1, <3>1
    <3>3. QED
      BY <2>1, <3>1, <3>2, AnsweredSnapshot
  <2>3. ASSUME NEW id \in ID, CancelUnknown(c, id) PROVE SnapshotInv'
    <3>1. /\ pc[c] = "idle" /\ pc' = [pc EXCEPT ![c] = "answered"]
          /\ reply' = [reply EXCEPT ![c] = [accepted |-> FALSE]]
          /\ UNCHANGED <<ord, resting>> /\ UNCHANGED <<snap, redisDepth, lostDepth>>
      BY <2>3 DEF CancelUnknown, Idle, Goto, events, book
    <3>2. ~reply'[c].accepted
      BY <2>1, <3>1
    <3>3. QED
      BY <2>1, <3>1, <3>2, AnsweredSnapshot
  <2>4. ASSUME NEW id \in ID, CancelResting(c, id) PROVE SnapshotInv'
    <3>1. pc' = [pc EXCEPT ![c] = "depth"] /\ redisDepth' = redisDepth
      BY <2>4 DEF CancelResting, Goto, events
    <3>2. QED
      BY <1>1, <1>2, <3>1
  <2>5. ASSUME TakeDepth(c) PROVE SnapshotInv'
    <3>1. /\ pc' = [pc EXCEPT ![c] = "publish"] /\ snap' = [snap EXCEPT ![c] = Depth]
          /\ redisDepth' = redisDepth /\ UNCHANGED <<ord, resting>>
      BY <2>5 DEF TakeDepth, Goto, events, book
    <3>2. Depth' = Depth
      BY <3>1, SameDepth
    <3>3. pc'[c] = "publish" /\ snap'[c] = Depth'
      BY <1>1, <3>1, <3>2 DEF HandlersInv
    <3>4. QED
      BY <1>1, <3>1, <3>3 DEF SnapshotInv
  <2>6. ASSUME PublishDepth(c) PROVE SnapshotInv'
    BY <2>6, PublishDepthSnapshot
  <2>7. ASSUME GiveUp(c) PROVE SnapshotInv'
    BY <1>3, <2>7 DEF GiveUp, book, events
  <2>8. ASSUME AnswerSubmit(c) \/ AnswerCancel(c) PROVE SnapshotInv'
    <3>1. /\ pc[c] = "answer" /\ pc' = [pc EXCEPT ![c] = "answered"]
          /\ \E a : reply' = [reply EXCEPT ![c] = a]
          /\ UNCHANGED <<ord, resting>> /\ UNCHANGED <<snap, redisDepth, lostDepth>>
      BY <2>8 DEF AnswerSubmit, AnswerCancel, Goto, events, book
    <3>2. QED
      BY <2>1, <3>1, AnsweredSnapshot
  <2>9. QED
    BY <1>8, <2>2, <2>3, <2>4, <2>5, <2>6, <2>7, <2>8 DEF Quietly
<1>9. QED
  BY <1>4, <1>5, <1>6, <1>7, <1>8, StepKinds

-----------------------------------------------------------------------------
(* The invariant, and what it says.                                        *)

\* The invariant holds of a server without calls.
LEMMA InitServerInv == Init => ServerInv
<1>1. SUFFICES ASSUME Init PROVE ServerInv
  OBVIOUS
<1>2. /\ ord = Book!EmptyMap /\ resting = {} /\ tape = <<>> /\ clock = 0
      /\ pc = [c \in Call |-> "idle"] /\ made = [o \in Order |-> <<>>]
      /\ cursor = [o \in Order |-> 0] /\ snap = [c \in Call |-> None]
      /\ gaveUp = {} /\ reply = [c \in Call |-> None]
      /\ stream = <<>> /\ redisTrades = <<>> /\ redisDepth = <<>>
      /\ lostTrades = {} /\ lostDepth = {}
  BY <1>1 DEF Init, Book!Init
<1>3. DOMAIN ord = {}
  BY <1>2 DEF Book!EmptyMap
<1>4. BookInv
  BY <1>2, <1>3, FS_EmptySet DEF BookInv
<1>5. HandlersInv
  BY <1>2, <1>3 DEF HandlersInv, Call
<1>6. HeldInv
  BY <1>2 DEF HeldInv
<1>7. StreamInv
  <2>1. \A o \in Order : Range(made[o]) = {}
    <3>1. \A o \in Order : made[o] = <<>>
      BY <1>2
    <3>2. Range(<<>>) = {}
      BY DEF Range
    <3>3. QED
      BY <3>1, <3>2
  <2>2. QED
    BY <1>2, <2>1 DEF StreamInv, InOrder
<1>8. RedisInv
  <2>1. 1 .. 0 = {}
    OBVIOUS
  <2>2. \A o \in Order : First(made[o], cursor[o]) = {}
    BY <1>2, <2>1 DEF First
  <2>3. QED
    BY <1>2, <2>2 DEF RedisInv, InOrder
<1>9. SnapshotInv
  <2>1. \A c \in Call : reply[c] = None /\ pc[c] = "idle"
    BY <1>2
  <2>2. \A c \in Call : ~ReachedBook(c)
    BY <2>1 DEF ReachedBook, Acknowledged
  <2>3. QED
    BY <1>2, <2>2 DEF SnapshotInv
<1>10. QED
  BY <1>4, <1>5, <1>6, <1>7, <1>8, <1>9 DEF ServerInv

\* The invariant is inductive: its parts together keep each of them.
LEMMA StepServerInv == ServerInv /\ [Next]_vars => ServerInv'
BY BookKept, HandlersKept, HeldKept, StreamKept, RedisKept, SnapshotKept DEF ServerInv

\* The handlers' invariant holds throughout: what each handler holds, the
\* stream, Redis and the snapshots agree with the tape and the book.
THEOREM ServerInvariance == Spec => []ServerInv
<1>1. Init => ServerInv
  BY InitServerInv
<1>2. ServerInv /\ [Next]_vars => ServerInv'
  BY StepServerInv
<1>3. QED
  BY <1>1, <1>2, PTL DEF Spec

\* Every handler is where its cursor and its snapshot say (SubmitOrder,
\* CancelOrder).
THEOREM ServerTypeCorrect == Spec => []TypeOK
<1>1. ServerInv => TypeOK
  <2>1. SUFFICES ASSUME ServerInv PROVE TypeOK
    OBVIOUS
  <2>2. \A o \in Order : made[o] \in Seq(Trade) /\ cursor[o] \in 0 .. Len(made[o])
    <3>1. SUFFICES ASSUME NEW o \in Order
                   PROVE  made[o] \in Seq(Trade) /\ cursor[o] \in 0 .. Len(made[o])
      OBVIOUS
    <3>2. made[o] \in Seq(Trade) /\ cursor[o] \in Nat /\ cursor[o] <= Len(made[o])
      BY <2>1 DEF ServerInv, HandlersInv
    <3>3. Len(made[o]) \in Nat
      BY <3>2
    <3>4. QED
      BY <3>2, <3>3
  <2>3. QED
    BY <2>1, <2>2 DEF ServerInv, HandlersInv, StreamInv, RedisInv, TypeOK
<1>2. QED
  BY <1>1, ServerInvariance, PTL

\* The trades of one order are broadcast, and published, in the order they
\* were executed (broadcastTrades, publishTrades).
THEOREM TradesInOrder == Spec => []OwnTradesInOrder
<1>1. ServerInv => OwnTradesInOrder
  BY DEF ServerInv, StreamInv, RedisInv, InOrder, OwnTradesInOrder
<1>2. QED
  BY <1>1, ServerInvariance, PTL

\* A list whose equal takers have growing ids repeats nothing.
LEMMA InOrderDistinct ==
  ASSUME NEW q \in Seq(Trade), InOrder(q)
  PROVE  Distinct(q)
<1>1. \A i \in DOMAIN q : i \in Nat /\ q[i].id \in Nat
  <2>1. \A i \in DOMAIN q : i \in Nat /\ q[i] \in Trade
    OBVIOUS
  <2>2. QED
    BY <2>1 DEF Trade
<1>2. \A i, j \in DOMAIN q : i # j => q[i] # q[j]
  BY <1>1 DEF InOrder
<1>3. QED
  BY <1>2, InjectiveCounts DEF Distinct

\* The invariant counts every trade once.
LEMMA CountedOnce ==
  ASSUME BookInv, HandlersInv, HeldInv, StreamInv, RedisInv
  PROVE  EveryTradeOnce
<1>1. Distinct(stream) /\ Distinct(redisTrades)
  BY InOrderDistinct DEF StreamInv, RedisInv
<1>2. \A o \in Order : \A x \in Range(made[o]) : x.taker = o /\ x \in Range(tape)
  BY DEF HeldInv, Range
<1>3. \A x \in Range(tape) : x.taker \in Order /\ x \in Range(made[x.taker])
  <2>1. \A k \in DOMAIN tape : tape[k].taker \in Order
    <3>1. \A k \in DOMAIN tape : tape[k] \in Trade
      BY DEF BookInv
    <3>2. QED
      BY <3>1 DEF Trade
  <2>2. \A k \in DOMAIN tape : tape[k] \in Range(made[tape[k].taker])
    BY DEF HeldInv
  <2>3. \A x \in Range(tape) : \E k \in DOMAIN tape : x = tape[k]
    BY DEF Range
  <2>4. QED
    BY <2>1, <2>2, <2>3
<1>4. \A x \in Range(stream) :
        x.taker \in Order /\ pc[x.taker] # "broadcast" /\ x \in Range(made[x.taker])
  <2>1. \A k \in DOMAIN stream : stream[k].taker \in Order
    <3>1. \A k \in DOMAIN stream : stream[k] \in Trade
      BY DEF StreamInv
    <3>2. QED
      BY <3>1 DEF Trade
  <2>2. QED
    BY <2>1 DEF StreamInv, Range
<1>5. \A x : x \in UnsentTrades <=> \E o \in Order : pc[o] = "broadcast" /\ x \in Range(made[o])
  BY DEF UnsentTrades
<1>6. Range(stream) \cap UnsentTrades = {}
  BY <1>2, <1>4, <1>5
<1>7. Range(stream) \cup UnsentTrades = Range(tape)
  <2>1. ASSUME NEW x \in Range(tape) PROVE x \in Range(stream) \/ x \in UnsentTrades
    BY <1>3, <1>5 DEF StreamInv
  <2>2. QED
    BY <1>2, <1>4, <1>5, <2>1
<1>8. \A x : x \in UnpublishedTrades <=>
        \E o \in Order : \E i \in cursor[o] + 1 .. Len(made[o]) : x = made[o][i]
  BY DEF UnpublishedTrades
<1>9. ASSUME NEW o \in Order
       PROVE  /\ cursor[o] \in Nat /\ Len(made[o]) \in Nat /\ cursor[o] <= Len(made[o])
              /\ DOMAIN made[o] = 1 .. Len(made[o])
  BY DEF HandlersInv
<1>10. \A x \in Range(redisTrades) \cup lostTrades :
         x.taker \in Order /\ x \in First(made[x.taker], cursor[x.taker])
  <2>1. \A x \in Range(redisTrades) \cup lostTrades : x \in Trade
    BY DEF RedisInv, Range
  <2>2. QED
    BY <2>1 DEF RedisInv, Range, Trade
<1>11. \A x \in Range(redisTrades) \cup lostTrades : x \notin UnpublishedTrades
  <2>1. SUFFICES ASSUME NEW x \in Range(redisTrades) \cup lostTrades, x \in UnpublishedTrades
                 PROVE  FALSE
    OBVIOUS
  <2>2. PICK o \in Order : \E k \in cursor[o] + 1 .. Len(made[o]) : x = made[o][k]
    BY <1>8, <2>1
  <2>9. PICK j \in cursor[o] + 1 .. Len(made[o]) : x = made[o][j]
    BY <2>2
  <2>3. PICK i \in 1 .. cursor[x.taker] : x = made[x.taker][i]
    BY <1>10 DEF First
  <2>4. j \in DOMAIN made[o]
    BY <1>9
  <2>5. x.taker = o
    BY <2>9, <2>4 DEF HeldInv
  <2>6. i \in DOMAIN made[o] /\ i < j
    BY <1>9, <2>3, <2>5
  <2>7. x.id < x.id /\ x.id \in Nat
    BY <2>9, <2>3, <2>4, <2>5, <2>6, MadeTyped DEF HeldInv
  <2>8. QED
    BY <2>7
<1>12. Range(redisTrades) \cap (UnpublishedTrades \cup lostTrades) = {}
  BY <1>11 DEF RedisInv
<1>13. Range(redisTrades) \cup UnpublishedTrades \cup lostTrades = Range(tape)
  <2>1. ASSUME NEW x \in Range(tape)
        PROVE  x \in Range(redisTrades) \cup UnpublishedTrades \cup lostTrades
    <3>1. PICK i \in DOMAIN made[x.taker] : x = made[x.taker][i]
      BY <1>3 DEF Range
    <3>2. x.taker \in Order
      BY <1>3
    <3>3. CASE i <= cursor[x.taker]
      <4>1. x \in First(made[x.taker], cursor[x.taker])
        BY <1>9, <3>1, <3>2, <3>3 DEF First
      <4>2. QED
        BY <3>2, <4>1 DEF RedisInv
    <3>4. CASE ~(i <= cursor[x.taker])
      <4>1. i \in cursor[x.taker] + 1 .. Len(made[x.taker])
        BY <1>9, <3>1, <3>2, <3>4
      <4>2. QED
        BY <1>8, <3>1, <3>2, <4>1
    <3>5. QED
      BY <3>3, <3>4
  <2>2. ASSUME NEW x \in Range(redisTrades) \cup lostTrades PROVE x \in Range(tape)
    <3>1. x.taker \in Order /\ x \in First(made[x.taker], cursor[x.taker])
      BY <1>10
    <3>2. PICK i \in 1 .. cursor[x.taker] : x = made[x.taker][i]
      BY <3>1 DEF First
    <3>3. i \in DOMAIN made[x.taker]
      BY <1>9, <3>1
    <3>4. x \in Range(made[x.taker])
      BY <3>2, <3>3 DEF Range
    <3>5. QED
      BY <1>2, <3>1, <3>4
  <2>3. ASSUME NEW x \in UnpublishedTrades PROVE x \in Range(tape)
    <3>1. PICK o \in Order : \E k \in cursor[o] + 1 .. Len(made[o]) : x = made[o][k]
      BY <1>8, <2>3
    <3>2. PICK j \in cursor[o] + 1 .. Len(made[o]) : x = made[o][j]
      BY <3>1
    <3>3. j \in DOMAIN made[o]
      BY <1>9
    <3>4. x \in Range(made[o])
      BY <3>2, <3>3 DEF Range
    <3>5. QED
      BY <1>2, <3>4
  <2>4. QED
    BY <2>1, <2>2, <2>3
<1>14. QED
  BY <1>1, <1>6, <1>7, <1>12, <1>13 DEF EveryTradeOnce

\* Every trade reaches the streaming clients exactly once, and Redis exactly
\* once unless its publication failed, however handlers interleave.
THEOREM TradesOnce == Spec => []EveryTradeOnce
<1>1. ServerInv => EveryTradeOnce
  BY CountedOnce DEF ServerInv
<1>2. QED
  BY <1>1, ServerInvariance, PTL

\* When no call is under way and no snapshot was lost, the depth the book is
\* left with has been published (GetDepth and publishDepth after every
\* change).
THEOREM CurrentDepthIsOut == Spec => []CurrentDepthPublished
<1>1. ServerInv => CurrentDepthPublished
  <2>1. SUFFICES ASSUME HandlersInv, SnapshotInv, InFlight = {}, lostDepth = {},
                        NEW c \in Call, Acknowledged(c)
                 PROVE  Depth \in Range(redisDepth)
    BY DEF ServerInv, CurrentDepthPublished
  <2>2. \A d \in Call : pc[d] \in {"idle", "answered"}
    BY <2>1 DEF InFlight
  <2>3. ReachedBook(c)
    BY <2>1 DEF ReachedBook
  <2>4. QED
    BY <2>1, <2>2, <2>3 DEF SnapshotInv
<1>2. QED
  BY <1>1, ServerInvariance, PTL

-----------------------------------------------------------------------------
(* What is left and what was sold.                                         *)

\* The quantities of a batch, and its places as finite sets.
LEMMA FillsFinite ==
  ASSUME NEW l \in Seq(Trade)
  PROVE  /\ \A i \in DOMAIN l : Quantities(l)[i] = l[i].quantity /\ l[i].quantity \in Nat
         /\ \A S \in SUBSET DOMAIN l : IsFiniteSet(S)
<1>1. \A i \in DOMAIN l : l[i] \in Trade
  OBVIOUS
<1>2. DOMAIN l = 1 .. Len(l) /\ Len(l) \in Nat
  OBVIOUS
<1>3. IsFiniteSet(1 .. Len(l))
  BY <1>2, FS_Interval
<1>4. QED
  BY <1>1, <1>2, <1>3, FS_Subset DEF Quantities, Trade

\* ProcessOrder keeps SoldInv: the fills of the newcomer and of each maker are
\* what the new trades list.
LEMMA ProcessSold ==
  ASSUME BookInv, SoldInv, NEW o \in Order, NEW r \in Request, Book!Process(o, r)
  PROVE  SoldInv'
<1>1. PICK t : Outcome(o, t)
  BY ProcessOutcome, OrdersAssumption
<1> DEFINE b == Book!TradesOf(o, t)
           n == Len(tape)
<1>2. /\ t \in Booked /\ o \notin DOMAIN ord /\ DOMAIN ord' = DOMAIN ord \cup {o}
      /\ tape' = tape \o b
      /\ ord'[o].original = t.quantity /\ ord'[o].quantity = Book!Remainder(t)
      /\ \A m \in DOMAIN ord :
           /\ ord'[m].original = ord[m].original
           /\ m \notin resting => ord'[m].quantity = ord[m].quantity
           /\ m \in resting => ord'[m].quantity = ord[m].quantity - Book!FillOf(t, m)
  BY <1>1 DEF Outcome
<1>3. /\ b \in Seq(Trade)
      /\ \A i \in DOMAIN b :
           /\ b[i].taker = o /\ b[i].maker \in Taken(t)
           /\ b[i].quantity = Book!FillOf(t, b[i].maker)
      /\ \A i, j \in DOMAIN b : b[i].maker = b[j].maker => i = j
      /\ \A m \in Taken(t) : \E i \in DOMAIN b : b[i].maker = m
  BY <1>2, NewTrades
<1>4. tape \in Seq(Trade)
  BY DEF BookInv
<1> HIDE DEF b
<1>5. /\ tape' \in Seq(Trade) /\ n \in Nat
      /\ \A i \in DOMAIN tape : i \in DOMAIN tape' /\ tape'[i] = tape[i]
      /\ \A i \in DOMAIN b : n + i \in DOMAIN tape' /\ tape'[n + i] = b[i]
      /\ \A k \in DOMAIN tape' : k \in DOMAIN tape \/ \E i \in DOMAIN b : k = n + i
  BY <1>2, <1>3, <1>4, Continues
<1>6. DOMAIN tape = 1 .. n /\ \A i \in DOMAIN b : n + i \notin DOMAIN tape
  <2>1. DOMAIN tape = 1 .. n /\ DOMAIN b \subseteq Nat \ {0}
    BY <1>3, <1>4
  <2>2. QED
    BY <1>5, <2>1
<1> DEFINE q == Quantities(tape)
           z == Quantities(tape')
<1> HIDE DEF n
<1>7. \A m \in Taken(t) : m \in resting /\ m \in DOMAIN ord /\ m # o
  BY <1>2 DEF Taken, BookInv
<1>8. /\ \A i \in DOMAIN tape : q[i] = tape[i].quantity /\ q[i] \in Nat
      /\ \A S \in SUBSET DOMAIN tape : IsFiniteSet(S)
  BY <1>4, FillsFinite
<1>9. /\ \A i \in DOMAIN tape' : z[i] = tape'[i].quantity /\ z[i] \in Nat
      /\ \A S \in SUBSET DOMAIN tape' : IsFiniteSet(S)
  BY <1>5, FillsFinite
<1> HIDE DEF q, z
<1>10. ASSUME NEW x \in DOMAIN ord
       PROVE  /\ SumFunctionOnSet(z, Fills(tape, x)) = SumFunctionOnSet(q, Fills(tape, x))
              /\ SumFunctionOnSet(q, Fills(tape, x)) \in Int
  <2>1. Fills(tape, x) \in SUBSET DOMAIN tape
    BY DEF Fills
  <2>2. \A i \in Fills(tape, x) : z[i] = q[i] /\ q[i] \in Int
    BY <1>5, <1>8, <1>9, <2>1
  <2>3. IsFiniteSet(Fills(tape, x))
    BY <1>8, <2>1
  <2>4. QED
    BY <2>2, <2>3, SumOfSame, SumSplits
<1>11. ASSUME NEW x \in DOMAIN ord
       PROVE  ord'[x].quantity =
                ord'[x].original - SumFunctionOnSet(z, Fills(tape', x))
  <2>1. ord[x].quantity = ord[x].original - SumFunctionOnSet(q, Fills(tape, x))
    BY DEF SoldInv, q
  <2>2. x # o /\ ord'[x].original = ord[x].original /\ ord[x] \in Booked
    BY <1>2 DEF BookInv
  <2>3. ord[x].quantity \in Int /\ ord[x].original \in Int
    BY <2>2 DEF Booked
  <2>4. \A k \in DOMAIN tape' : k \in Fills(tape', x) <=>
          \/ k \in Fills(tape, x)
          \/ \E i \in DOMAIN b : k = n + i /\ b[i].maker = x
    <3>1. SUFFICES ASSUME NEW k \in DOMAIN tape'
                   PROVE  k \in Fills(tape', x) <=>
                            \/ k \in Fills(tape, x)
                            \/ \E i \in DOMAIN b : k = n + i /\ b[i].maker = x
      OBVIOUS
    <3>2. CASE k \in DOMAIN tape
      BY <1>5, <1>6, <3>2 DEF Fills
    <3>3. CASE \E i \in DOMAIN b : k = n + i
      <4>1. PICK i \in DOMAIN b : k = n + i
        BY <3>3
      <4>2. tape'[k] = b[i] /\ k \notin DOMAIN tape
        BY <1>5, <1>6, <4>1
      <4>3. \A j \in DOMAIN b : k = n + j => j = i
        <5>1. \A j \in DOMAIN b : j \in Nat
          BY <1>3
        <5>2. QED
          BY <1>5, <4>1, <5>1
      <4>4. QED
        BY <1>3, <2>2, <4>1, <4>2, <4>3 DEF Fills
    <3>4. QED
      BY <1>5, <3>2, <3>3
  <2>5. CASE x \notin Taken(t)
    <3>1. Fills(tape', x) = Fills(tape, x)
      BY <1>3, <1>5, <2>4, <2>5 DEF Fills
    <3>2. ord'[x].quantity = ord[x].quantity
      <4>1. CASE x \notin resting
        BY <1>2, <4>1
      <4>2. CASE x \in resting
        <5>1. Book!FillOf(t, x) \in Nat /\ ~(Book!FillOf(t, x) > 0)
          BY <1>2, <2>5, <4>2, FillBounds DEF Taken
        <5>2. QED
          BY <1>2, <2>3, <4>2, <5>1
      <4>3. QED
        BY <4>1, <4>2
    <3>3. QED
      BY <1>10, <2>1, <2>2, <3>1, <3>2
  <2>6. CASE x \in Taken(t)
    <3>1. PICK i \in DOMAIN b : b[i].maker = x
      BY <1>3, <2>6
    <3>2. \A j \in DOMAIN b : b[j].maker = x => j = i
      BY <1>3, <3>1
    <3>3. n + i \in DOMAIN tape' /\ tape'[n + i] = b[i] /\ n + i \notin DOMAIN tape
      BY <1>5, <1>6, <3>1
    <3>4. n + i \in Fills(tape', x) /\ Fills(tape', x) \ {n + i} = Fills(tape, x)
      BY <1>5, <2>4, <3>1, <3>2, <3>3 DEF Fills
    <3>5. Fills(tape', x) \in SUBSET DOMAIN tape'
      BY DEF Fills
    <3>6. \A k \in Fills(tape', x) : z[k] \in Int
      BY <1>9, <3>5
    <3>7. SumFunctionOnSet(z, Fills(tape', x)) =
            z[n + i] + SumFunctionOnSet(z, Fills(tape', x) \ {n + i})
      BY <1>9, <3>4, <3>5, <3>6, SumSplits
    <3>8. z[n + i] = Book!FillOf(t, x) /\ z[n + i] \in Nat
      BY <1>3, <1>9, <3>1, <3>3
    <3>9. ord'[x].quantity = ord[x].quantity - Book!FillOf(t, x)
      BY <1>2, <1>7, <2>6
    <3>10. SumFunctionOnSet(z, Fills(tape', x)) =
             Book!FillOf(t, x) + SumFunctionOnSet(q, Fills(tape, x))
      BY <1>10, <3>4, <3>7, <3>8
    <3>11. QED
      BY <1>10, <2>1, <2>2, <2>3, <3>8, <3>9, <3>10
  <2>7. QED
    BY <2>5, <2>6
<1>12. ord'[o].quantity = ord'[o].original - SumFunctionOnSet(z, Fills(tape', o))
  <2> DEFINE N == Fills(tape', o)
             f == [m \in resting |-> Book!FillOf(t, m)]
             h == [k \in N |-> tape'[k].maker]
  <2>1. \A k : k \in N <=> \E i \in DOMAIN b : k = n + i
    <3>1. \A k \in DOMAIN tape : k \notin N
      BY <1>2, <1>5 DEF SoldInv, Fills
    <3>2. QED
      BY <1>3, <1>5, <3>1 DEF Fills
  <2>2. \A k \in N : /\ k \in DOMAIN tape' /\ tape'[k].maker \in Taken(t)
                     /\ z[k] = Book!FillOf(t, tape'[k].maker) /\ z[k] \in Nat
    <3>1. SUFFICES ASSUME NEW k \in N
                   PROVE  /\ k \in DOMAIN tape' /\ tape'[k].maker \in Taken(t)
                          /\ z[k] = Book!FillOf(t, tape'[k].maker) /\ z[k] \in Nat
      OBVIOUS
    <3>2. PICK i \in DOMAIN b : k = n + i
      BY <2>1
    <3>3. k \in DOMAIN tape' /\ tape'[k] = b[i]
      BY <1>5, <3>2
    <3>4. z[k] = tape'[k].quantity /\ z[k] \in Nat
      BY <1>9, <3>3
    <3>5. QED
      BY <1>3, <3>3, <3>4
  <2>3. \A k, l \in N : tape'[k].maker = tape'[l].maker => k = l
    BY <1>3, <1>5, <2>1
  <2>4. \A m \in Taken(t) : \E k \in N : tape'[k].maker = m
    BY <1>3, <1>5, <2>1
  <2>5. IsFiniteSet(N)
    BY <1>9, <2>2
  <2> HIDE DEF N
  <2>6. Renames(h, N, Taken(t))
    BY <2>2, <2>3, <2>4 DEF Renames
  <2>7. \A k \in N : f[h[k]] = z[k] /\ z[k] \in Int
    BY <1>7, <2>2
  <2>8. /\ \A m \in resting : f[m] \in Int
        /\ \A m \in resting \ Taken(t) : f[m] = 0
    <3>1. SUFFICES ASSUME NEW m \in resting
                   PROVE  f[m] \in Int /\ (m \notin Taken(t) => f[m] = 0)
      OBVIOUS
    <3>2. Book!FillOf(t, m) \in Nat
      BY <1>2, FillBounds
    <3>3. QED
      BY <3>2 DEF Taken
  <2>9. Book!Remainder(t) = t.quantity - SumFunctionOnSet(f, resting)
    BY SharedSum DEF Book!Remainder
  <2> HIDE DEF f, h
  <2>10. SumFunctionOnSet(z, N) = SumFunctionOnSet(f, Taken(t))
    BY <2>5, <2>6, <2>7, SumRenamed
  <2>11. SumFunctionOnSet(f, Taken(t)) = SumFunctionOnSet(f, resting)
    <3>1. Taken(t) \in SUBSET resting /\ IsFiniteSet(resting)
      BY <1>7 DEF BookInv
    <3>2. QED
      BY <2>8, <3>1, SumWithoutZeros
  <2>12. QED
    BY <1>2, <2>9, <2>10, <2>11 DEF N
<1>13. \A i \in DOMAIN tape' : {tape'[i].maker, tape'[i].taker} \subseteq DOMAIN ord'
  <2>1. ASSUME NEW i \in DOMAIN tape
        PROVE  {tape'[i].maker, tape'[i].taker} \subseteq DOMAIN ord'
    <3>1. {tape[i].maker, tape[i].taker} \subseteq DOMAIN ord
      BY DEF SoldInv
    <3>2. QED
      BY <1>2, <1>3, <3>1
  <2>2. ASSUME NEW j \in DOMAIN b
        PROVE  {tape'[n + j].maker, tape'[n + j].taker} \subseteq DOMAIN ord'
    <3>1. tape'[n + j] = b[j] /\ b[j].taker = o /\ b[j].maker \in Taken(t)
      BY <1>3, <1>5
    <3>2. QED
      BY <1>2, <1>7, <3>1
  <2>3. QED
    BY <1>5, <2>1, <2>2
<1>14. QED
  BY <1>2, <1>11, <1>12, <1>13 DEF SoldInv, z

\* Only ProcessOrder fills orders.
LEMMA OnlyExecuteFills ==
  ASSUME [Next]_vars
  PROVE  \/ \E o \in Order, r \in Request : Execute(o, r)
         \/ UNCHANGED <<ord, tape, made>>
<1>1. ASSUME NEW o \in Order, Broadcast(o) \/ PublishTrade(o)
      PROVE  UNCHANGED <<ord, tape, made>>
  BY <1>1 DEF Broadcast, PublishTrade, book
<1>2. ASSUME NEW c \in Call, Quietly(c) PROVE UNCHANGED <<ord, tape, made>>
  BY <1>2 DEF Quietly, Reject, Book!Refuse, CancelResting, Book!Cancel, CancelUnknown,
              TakeDepth, PublishDepth, GiveUp, AnswerSubmit, AnswerCancel, book
<1>3. UNCHANGED vars => UNCHANGED <<ord, tape, made>>
  BY DEF vars, book
<1>4. QED
  BY <1>1, <1>2, <1>3, StepKinds

\* Every step keeps SoldInv.
LEMMA SoldKept ==
  ASSUME BookInv, SoldInv, [Next]_vars
  PROVE  SoldInv'
<1>1. ASSUME NEW o \in Order, NEW r \in Request, Execute(o, r) PROVE SoldInv'
  BY <1>1, ProcessSold DEF Execute
<1>2. UNCHANGED <<ord, tape>> => SoldInv'
  BY DEF SoldInv
<1>3. QED
  BY <1>1, <1>2, OnlyExecuteFills

-----------------------------------------------------------------------------
(* What an answer says.                                                    *)

\* Whenever order.Quantity is read, it is between what is left in the end and
\* what was left by the fills the handler lists.
LEMMA ReadsBetween ==
  ASSUME BookInv, HandlersInv, HeldInv, SoldInv, NEW o \in DOMAIN ord,
         NEW q \in QuantityReads(o)
  PROVE  /\ q \in Int /\ ord[o].quantity <= q
         /\ q + Filled(o) <= ord[o].original
<1> DEFINE Q == Quantities(tape)
           all == Fills(tape, o)
           own == {i \in DOMAIN tape : tape[i].taker = o}
           mine(k) == {i \in 1 .. k : o \in {tape[i].maker, tape[i].taker}}
<1>1. PICK n \in 0 .. Len(tape) :
        own \subseteq 1 .. n /\ q = ord[o].original - SumFunctionOnSet(Q, mine(n))
  BY DEF QuantityReads
<1>2. tape \in Seq(Trade) /\ o \in Order
  BY DEF BookInv
<1>3. /\ own \in SUBSET mine(n) /\ mine(n) \in SUBSET all /\ all \in SUBSET DOMAIN tape
      /\ own \in SUBSET DOMAIN tape
  <2>1. n \in Nat /\ n <= Len(tape) /\ DOMAIN tape = 1 .. Len(tape) /\ Len(tape) \in Nat
    BY <1>2
  <2>2. 1 .. n \subseteq DOMAIN tape
    BY <2>1
  <2>3. own \in SUBSET mine(n)
    BY <1>1
  <2>4. mine(n) \in SUBSET all
    BY <2>2 DEF Fills
  <2>5. QED
    BY <2>3, <2>4 DEF Fills
<1>4. /\ \A i \in DOMAIN tape : Q[i] = tape[i].quantity /\ Q[i] \in Nat
      /\ \A S \in SUBSET DOMAIN tape : IsFiniteSet(S)
  BY <1>2, FillsFinite
<1>5. ord[o].quantity = ord[o].original - SumFunctionOnSet(Q, all)
  BY DEF SoldInv
<1>6. ord[o].original \in Nat
  <2>1. ord[o] \in Booked
    BY DEF BookInv
  <2>2. QED
    BY <2>1 DEF Booked
<1>7. SumFunctionOnSet(Quantities(made[o]), DOMAIN made[o]) = SumFunctionOnSet(Q, own)
  <2> DEFINE l == made[o]
             h == [i \in DOMAIN l |-> l[i].id]
  <2>1. l \in Seq(Trade)
    BY <1>2 DEF HandlersInv
  <2>2. /\ \A i \in DOMAIN l : Quantities(l)[i] = l[i].quantity /\ l[i].quantity \in Nat
        /\ IsFiniteSet(DOMAIN l)
    BY <2>1, FillsFinite
  <2>3. \A i \in DOMAIN l : l[i].id \in own /\ tape[l[i].id] = l[i]
    BY <1>2 DEF HeldInv
  <2>4. \A i, j \in DOMAIN l : l[i].id = l[j].id => i = j
    <3>1. \A i \in DOMAIN l : i \in Nat /\ l[i].id \in Nat
      BY <1>2, <2>1, MadeTyped
    <3>2. \A i, j \in DOMAIN l : i < j => l[i].id < l[j].id
      BY <1>2 DEF HeldInv
    <3>3. QED
      BY <3>1, <3>2
  <2>5. \A k \in own : \E i \in DOMAIN l : l[i].id = k
    <3>1. \A k \in own : tape[k] \in Range(l) /\ tape[k].id = k
      BY DEF HeldInv, BookInv
    <3>2. QED
      BY <3>1 DEF Range
  <2> HIDE DEF own, l
  <2>6. Renames(h, DOMAIN l, own)
    BY <2>3, <2>4, <2>5 DEF Renames
  <2>7. \A i \in DOMAIN l : Q[h[i]] = Quantities(l)[i] /\ Quantities(l)[i] \in Int
    BY <1>3, <1>4, <2>2, <2>3
  <2> HIDE DEF h, Q
  <2>8. SumFunctionOnSet(Quantities(l), DOMAIN l) = SumFunctionOnSet(Q, own)
    BY <2>2, <2>6, <2>7, SumRenamed
  <2>9. QED
    BY <2>8 DEF l
<1> DEFINE m == mine(n)
<1> HIDE DEF Q, own, mine, all
<1>8. /\ SumFunctionOnSet(Q, own) \in Nat /\ SumFunctionOnSet(Q, m) \in Nat
      /\ SumFunctionOnSet(Q, all) \in Nat
  <2>1. \A S \in SUBSET DOMAIN tape : IsFiniteSet(S) /\ \A i \in S : Q[i] \in Nat
    BY <1>4
  <2>2. QED
    BY <1>3, <2>1, SumIsNat
<1>9. /\ SumFunctionOnSet(Q, own) <= SumFunctionOnSet(Q, m)
      /\ SumFunctionOnSet(Q, m) <= SumFunctionOnSet(Q, all)
  <2>1. /\ IsFiniteSet(m) /\ IsFiniteSet(all)
        /\ \A i \in m : Q[i] \in Nat
        /\ \A i \in all : Q[i] \in Nat
    BY <1>3, <1>4
  <2>2. QED
    BY <1>3, <2>1, SumOfPart
<1>10. QED
  BY <1>1, <1>5, <1>6, <1>7, <1>8, <1>9 DEF Filled

\* Every step keeps the invariant about the answers.
LEMMA AnswerKept ==
  ASSUME BookInv, HandlersInv, HeldInv, SoldInv, AnswerInv, [Next]_vars
  PROVE  AnswerInv'
<1>1. ASSUME NEW o \in Order, NEW r \in Request, Execute(o, r) PROVE AnswerInv'
  <2>1. /\ Book!Process(o, r) /\ reply' = reply
        /\ o \notin DOMAIN ord /\ DOMAIN ord' = DOMAIN ord \cup {o}
        /\ made' = [made EXCEPT ![o] = made'[o]]
    BY <1>1, ExecuteEffect DEF Execute
  <2>2. PICK t : t = Book!Accepted(r, clock + 1)
    OBVIOUS
  <2>3. t \in Booked
    BY <2>1, <2>2, ProcessEffect, OrdersAssumption
  <2>4. \A p \in DOMAIN ord : /\ ord'[p].original = ord[p].original
                              /\ ord'[p].quantity <= ord[p].quantity
                              /\ ord'[p].quantity \in Int /\ ord[p].quantity \in Int
    <3>1. SUFFICES ASSUME NEW p \in DOMAIN ord
                   PROVE  /\ ord'[p].original = ord[p].original
                          /\ ord'[p].quantity <= ord[p].quantity
                          /\ ord'[p].quantity \in Int /\ ord[p].quantity \in Int
      OBVIOUS
    <3>2. /\ ord'[p] \in Booked /\ ord[p] \in Booked
          /\ ord'[p].original = ord[p].original
          /\ p \notin resting => ord'[p].quantity = ord[p].quantity
          /\ p \in resting => ord'[p].quantity = ord[p].quantity - Book!FillOf(t, p)
      BY <2>1, <2>2, ProcessEffect, OrdersAssumption DEF BookInv
    <3>3. p \in resting => Book!FillOf(t, p) \in Nat
      BY <2>3, FillBounds
    <3>4. ord'[p].quantity \in Int /\ ord[p].quantity \in Int
      BY <3>2 DEF Booked
    <3>5. QED
      BY <3>2, <3>3, <3>4
  <2>5. ASSUME NEW p \in Order, Acknowledged(p)'
        PROVE  /\ p \in DOMAIN ord' /\ reply'[p].remaining \in Int
               /\ ord'[p].quantity <= reply'[p].remaining
               /\ reply'[p].remaining + Filled(p)' <= ord'[p].original
    <3>1. Acknowledged(p)
      BY <2>1, <2>5 DEF Acknowledged
    <3>2. /\ p \in DOMAIN ord /\ reply[p].remaining \in Int
          /\ ord[p].quantity <= reply[p].remaining
          /\ reply[p].remaining + Filled(p) <= ord[p].original
      BY <3>1 DEF AnswerInv
    <3>3. made'[p] = made[p]
      BY <2>1, <3>2 DEF HandlersInv
    <3>4. Filled(p)' = Filled(p)
      BY <3>3 DEF Filled
    <3>5. QED
      BY <2>1, <2>4, <3>2, <3>4
  <2>6. QED
    BY <2>5 DEF AnswerInv
<1>2. ASSUME UNCHANGED <<ord, made>>, NEW c \in Call,
             \A p \in Order : p # c => reply'[p] = reply[p],
             c \in Order /\ Acknowledged(c)' =>
               /\ c \in DOMAIN ord /\ reply'[c].remaining \in Int
               /\ ord[c].quantity <= reply'[c].remaining
               /\ reply'[c].remaining + Filled(c) <= ord[c].original
      PROVE  AnswerInv'
  <2>1. SUFFICES ASSUME NEW p \in Order, Acknowledged(p)'
                 PROVE  /\ p \in DOMAIN ord' /\ reply'[p].remaining \in Int
                        /\ ord'[p].quantity <= reply'[p].remaining
                        /\ reply'[p].remaining + Filled(p)' <= ord'[p].original
    BY DEF AnswerInv
  <2>2. Filled(p)' = Filled(p) /\ ord' = ord
    BY <1>2 DEF Filled
  <2>3. CASE p = c
    BY <1>2, <2>1, <2>2, <2>3
  <2>4. CASE p # c
    <3>1. reply'[p] = reply[p]
      BY <1>2, <2>4
    <3>2. Acknowledged(p)
      BY <2>1, <3>1 DEF Acknowledged
    <3>3. QED
      BY <2>2, <3>1, <3>2 DEF AnswerInv
  <2>5. QED
    BY <2>3, <2>4
<1>3. ASSUME UNCHANGED <<ord, made, reply>> PROVE AnswerInv'
  BY <1>3 DEF AnswerInv, Acknowledged, Filled
<1>4. DOMAIN reply = Call /\ Order \subseteq Call
  BY DEF HandlersInv, Call
<1>5. ASSUME NEW c \in Call, NEW a, reply' = [reply EXCEPT ![c] = a]
      PROVE  reply'[c] = a /\ \A p \in Order : p # c => reply'[p] = reply[p]
  BY <1>4, <1>5
<1>6. ASSUME NEW c \in Call, Quietly(c) PROVE AnswerInv'
  <2>1. ASSUME NEW r \in Request, Reject(c, r) PROVE AnswerInv'
    <3>1. UNCHANGED <<ord, made>> /\ reply' = [reply EXCEPT ![c] = [accepted |-> FALSE]]
      BY <2>1 DEF Reject, Book!Refuse
    <3>2. ~reply'[c].accepted
      <4>1. reply'[c] = [accepted |-> FALSE]
        BY <1>5, <3>1
      <4>2. QED
        BY <4>1
    <3>3. ~Acknowledged(c)'
      BY <3>2 DEF Acknowledged
    <3>4. QED
      BY <1>2, <1>5, <3>1, <3>3
  <2>2. ASSUME c \in Canceller, UNCHANGED <<ord, made>>,
               \E a : reply' = [reply EXCEPT ![c] = a]
        PROVE  AnswerInv'
    <3>1. c \notin Order
      BY <2>2, ServerAssumption
    <3>2. QED
      BY <1>2, <1>5, <2>2, <3>1
  <2>3. ASSUME NEW id \in ID, c \in Canceller, CancelUnknown(c, id) PROVE AnswerInv'
    <3>1. UNCHANGED <<ord, made>> /\ reply' = [reply EXCEPT ![c] = [accepted |-> FALSE]]
      BY <2>3 DEF CancelUnknown, book
    <3>2. QED
      BY <2>2, <2>3, <3>1
  <2>4. ASSUME c \in Canceller, AnswerCancel(c) PROVE AnswerInv'
    <3>1. UNCHANGED <<ord, made>> /\ reply' = [reply EXCEPT ![c] = [accepted |-> TRUE]]
      BY <2>4 DEF AnswerCancel, book
    <3>2. QED
      BY <2>2, <2>4, <3>1
  <2>5. ASSUME \/ \E id \in ID : CancelResting(c, id)
               \/ TakeDepth(c) \/ PublishDepth(c) \/ GiveUp(c)
        PROVE  AnswerInv'
    BY <1>3, <2>5 DEF CancelResting, Book!Cancel, TakeDepth, PublishDepth, GiveUp, book
  <2>6. ASSUME c \in Order, AnswerSubmit(c) PROVE AnswerInv'
    <3>1. PICK q \in QuantityReads(c) :
            reply' = [reply EXCEPT ![c] = [accepted |-> TRUE, remaining |-> q]]
      BY <2>6 DEF AnswerSubmit
    <3>2. UNCHANGED <<ord, made>> /\ c \in DOMAIN ord
      BY <2>6 DEF AnswerSubmit, book, HandlersInv
    <3>3. reply'[c] = [accepted |-> TRUE, remaining |-> q]
      BY <1>5, <3>1
    <3>4. reply'[c].remaining = q
      BY <3>3
    <3>5. /\ q \in Int /\ ord[c].quantity <= q
          /\ q + Filled(c) <= ord[c].original
      BY <3>2, ReadsBetween
    <3>6. \A p \in Order : p # c => reply'[p] = reply[p]
      BY <1>5, <3>1
    <3>7. QED
      BY <1>2, <3>2, <3>4, <3>5, <3>6
  <2>7. QED
    BY <1>6, <2>1, <2>3, <2>4, <2>5, <2>6 DEF Quietly
<1>7. ASSUME NEW o \in Order, Broadcast(o) \/ PublishTrade(o) PROVE AnswerInv'
  BY <1>3, <1>7 DEF Broadcast, PublishTrade, book
<1>8. UNCHANGED vars => AnswerInv'
  BY <1>3 DEF vars, book
<1>9. QED
  BY <1>1, <1>6, <1>7, <1>8, StepKinds

\* However its fields were read, an answer never promises more than was left
\* (the toPB of SubmitOrder, with no lock held).
THEOREM AnswersSound == Spec => []AnswersNeverOverstate
<1> DEFINE Inv == ServerInv /\ SoldInv /\ AnswerInv
<1>1. Init => Inv
  <2>1. SUFFICES ASSUME Init PROVE SoldInv /\ AnswerInv
    BY InitServerInv
  <2>2. ord = Book!EmptyMap /\ tape = <<>> /\ reply = [c \in Call |-> None]
    BY <2>1 DEF Init, Book!Init
  <2>3. SoldInv
    BY <2>2 DEF SoldInv, Book!EmptyMap
  <2>4. AnswerInv
    BY <2>2 DEF AnswerInv, Acknowledged, Call
  <2>5. QED
    BY <2>3, <2>4
<1>2. Inv /\ [Next]_vars => Inv'
  BY StepServerInv, SoldKept, AnswerKept DEF ServerInv
<1>3. Inv => AnswersNeverOverstate
  BY DEF AnswerInv, AnswersNeverOverstate
<1>4. QED
  BY <1>1, <1>2, <1>3, PTL DEF Spec
=============================================================================
