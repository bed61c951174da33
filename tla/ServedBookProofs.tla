--------------------------- MODULE ServedBookProofs ---------------------------
(***************************************************************************)
(* What an AtomicBook keeps, whoever calls it: the lemmas that the proofs  *)
(* about MarketServer and TradingFloor share.                              *)
(***************************************************************************)
EXTENDS ServedBook, DataLemmas, SequenceTheorems

\* OrderRec with nothing said of the sign of what remains.
Booked ==
  [id : ID, side : Side, type : OrderType, price : Int,
   quantity : Int, original : Nat \ {0}, ts : Nat \ {0}]

BookInv ==
  /\ DOMAIN ord \subseteq Order /\ resting \subseteq DOMAIN ord
  /\ IsFiniteSet(resting) /\ clock \in Nat
  /\ \A o \in DOMAIN ord : ord[o] \in Booked /\ ord[o].ts <= clock
  /\ \A o, m \in DOMAIN ord : ord[o].ts = ord[m].ts => o = m
  /\ \A m \in resting : ord[m].quantity > 0 /\ ord[m].price > 0
  /\ tape \in Seq(Trade)
  /\ \A i \in DOMAIN tape : tape[i].id = i

\* The library's operators are the same in the book and here.
LEMMA SharedSum ==
  \A f, S : Book!SumFunctionOnSet(f, S) = SumFunctionOnSet(f, S)
BY DEF SumFunctionOnSet, FoldFunctionOnSet, MapThenFoldSet,
       Book!SumFunctionOnSet, Book!FoldFunctionOnSet, Book!MapThenFoldSet

\* The book's instance lists a set as this module does.
LEMMA SharedListings == \A S : Book!SetToSeqs(S) = SetToSeqs(S)
<1>1. \A S : Book!Cardinality(S) = Cardinality(S)
  BY DEF Cardinality, Book!Cardinality
<1>2. QED
  BY <1>1 DEF SetToSeqs, Book!SetToSeqs

\* An accepted request becomes an order nothing of which is filled.
LEMMA AcceptedBooked ==
  ASSUME BookInv, NEW r \in RawRequest, Book!Valid(r)
  PROVE  LET t == Book!Accepted(r, clock + 1)
         IN /\ t \in Booked /\ t.ts = clock + 1 /\ t.quantity = t.original
            /\ t.type = r.type /\ (r.type = Limit => t.price > 0)
<1>1. clock + 1 \in Nat \ {0}
  BY DEF BookInv
<1>3. /\ r.id \in ID /\ r.side \in Side /\ r.type \in OrderType
      /\ r.price \in Int /\ r.quantity \in Nat \ {0}
      /\ r.type = Limit => r.price > 0
  BY DEF RawRequest, Book!Valid, Book!ValidPrice, Book!Limit, Limit,
              Book!OrderType, OrderType, Book!Side, Side, Book!Market, Market,
              Book!Buy, Buy, Book!Sell, Sell
<1>4. QED
  BY <1>1, <1>3 DEF Book!Accepted, Booked

\* Sums over resting orders are of integers.
LEMMA RemainingIsInt ==
  ASSUME BookInv, NEW S \in SUBSET resting
  PROVE  SumFunctionOnSet(Book!Remaining, S) \in Int
<1>1. IsFiniteSet(S)
  BY FS_Subset DEF BookInv
<1>2. \A m \in S : Book!Remaining[m] \in Int
  <2>1. \A m \in S : m \in DOMAIN ord /\ ord[m] \in Booked
    BY DEF BookInv
  <2>2. QED
    BY <2>1 DEF Book!Remaining, Booked
<1>3. QED
  BY <1>1, <1>2, SumSplits

\* An order takes at most what is left of a resting one.
LEMMA FillBounds ==
  ASSUME BookInv, NEW t \in Booked, NEW m \in resting
  PROVE  /\ Book!FillOf(t, m) \in Nat
         /\ Book!FillOf(t, m) <= ord[m].quantity
         /\ Book!FillOf(t, m) > 0 => Book!Crosses(t, ord[m])
<1> DEFINE left == t.quantity - SumFunctionOnSet(Book!Remaining, Book!Ahead(t, m))
<1>1. left \in Int
  <2>1. Book!Ahead(t, m) \in SUBSET resting
    BY DEF Book!Ahead
  <2>2. SumFunctionOnSet(Book!Remaining, Book!Ahead(t, m)) \in Int
    BY <2>1, RemainingIsInt
  <2>3. t.quantity \in Int
    BY DEF Booked
  <2>4. QED
    BY <2>2, <2>3
<1>2. Book!FillOf(t, m) =
        IF Book!Crosses(t, ord[m]) /\ left > 0
          THEN Book!Lesser(left, ord[m].quantity) ELSE 0
  BY SharedSum DEF Book!FillOf
<1>3. ord[m].quantity \in Int /\ ord[m].quantity > 0
  <2>1. ord[m] \in Booked
    BY DEF BookInv
  <2>2. QED
    BY <2>1 DEF BookInv, Booked
<1> HIDE DEF left
<1>4. QED
  BY <1>1, <1>2, <1>3 DEF Book!Lesser

Taken(t) == {m \in resting : Book!FillOf(t, m) > 0}

\* Price-time priority between resting orders.
Priority == {p \in resting \X resting : Book!Better(ord[p[1]], ord[p[2]])}

\* It arranges those an order may trade with: they are of one side.
LEMMA PriorityArranges ==
  ASSUME BookInv, NEW t \in Booked, NEW S \in SUBSET resting,
         \A x \in S : Book!Crosses(t, ord[x])
  PROVE  /\ Arranges(Priority, S)
         /\ \A x, y \in S : <<x, y>> \in Priority <=> Book!Better(ord[x], ord[y])
<1>1. \A x, y \in S : <<x, y>> \in Priority <=> Book!Better(ord[x], ord[y])
  BY DEF Priority
<1>2. \A x \in S :
        /\ x \in DOMAIN ord /\ ord[x].side = Book!Opposite(t.side)
        /\ ord[x].price \in Int /\ ord[x].ts \in Nat
  BY DEF Book!Crosses, Booked, BookInv
<1>3. \A x, y \in S : ord[x].ts = ord[y].ts => x = y
  BY <1>2 DEF BookInv
<1> DEFINE Above(p, q) == IF Book!Opposite(t.side) = Book!Buy THEN p > q ELSE p < q
<1>4. \A x, y \in S : <<x, y>> \in Priority <=>
        \/ Above(ord[x].price, ord[y].price)
        \/ ord[x].price = ord[y].price /\ ord[x].ts < ord[y].ts
  BY <1>1, <1>2 DEF Book!Better, Book!Precedes
<1>5. \A x \in S : <<x, x>> \notin Priority
  BY <1>2, <1>4
<1>6. \A x, y \in S : x # y => <<x, y>> \in Priority \/ <<y, x>> \in Priority
  BY <1>2, <1>3, <1>4
<1>7. \A x, y, z \in S :
        <<x, y>> \in Priority /\ <<y, z>> \in Priority => <<x, z>> \in Priority
  BY <1>2, <1>4
<1>8. QED
  BY <1>1, <1>5, <1>6, <1>7 DEF Arranges

\* The resting orders an order trades with can be listed by priority.
LEMMA MakersListed ==
  ASSUME BookInv, NEW t \in Booked
  PROVE  Book!Makers(t) \in SetToSeqs(Taken(t))
<1> DEFINE R == Priority
<1>1. \A x \in Taken(t) : Book!Crosses(t, ord[x])
  BY FillBounds DEF Taken
<1>2. Taken(t) \in SUBSET resting
  BY DEF Taken
<1>5. Arranges(R, Taken(t)) /\
      \A x, y \in Taken(t) : <<x, y>> \in R <=> Book!Better(ord[x], ord[y])
  BY <1>1, <1>2, PriorityArranges
<1> HIDE DEF R
<1>6. IsFiniteSet(Taken(t))
  BY FS_Subset DEF BookInv, Taken
<1>7. PICK q : Listed(q, Taken(t), R)
  BY <1>5, <1>6, SortedListing
<1>8. q \in SetToSeqs(Taken(t)) /\ \A i, j \in DOMAIN q : q[i] \in Taken(t)
  BY <1>7 DEF Listed, SetToSeqs
<1>9. \A i, j \in DOMAIN q : i < j => Book!Better(ord[q[i]], ord[q[j]])
  BY <1>5, <1>7, <1>8 DEF Listed
<1> DEFINE Best(l) == \A i, j \in DOMAIN l : i < j => Book!Better(ord[l[i]], ord[l[j]])
<1>10. Book!Makers(t) = CHOOSE l \in SetToSeqs(Taken(t)) : Best(l)
  BY SharedListings DEF Book!Makers, Taken
<1>11. Best(q)
  BY <1>9
<1> HIDE DEF Best
<1>12. QED
  BY <1>8, <1>10, <1>11

\* The trades of an incoming order are numbered on from the tape, and each
\* takes from one resting order.
LEMMA NewTrades ==
  ASSUME BookInv, NEW o \in Order, NEW t \in Booked
  PROVE  LET b == Book!TradesOf(o, t)
         IN /\ b \in Seq(Trade)
            /\ \A i \in DOMAIN b :
                 /\ b[i].id = Len(tape) + i /\ b[i].taker = o
                 /\ b[i].maker \in Taken(t)
                 /\ b[i].quantity = Book!FillOf(t, b[i].maker)
            /\ \A i, j \in DOMAIN b : b[i].maker = b[j].maker => i = j
            /\ \A m \in Taken(t) : \E i \in DOMAIN b : b[i].maker = m
<1> DEFINE n == Cardinality(Taken(t))
           ms == Book!Makers(t)
           b == Book!TradesOf(o, t)
<1>1. IsFiniteSet(Taken(t)) /\ n \in Nat
  BY FS_Subset, FS_CardinalityType DEF BookInv, Taken
<1>2. /\ ms \in [1 .. n -> Taken(t)]
      /\ \A i, j \in 1 .. n : i # j => ms[i] # ms[j]
  BY MakersListed DEF SetToSeqs
<1>3. \A m \in Taken(t) : \E i \in 1 .. n : ms[i] = m
  <2>1. ms \in Injection(1 .. n, Taken(t))
    BY <1>2 DEF Injection, IsInjective
  <2>2. IsFiniteSet(1 .. n) /\ Cardinality(1 .. n) = n
    BY <1>1, FS_Interval
  <2>3. ms \in Surjection(1 .. n, Taken(t))
    BY <1>1, <2>1, <2>2, FS_Injection
  <2>4. QED
    BY <2>3 DEF Surjection
<1>4. b = [i \in 1 .. n |->
             [id |-> Len(tape) + i, maker |-> ms[i], taker |-> o,
              price |-> ord[ms[i]].price, quantity |-> Book!FillOf(t, ms[i])]]
  BY <1>2 DEF Book!TradesOf
<1> HIDE DEF ms, b, n
<1>5. \A m \in Taken(t) :
        /\ m \in Order /\ ord[m].price \in Nat \ {0}
        /\ Book!FillOf(t, m) \in Nat \ {0}
  <2>1. SUFFICES ASSUME NEW m \in Taken(t)
                 PROVE  /\ m \in Order /\ ord[m].price \in Nat \ {0}
                        /\ Book!FillOf(t, m) \in Nat \ {0}
    OBVIOUS
  <2>2. m \in resting /\ Book!FillOf(t, m) > 0
    BY DEF Taken
  <2>3. Book!FillOf(t, m) \in Nat
    BY <2>2, FillBounds
  <2>4. ord[m] \in Booked /\ m \in Order /\ ord[m].price > 0
    BY <2>2 DEF BookInv
  <2>5. ord[m].price \in Int
    BY <2>4 DEF Booked
  <2>6. QED
    BY <2>2, <2>3, <2>4, <2>5
<1>6. tape \in Seq(Trade) /\ Len(tape) \in Nat
  BY DEF BookInv
<1>7. \A i \in 1 .. n : b[i] \in Trade
  <2>1. SUFFICES ASSUME NEW i \in 1 .. n PROVE b[i] \in Trade
    OBVIOUS
  <2>2. ms[i] \in Taken(t)
    BY <1>2
  <2>3. Len(tape) + i \in Nat \ {0}
    BY <1>1, <1>6
  <2>4. QED
    BY <1>4, <1>5, <2>2, <2>3 DEF Trade
<1>8. b \in Seq(Trade) /\ DOMAIN b = 1 .. n
  BY <1>1, <1>4, <1>7
<1>9. \A i \in 1 .. n :
        /\ b[i].id = Len(tape) + i /\ b[i].taker = o
        /\ b[i].maker = ms[i]
        /\ b[i].quantity = Book!FillOf(t, ms[i])
  BY <1>4
<1>10. QED
  BY <1>2, <1>3, <1>8, <1>9 DEF b

\* A list continued is numbered on.
LEMMA Continues ==
  ASSUME NEW S, NEW q \in Seq(S), NEW b \in Seq(S)
  PROVE  /\ q \o b \in Seq(S)
         /\ Len(q \o b) = Len(q) + Len(b) /\ Len(q) \in Nat /\ Len(b) \in Nat
         /\ \A i \in DOMAIN q : i \in DOMAIN (q \o b) /\ (q \o b)[i] = q[i]
         /\ \A i \in DOMAIN b : /\ Len(q) + i \in DOMAIN (q \o b)
                                /\ (q \o b)[Len(q) + i] = b[i]
         /\ \A k \in DOMAIN (q \o b) : \/ k \in DOMAIN q
                                      \/ \E i \in DOMAIN b : k = Len(q) + i
<1>1. Len(q) \in Nat /\ Len(b) \in Nat /\ DOMAIN q = 1 .. Len(q) /\ DOMAIN b = 1 .. Len(b)
  OBVIOUS
<1>2. /\ q \o b \in Seq(S) /\ Len(q \o b) = Len(q) + Len(b)
      /\ \A i \in 1 .. Len(q) + Len(b) :
           (q \o b)[i] = IF i <= Len(q) THEN q[i] ELSE b[i - Len(q)]
  BY ConcatProperties
<1>3. DOMAIN (q \o b) = 1 .. Len(q) + Len(b)
  BY <1>2
<1> DEFINE c == q \o b
<1> HIDE DEF c
<1>4. \A i \in DOMAIN b : c[Len(q) + i] = b[i] /\ Len(q) + i \in DOMAIN c
  <2>1. SUFFICES ASSUME NEW i \in 1 .. Len(b)
                 PROVE  c[Len(q) + i] = b[i] /\ Len(q) + i \in 1 .. Len(q) + Len(b)
    BY <1>1, <1>3 DEF c
  <2>2. Len(q) + i \in 1 .. Len(q) + Len(b) /\ ~(Len(q) + i <= Len(q)) /\ (Len(q) + i) - Len(q) = i
    BY <1>1
  <2>3. QED
    BY <1>2, <2>2 DEF c
<1>5. \A i \in DOMAIN q : c[i] = q[i] /\ i \in DOMAIN c
  BY <1>1, <1>2, <1>3 DEF c
<1>6. \A k \in DOMAIN c : k \in DOMAIN q \/ \E i \in DOMAIN b : k = Len(q) + i
  <2>1. SUFFICES ASSUME NEW k \in 1 .. Len(q) + Len(b), k \notin 1 .. Len(q)
                 PROVE  \E i \in 1 .. Len(b) : k = Len(q) + i
    BY <1>1, <1>3 DEF c
  <2>2. k - Len(q) \in 1 .. Len(b) /\ k = Len(q) + (k - Len(q))
    BY <1>1, <2>1
  <2>3. QED
    BY <2>2
<1>7. QED
  BY <1>1, <1>2, <1>4, <1>5, <1>6 DEF c

\* What is left of an incoming order is a number.
LEMMA RemainderIsInt ==
  ASSUME BookInv, NEW t \in Booked
  PROVE  Book!Remainder(t) \in Int
<1> DEFINE f == [m \in resting |-> Book!FillOf(t, m)]
<1>1. \A m \in resting : f[m] \in Int
  BY FillBounds
<1>2. IsFiniteSet(resting)
  BY DEF BookInv
<1>3. Book!Remainder(t) = t.quantity - SumFunctionOnSet(f, resting)
  BY SharedSum DEF Book!Remainder
<1> HIDE DEF f
<1>4. SumFunctionOnSet(f, resting) \in Int
  BY <1>1, <1>2, SumSplits
<1>5. t.quantity \in Int
  BY DEF Booked
<1>6. QED
  BY <1>3, <1>4, <1>5

\* What matching t, which is given to the struct o, makes of the book.
Outcome(o, t) ==
  /\ t \in Booked /\ o \notin DOMAIN ord /\ DOMAIN ord' = DOMAIN ord \cup {o}
  /\ tape' = tape \o Book!TradesOf(o, t)
  /\ ord'[o] \in Booked /\ ord'[o].original = t.quantity
  /\ ord'[o].quantity = Book!Remainder(t) /\ ord'[o].ts = clock + 1
  /\ ord'[o].id = t.id /\ ord'[o].side = t.side /\ ord'[o].price = t.price
  /\ o \in resting' => ord'[o].quantity > 0 /\ ord'[o].price > 0
  /\ \A m \in DOMAIN ord :
       /\ ord'[m].id = ord[m].id /\ ord'[m].side = ord[m].side
       /\ ord'[m] \in Booked /\ ord'[m].original = ord[m].original
       /\ ord'[m].ts = ord[m].ts /\ ord'[m].price = ord[m].price
       /\ m \notin resting => ord'[m].quantity = ord[m].quantity
       /\ m \in resting =>
            /\ ord'[m].quantity = ord[m].quantity - Book!FillOf(t, m)
            /\ ord'[m].quantity >= 0
       /\ m \in resting' => m \in resting /\ ord'[m].quantity > 0
  /\ resting' \subseteq resting \cup {o}

\* ProcessOrder, field by field.
LEMMA ProcessOutcome ==
  ASSUME BookInv, NEW o \in Order, NEW r \in RawRequest, Book!Process(o, r),
         NEW t, t = Book!Accepted(r, clock + 1)
  PROVE  Outcome(o, t)
<1> DEFINE rest == Book!Remainder(t)
           gone == {m \in resting : Book!FillOf(t, m) = ord[m].quantity}
           filled == [m \in DOMAIN ord |->
                        IF m \in resting
                          THEN [ord[m] EXCEPT !.quantity = @ - Book!FillOf(t, m)]
                          ELSE ord[m]]
           left == [t EXCEPT !.quantity = rest]
<1>1. /\ o \notin DOMAIN ord /\ Book!Valid(r)
      /\ tape' = tape \o Book!TradesOf(o, t)
      /\ resting' = (resting \ gone) \cup
                      (IF rest > 0 /\ r.type = Book!Limit THEN {o} ELSE {})
      /\ ord' = Book!Put(filled, o, left)
  BY DEF Book!Process, Book!IsNew
<1>2. /\ t \in Booked /\ t.ts = clock + 1 /\ t.quantity = t.original
      /\ t.type = r.type /\ (r.type = Limit => t.price > 0)
  BY <1>1, AcceptedBooked
<1>3. rest \in Int
  BY <1>2, RemainderIsInt
<1> HIDE DEF rest
<1>4. /\ left \in Booked /\ left.original = t.quantity /\ left.quantity = rest
      /\ left.ts = clock + 1 /\ left.price = t.price
      /\ left.id = t.id /\ left.side = t.side
  BY <1>2, <1>3 DEF Booked
<1> HIDE DEF left
<1>5. /\ DOMAIN ord' = DOMAIN ord \cup {o} /\ ord'[o] = left
      /\ \A m \in DOMAIN ord : ord'[m] = filled[m]
  <2>1. DOMAIN filled = DOMAIN ord
    OBVIOUS
  <2> HIDE DEF filled
  <2>2. QED
    BY <1>1, <2>1 DEF Book!Put
<1>6. o \in resting' => rest > 0 /\ r.type = Limit
  <2>1. o \notin resting
    BY <1>1 DEF BookInv
  <2>2. Book!Limit = Limit
    BY DEF Book!Limit, Limit
  <2> HIDE DEF gone
  <2>3. QED
    BY <1>1, <2>1, <2>2
<1>7. ASSUME NEW m \in DOMAIN ord
      PROVE  /\ ord'[m].id = ord[m].id /\ ord'[m].side = ord[m].side
             /\ ord'[m] \in Booked /\ ord'[m].original = ord[m].original
             /\ ord'[m].ts = ord[m].ts /\ ord'[m].price = ord[m].price
             /\ m \notin resting => ord'[m].quantity = ord[m].quantity
             /\ m \in resting =>
                  /\ ord'[m].quantity = ord[m].quantity - Book!FillOf(t, m)
                  /\ ord'[m].quantity >= 0
             /\ m \in resting' => m \in resting /\ ord'[m].quantity > 0
  <2>1. ord[m] \in Booked /\ m # o
    BY <1>1 DEF BookInv
  <2>2. CASE m \notin resting
    <3>1. ord'[m] = ord[m]
      BY <1>5, <2>2
    <3>2. m \notin resting'
      <4> HIDE DEF gone
      <4>1. QED
        BY <1>1, <2>1, <2>2
    <3>3. QED
      BY <2>1, <2>2, <3>1, <3>2
  <2>3. CASE m \in resting
    <3>1. ord'[m] = [ord[m] EXCEPT !.quantity = @ - Book!FillOf(t, m)]
      BY <1>5, <2>3
    <3>2. Book!FillOf(t, m) \in Nat /\ Book!FillOf(t, m) <= ord[m].quantity
      BY <1>2, <2>3, FillBounds
    <3>3. m \in resting' => Book!FillOf(t, m) # ord[m].quantity
      BY <1>1, <2>1
    <3>4. /\ ord'[m].id = ord[m].id /\ ord'[m].side = ord[m].side
          /\ ord'[m] \in Booked /\ ord'[m].original = ord[m].original
          /\ ord'[m].ts = ord[m].ts /\ ord'[m].price = ord[m].price
          /\ ord'[m].quantity = ord[m].quantity - Book!FillOf(t, m)
          /\ ord[m].quantity \in Int
      BY <2>1, <3>1, <3>2 DEF Booked
    <3>5. QED
      BY <2>3, <3>2, <3>3, <3>4
  <2>4. QED
    BY <2>2, <2>3
<1>8. resting' \subseteq resting \cup {o}
  <2>1. (resting \ gone) \subseteq resting
    OBVIOUS
  <2> HIDE DEF gone
  <2>2. QED
    BY <1>1, <2>1
<1> HIDE DEF filled, gone
<1>9. ord'[o] \in Booked /\ ord'[o].original = t.quantity /\ ord'[o].ts = clock + 1
      /\ ord'[o].quantity = Book!Remainder(t)
      /\ ord'[o].id = t.id /\ ord'[o].side = t.side /\ ord'[o].price = t.price
  BY <1>4, <1>5 DEF rest
<1>10. o \in resting' => ord'[o].quantity > 0 /\ ord'[o].price > 0
  BY <1>2, <1>4, <1>5, <1>6
<1>11. QED
  BY <1>1, <1>2, <1>5, <1>7, <1>8, <1>9, <1>10 DEF Outcome

\* What one call of ProcessOrder does to the orders and the tape.
LEMMA ProcessEffect ==
  ASSUME BookInv, NEW o \in Order, NEW r \in RawRequest, Book!Process(o, r),
         NEW t, t = Book!Accepted(r, clock + 1)
  PROVE  /\ t \in Booked /\ o \notin DOMAIN ord /\ DOMAIN ord' = DOMAIN ord \cup {o}
         /\ tape' = tape \o Book!TradesOf(o, t)
         /\ ord'[o] \in Booked /\ ord'[o].original = t.quantity
         /\ ord'[o].quantity = Book!Remainder(t) /\ ord'[o].ts = clock + 1
         /\ o \in resting' => ord'[o].quantity > 0 /\ ord'[o].price > 0
         /\ \A m \in DOMAIN ord :
              /\ ord'[m] \in Booked /\ ord'[m].original = ord[m].original
              /\ ord'[m].ts = ord[m].ts /\ ord'[m].price = ord[m].price
              /\ m \notin resting => ord'[m].quantity = ord[m].quantity
              /\ m \in resting =>
                   /\ ord'[m].quantity = ord[m].quantity - Book!FillOf(t, m)
                   /\ ord'[m].quantity >= 0
              /\ m \in resting' => m \in resting /\ ord'[m].quantity > 0
         /\ resting' \subseteq resting \cup {o}
<1>1. Outcome(o, t)
  BY ProcessOutcome
<1>2. QED
  BY <1>1 DEF Outcome

\* ProcessOrder keeps the book's invariant.
LEMMA ProcessBookInv ==
  ASSUME BookInv, NEW o \in Order, NEW r \in RawRequest, Book!Process(o, r)
  PROVE  BookInv'
<1> DEFINE t == Book!Accepted(r, clock + 1)
           b == Book!TradesOf(o, t)
<1>1. PICK u : u = t
  OBVIOUS
<1> HIDE DEF t
<1>2. /\ u \in Booked /\ o \notin DOMAIN ord /\ DOMAIN ord' = DOMAIN ord \cup {o}
      /\ tape' = tape \o Book!TradesOf(o, u)
      /\ ord'[o] \in Booked /\ ord'[o].ts = clock + 1
      /\ o \in resting' => ord'[o].quantity > 0 /\ ord'[o].price > 0
      /\ \A m \in DOMAIN ord :
           /\ ord'[m] \in Booked /\ ord'[m].ts = ord[m].ts
           /\ ord'[m].price = ord[m].price
           /\ m \in resting' => m \in resting /\ ord'[m].quantity > 0
      /\ resting' \subseteq resting \cup {o}
  <2>1. u = Book!Accepted(r, clock + 1)
    BY <1>1 DEF t
  <2>2. Outcome(o, u)
    BY <2>1, ProcessOutcome
  <2>3. QED
    BY <2>2 DEF Outcome
<1>3. clock' = clock + 1 /\ clock \in Nat /\ clock' \in Nat
  BY DEF Book!Process, BookInv
<1>4. DOMAIN ord' \subseteq Order /\ resting' \subseteq DOMAIN ord'
  BY <1>2 DEF BookInv
<1>5. IsFiniteSet(resting')
  <2>1. IsFiniteSet(resting \cup {o})
    BY FS_AddElement DEF BookInv
  <2>2. QED
    BY <1>2, <2>1, FS_Subset
<1>6. \A m \in DOMAIN ord' : ord'[m] \in Booked /\ ord'[m].ts <= clock'
  <2>1. SUFFICES ASSUME NEW m \in DOMAIN ord'
                 PROVE  ord'[m] \in Booked /\ ord'[m].ts <= clock'
    OBVIOUS
  <2>2. CASE m = o
    BY <1>2, <1>3, <2>2
  <2>3. CASE m \in DOMAIN ord
    <3>1. ord[m].ts <= clock /\ ord[m].ts \in Nat
      BY <2>3 DEF BookInv, Booked
    <3>2. ord'[m] \in Booked /\ ord'[m].ts = ord[m].ts
      BY <1>2, <2>3
    <3>3. QED
      BY <1>3, <3>1, <3>2
  <2>4. QED
    BY <1>2, <2>2, <2>3
<1>7. \A m, n \in DOMAIN ord' : ord'[m].ts = ord'[n].ts => m = n
  <2>1. \A m \in DOMAIN ord : ord'[m].ts # clock + 1
    <3>1. \A m \in DOMAIN ord : ord[m].ts <= clock /\ ord[m].ts \in Nat
      BY DEF BookInv, Booked
    <3>2. QED
      BY <1>2, <1>3, <3>1
  <2>2. \A m, n \in DOMAIN ord : ord'[m].ts = ord'[n].ts => m = n
    BY <1>2 DEF BookInv
  <2>3. QED
    BY <1>2, <2>1, <2>2
<1>8. \A m \in resting' : ord'[m].quantity > 0 /\ ord'[m].price > 0
  <2>1. \A m \in resting : ord[m].price > 0 /\ m \in DOMAIN ord
    BY DEF BookInv
  <2>2. QED
    BY <1>2, <2>1
<1>9. /\ tape' \in Seq(Trade)
      /\ \A i \in DOMAIN tape' : tape'[i].id = i
  <2>1. /\ b \in Seq(Trade) /\ \A i \in DOMAIN b : b[i].id = Len(tape) + i
    BY <1>1, <1>2, NewTrades
  <2>2. tape \in Seq(Trade) /\ \A i \in DOMAIN tape : tape[i].id = i
    BY DEF BookInv
  <2>3. tape' = tape \o b
    BY <1>1, <1>2
  <2> HIDE DEF b
  <2>4. QED
    BY <2>1, <2>2, <2>3, Continues
<1>10. QED
  BY <1>3, <1>4, <1>5, <1>6, <1>7, <1>8, <1>9 DEF BookInv

\* An order that leaves anything of a resting order it could trade with is
\* filled: no book is crossed.
LEMMA NothingLeftToCross ==
  ASSUME BookInv, NEW t \in Booked, NEW k \in resting,
         Book!Crosses(t, ord[k]), Book!FillOf(t, k) # ord[k].quantity
  PROVE  Book!Remainder(t) <= 0
<1> DEFINE C == {x \in resting : /\ Book!Crosses(t, ord[x])
                                 /\ Book!FillOf(t, x) # ord[x].quantity}
           f == [x \in resting |-> Book!FillOf(t, x)]
<1>1. /\ IsFiniteSet(C) /\ C # {} /\ C \in SUBSET resting
      /\ \A x \in C : Book!Crosses(t, ord[x])
  BY FS_Subset DEF BookInv
<1>2. /\ Arranges(Priority, C)
      /\ \A x, y \in C : <<x, y>> \in Priority <=> Book!Better(ord[x], ord[y])
  <2> HIDE DEF C
  <2>1. QED
    BY <1>1, PriorityArranges
<1>3. PICK m \in C : \A y \in C \ {m} : <<m, y>> \in Priority
  <2> HIDE DEF C
  <2>1. QED
    BY <1>1, <1>2, FirstElement
<1>4. \A y \in C : ~ Book!Better(ord[y], ord[m])
  <2> HIDE DEF C
  <2>1. QED
    BY <1>2, <1>3 DEF Arranges
<1>5. /\ m \in resting /\ Book!Crosses(t, ord[m])
      /\ Book!FillOf(t, m) # ord[m].quantity
  OBVIOUS
<1> DEFINE A == Book!Ahead(t, m)
<1>6. A \in SUBSET resting /\ m \notin A
  BY <1>3, <1>4 DEF Book!Ahead
<1>7. \A n \in A : f[n] = Book!Remaining[n]
  <2>1. SUFFICES ASSUME NEW n \in A PROVE Book!FillOf(t, n) = ord[n].quantity
    BY <1>6 DEF Book!Remaining, BookInv
  <2>2. n \in resting /\ Book!Crosses(t, ord[n]) /\ Book!Better(ord[n], ord[m])
    BY DEF Book!Ahead
  <2>3. n \notin C
    BY <1>4, <2>2
  <2>4. QED
    BY <2>2, <2>3
<1> HIDE DEF C
<1>8. \A x \in resting : f[x] \in Nat
  BY FillBounds
<1>9. IsFiniteSet(resting) /\ IsFiniteSet(A) /\ A \cup {m} \in SUBSET resting
  BY <1>5, <1>6, FS_Subset DEF BookInv
<1> DEFINE left == t.quantity - SumFunctionOnSet(Book!Remaining, A)
<1>10. Book!FillOf(t, m) =
         IF left > 0 THEN Book!Lesser(left, ord[m].quantity) ELSE 0
  BY <1>5, SharedSum DEF Book!FillOf
<1>11. f[m] = Book!FillOf(t, m)
  BY <1>5
<1>12. Book!Remainder(t) = t.quantity - SumFunctionOnSet(f, resting)
  BY SharedSum DEF Book!Remainder
<1> HIDE DEF A, f
<1>13. SumFunctionOnSet(f, A) = SumFunctionOnSet(Book!Remaining, A)
  BY <1>7, <1>9, SumOfSame
<1>14. /\ SumFunctionOnSet(f, A) \in Int
       /\ SumFunctionOnSet(f, A \cup {m}) = f[m] + SumFunctionOnSet(f, A)
  <2>1. \A x \in A : f[x] \in Int
    BY <1>6, <1>8
  <2>2. f[m] \in Int
    BY <1>5, <1>8
  <2>3. QED
    BY <1>6, <1>9, <2>1, <2>2, SumJoins
<1>15. SumFunctionOnSet(f, A \cup {m}) <= SumFunctionOnSet(f, resting)
  BY <1>8, <1>9, SumOfPart
<1>16. SumFunctionOnSet(f, resting) \in Nat
  BY <1>8, <1>9, SumIsNat
<1>17. t.quantity \in Int /\ f[m] \in Nat /\ ord[m].quantity \in Int
  BY <1>5, <1>8 DEF Booked, BookInv
<1>18. t.quantity <= f[m] + SumFunctionOnSet(f, A)
  BY <1>5, <1>10, <1>11, <1>13, <1>14, <1>17 DEF Book!Lesser
<1>19. QED
  BY <1>12, <1>14, <1>15, <1>16, <1>17, <1>18

\* A step that leaves the book alone keeps its invariant.
LEMMA BookUnchanged ==
  BookInv /\ UNCHANGED <<ord, resting, tape, clock>> => BookInv'
BY DEF BookInv

\* A book orders are taken off keeps its invariant.
LEMMA BookShrunk ==
  ASSUME BookInv, resting' \subseteq resting, UNCHANGED <<ord, tape, clock>>
  PROVE  BookInv'
<1>1. IsFiniteSet(resting')
  BY FS_Subset DEF BookInv
<1>2. QED
  BY <1>1 DEF BookInv

\* CancelOrder takes an order off and keeps the book's invariant.
LEMMA BookCancelled ==
  ASSUME BookInv, NEW m, Book!Cancel(m)
  PROVE  BookInv'
<1>1. resting' \subseteq resting /\ UNCHANGED <<ord, tape, clock>>
  BY DEF Book!Cancel
<1>2. QED
  BY <1>1, BookShrunk

\* An empty book.
LEMMA InitBookInv == Book!Init => BookInv
<1> SUFFICES ASSUME Book!Init PROVE BookInv
  OBVIOUS
<1>1. resting = {} /\ tape = <<>> /\ clock = 0 /\ DOMAIN ord = {}
  BY DEF Book!Init, Book!EmptyMap
<1>2. IsFiniteSet(resting)
  BY <1>1, FS_EmptySet
<1>3. QED
  BY <1>1, <1>2 DEF BookInv
=============================================================================
