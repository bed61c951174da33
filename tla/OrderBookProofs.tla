--------------------------- MODULE OrderBookProofs ---------------------------
(***************************************************************************)
(* Theorems about OrderBook, and the pointers of LinkedLevels under it,    *)
(* for every set of orders, ids and requests, every depth limit and every  *)
(* width of the integers.                                                  *)
(***************************************************************************)
EXTENDS LinkedLevels, DataLemmas, SequenceTheorems

-----------------------------------------------------------------------------
(* What the helpers on price slices and level queues return.               *)

\* A slice lists prices of side s best first, once each.
Sorted(s, ps) ==
  \A i, j \in DOMAIN ps : i < j => Precedes(s, ps[i], ps[j])

\* RemoveAt(q, k) is q without its k-th element.
LEMMA RemoveAtProperties ==
  ASSUME NEW S, NEW q \in Seq(S), NEW k \in 1 .. Len(q)
  PROVE  /\ RemoveAt(q, k) \in Seq(S)
         /\ Len(RemoveAt(q, k)) = Len(q) - 1
         /\ \A i \in 1 .. Len(q) - 1 :
              RemoveAt(q, k)[i] = IF i < k THEN q[i] ELSE q[i + 1]
<1> DEFINE front == SubSeq(q, 1, k - 1)
           back  == SubSeq(q, k + 1, Len(q))
<1>1. /\ front \in Seq(S)
      /\ Len(front) = k - 1
      /\ \A i \in 1 .. k - 1 : front[i] = q[i]
  BY SubSeqProperties
<1>2. /\ back \in Seq(S)
      /\ Len(back) = Len(q) - k
      /\ \A i \in 1 .. Len(q) - k : back[i] = q[k + i]
  BY SubSeqProperties
<1>3. RemoveAt(q, k) = front \o back
  BY DEF RemoveAt
<1>4. Len(q) \in Nat
  BY LenProperties
<1> HIDE DEF front, back
<1>5. /\ front \o back \in Seq(S)
      /\ Len(front \o back) = Len(q) - 1
      /\ \A i \in 1 .. Len(q) - 1 :
           (front \o back)[i] = IF i < k THEN front[i] ELSE back[i - k + 1]
  BY <1>1, <1>2, <1>4, ConcatProperties, SMTT(30)
<1> QED BY <1>1, <1>2, <1>3, <1>4, <1>5

\* InsertAt(q, k, e) is q with e put before its k-th element.
LEMMA InsertAtProperties ==
  ASSUME NEW S, NEW q \in Seq(S), NEW k \in 1 .. Len(q) + 1, NEW e \in S
  PROVE  /\ InsertAt(q, k, e) \in Seq(S)
         /\ Len(InsertAt(q, k, e)) = Len(q) + 1
         /\ \A i \in 1 .. Len(q) + 1 :
              InsertAt(q, k, e)[i] = IF i < k THEN q[i]
                                     ELSE IF i = k THEN e ELSE q[i - 1]
<1> DEFINE front == SubSeq(q, 1, k - 1)
           back  == SubSeq(q, k, Len(q))
<1>1. /\ front \in Seq(S)
      /\ Len(front) = k - 1
      /\ \A i \in 1 .. k - 1 : front[i] = q[i]
  BY SubSeqProperties
<1>2. /\ back \in Seq(S)
      /\ Len(back) = Len(q) - k + 1
      /\ \A i \in 1 .. Len(q) - k + 1 : back[i] = q[k + i - 1]
  BY SubSeqProperties
<1>3. /\ front \o <<e>> \in Seq(S)
      /\ Len(front \o <<e>>) = k
      /\ \A i \in 1 .. k : (front \o <<e>>)[i] = IF i < k THEN q[i] ELSE e
  BY <1>1, ConcatProperties
<1>4. InsertAt(q, k, e) = (front \o <<e>>) \o back
  BY DEF InsertAt
<1> HIDE DEF front, back
<1> QED BY <1>2, <1>3, <1>4, ConcatProperties

\* RemoveFirst(q, o) drops the first occurrence of o.
LEMMA RemoveFirstProperties ==
  ASSUME NEW S, NEW q \in Seq(S), NEW o, NEW n \in 1 .. Len(q), q[n] = o
  PROVE  \E k \in 1 .. Len(q) : q[k] = o /\ RemoveFirst(q, o) = RemoveAt(q, k)
<1> DEFINE I == {i \in 1 .. Len(q) : q[i] = o}
<1>1. \E x \in I : \A y \in I : x <= y
  <2>1. I \subseteq Nat /\ n \in I
    BY LenProperties
  <2> HIDE DEF I
  <2> QED BY <2>1, LeastNat
<1>2. SelectInSeq(q, LAMBDA v : v = o) \in I
  BY <1>1 DEF SelectInSeq, Min
<1>3. RemoveFirst(q, o) = RemoveAt(q, SelectInSeq(q, LAMBDA v : v = o))
  BY DEF RemoveFirst
<1> QED BY <1>2, <1>3

\* sort.Search on a sorted slice: everything before the index precedes p and
\* nothing from it on does.
LEMMA SearchInsertIdxProperties ==
  ASSUME NEW s \in Side, NEW ps \in Seq(PriceRange), NEW p \in PriceRange,
         Sorted(s, ps)
  PROVE  LET i == SearchInsertIdx(s, ps, p)
         IN /\ i \in 1 .. Len(ps) + 1
            /\ \A j \in 1 .. i - 1 : Precedes(s, ps[j], p)
            /\ \A j \in i .. Len(ps) : ~Precedes(s, ps[j], p)
<1> DEFINE T == {i \in 1 .. Len(ps) + 1 : i <= Len(ps) => ~Precedes(s, ps[i], p)}
           OK(i) == /\ \A j \in 1 .. i - 1 : Precedes(s, ps[j], p)
                    /\ i <= Len(ps) => ~Precedes(s, ps[i], p)
<1>1. Len(ps) + 1 \in T
  BY LenProperties
<1>2. PICK x \in T : \A y \in T : x <= y
  <2>1. T \subseteq Nat
    OBVIOUS
  <2> HIDE DEF T
  <2> QED BY <1>1, <2>1, LeastNat
<1>3. OK(x)
  BY <1>2, LenProperties
<1>4. x \in 1 .. Len(ps) + 1
  BY <1>2
<1> DEFINE i == SearchInsertIdx(s, ps, p)
<1>5. i \in 1 .. Len(ps) + 1 /\ OK(i)
  BY <1>3, <1>4 DEF SearchInsertIdx
<1>6. ASSUME NEW j \in i .. Len(ps)
      PROVE  ~Precedes(s, ps[j], p)
  <2>1. ps[i] \in PriceRange /\ ps[j] \in PriceRange
    BY <1>5, <1>6, ElementOfSeq
  <2>2. j = i \/ Precedes(s, ps[i], ps[j])
    BY <1>5, <1>6 DEF Sorted
  <2> HIDE DEF i
  <2> QED BY <1>5, <1>6, <2>1, <2>2 DEF Precedes, PriceRange
<1> QED BY <1>5, <1>6

\* A price new to a sorted slice goes where it keeps it sorted.
LEMMA InsertSortedProperties ==
  ASSUME NEW s \in Side, NEW ps \in Seq(PriceRange), NEW p \in PriceRange,
         Sorted(s, ps), p \notin Range(ps)
  PROVE  /\ InsertSorted(s, ps, p) \in Seq(PriceRange)
         /\ Sorted(s, InsertSorted(s, ps, p))
         /\ Range(InsertSorted(s, ps, p)) = Range(ps) \cup {p}
<1> DEFINE k == SearchInsertIdx(s, ps, p)
           ns == InsertSorted(s, ps, p)
<1>1. /\ k \in 1 .. Len(ps) + 1
      /\ \A j \in 1 .. k - 1 : Precedes(s, ps[j], p)
      /\ \A j \in k .. Len(ps) : ~Precedes(s, ps[j], p)
  BY SearchInsertIdxProperties
<1>2. /\ ns \in Seq(PriceRange)
      /\ Len(ns) = Len(ps) + 1
      /\ \A i \in 1 .. Len(ps) + 1 :
           ns[i] = IF i < k THEN ps[i] ELSE IF i = k THEN p ELSE ps[i - 1]
  <2>1. ns = InsertAt(ps, k, p)
    BY DEF InsertSorted
  <2> HIDE DEF k, ns
  <2>2. k \in 1 .. Len(ps) + 1
    BY <1>1
  <2>3. /\ InsertAt(ps, k, p) \in Seq(PriceRange)
        /\ Len(InsertAt(ps, k, p)) = Len(ps) + 1
        /\ \A i \in 1 .. Len(ps) + 1 :
             InsertAt(ps, k, p)[i] = IF i < k THEN ps[i]
                                     ELSE IF i = k THEN p ELSE ps[i - 1]
    BY <2>2, InsertAtProperties
  <2> QED BY <2>1, <2>3
<1>3. /\ Len(ps) \in Nat
      /\ DOMAIN ps = 1 .. Len(ps)
      /\ DOMAIN ns = 1 .. Len(ps) + 1
      /\ \A i \in 1 .. Len(ps) : ps[i] \in PriceRange /\ ps[i] # p
  BY <1>2, LenProperties, ElementOfSeq DEF Range
<1> HIDE DEF k, ns
<1>s. \A i, j \in 1 .. Len(ps) : i < j => Precedes(s, ps[i], ps[j])
  BY <1>3 DEF Sorted
<1>4. \A j \in k .. Len(ps) : Precedes(s, p, ps[j])
  BY <1>1, <1>3 DEF Precedes, PriceRange
<1>5. Sorted(s, ns)
  <2> SUFFICES ASSUME NEW i \in 1 .. Len(ps) + 1, NEW j \in 1 .. Len(ps) + 1, i < j
               PROVE  Precedes(s, ns[i], ns[j])
    BY <1>3 DEF Sorted
  <2>1. CASE j < k
    <3>1. ns[i] = ps[i] /\ ns[j] = ps[j]
      BY <1>1, <1>2, <2>1
    <3> QED BY <1>1, <1>s, <2>1, <3>1
  <2>2. CASE i < k /\ j = k
    BY <1>1, <1>2, <1>3, <2>2
  <2>3. CASE i = k
    BY <1>1, <1>2, <1>3, <1>4, <2>3
  <2>4. CASE i < k /\ j > k
    <3>1. ns[i] = ps[i] /\ ns[j] = ps[j - 1] /\ i < j - 1
      BY <1>1, <1>2, <2>4
    <3> QED BY <1>1, <1>3, <1>s, <2>4, <3>1
  <2>5. CASE i > k
    <3>1. ns[i] = ps[i - 1] /\ ns[j] = ps[j - 1] /\ i - 1 < j - 1
      BY <1>1, <1>2, <2>5
    <3> QED BY <1>1, <1>3, <1>s, <2>5, <3>1
  <2> QED BY <1>1, <2>1, <2>2, <2>3, <2>4, <2>5
<1>6. Range(ns) = Range(ps) \cup {p}
  <2>1. ASSUME NEW i \in 1 .. Len(ps) + 1
        PROVE  ns[i] \in Range(ps) \cup {p}
    <3>1. CASE i < k
      BY <1>1, <1>2, <1>3, <3>1 DEF Range
    <3>2. CASE i = k
      BY <1>2, <3>2
    <3>3. CASE i > k
      <4>1. ns[i] = ps[i - 1] /\ i - 1 \in DOMAIN ps
        BY <1>1, <1>2, <1>3, <3>3
      <4> QED BY <4>1 DEF Range
    <3> QED BY <1>1, <3>1, <3>2, <3>3
  <2>2. ASSUME NEW j \in 1 .. Len(ps)
        PROVE  ps[j] \in Range(ns)
    <3>1. CASE j < k
      <4>1. ns[j] = ps[j] /\ j \in DOMAIN ns
        BY <1>1, <1>2, <1>3, <3>1
      <4> QED BY <4>1 DEF Range
    <3>2. CASE j >= k
      <4>1. ns[j + 1] = ps[j] /\ j + 1 \in DOMAIN ns
        BY <1>1, <1>2, <1>3, <3>2
      <4> QED BY <4>1 DEF Range
    <3> QED BY <1>1, <3>1, <3>2
  <2>3. p \in Range(ns)
    BY <1>1, <1>2, <1>3 DEF Range
  <2> QED BY <1>3, <2>1, <2>2, <2>3 DEF Range
<1> QED BY <1>2, <1>5, <1>6 DEF ns

\* Taking the k-th price out of a sorted slice.
LEMMA RemoveAtSorted ==
  ASSUME NEW s \in Side, NEW ps \in Seq(PriceRange), Sorted(s, ps),
         NEW k \in 1 .. Len(ps)
  PROVE  /\ RemoveAt(ps, k) \in Seq(PriceRange)
         /\ Sorted(s, RemoveAt(ps, k))
         /\ Range(RemoveAt(ps, k)) = Range(ps) \ {ps[k]}
<1> DEFINE ns == RemoveAt(ps, k)
<1>1. /\ ns \in Seq(PriceRange)
      /\ Len(ns) = Len(ps) - 1
      /\ \A i \in 1 .. Len(ps) - 1 : ns[i] = IF i < k THEN ps[i] ELSE ps[i + 1]
  BY RemoveAtProperties
<1>2. /\ Len(ps) \in Nat
      /\ DOMAIN ps = 1 .. Len(ps)
      /\ DOMAIN ns = 1 .. Len(ps) - 1
      /\ \A i \in 1 .. Len(ps) : ps[i] \in PriceRange
  BY <1>1, LenProperties, ElementOfSeq
<1> HIDE DEF ns
<1>s. \A i, j \in 1 .. Len(ps) : i < j => Precedes(s, ps[i], ps[j])
  BY <1>2 DEF Sorted
<1>3. \A i, j \in 1 .. Len(ps) : ps[i] = ps[j] => i = j
  <2>1. \A p \in PriceRange : ~Precedes(s, p, p)
    BY DEF Precedes, PriceRange
  <2> QED BY <1>2, <1>s, <2>1
<1>4. Sorted(s, ns)
  <2> SUFFICES ASSUME NEW i \in 1 .. Len(ps) - 1, NEW j \in 1 .. Len(ps) - 1, i < j
               PROVE  Precedes(s, ns[i], ns[j])
    BY <1>2 DEF Sorted
  <2>1. CASE j < k
    <3>1. ns[i] = ps[i] /\ ns[j] = ps[j]
      BY <1>1, <2>1
    <3> QED BY <1>2, <1>s, <3>1
  <2>2. CASE i < k /\ j >= k
    <3>1. ns[i] = ps[i] /\ ns[j] = ps[j + 1] /\ i < j + 1 /\ j + 1 \in 1 .. Len(ps)
      BY <1>1, <1>2, <2>2
    <3> QED BY <1>2, <1>s, <3>1
  <2>3. CASE i >= k
    <3>1. /\ ns[i] = ps[i + 1] /\ ns[j] = ps[j + 1]
          /\ i + 1 \in 1 .. Len(ps) /\ j + 1 \in 1 .. Len(ps) /\ i + 1 < j + 1
      BY <1>1, <1>2, <2>3
    <3> QED BY <1>s, <3>1
  <2>4. i < k \/ i >= k
    BY <1>2
  <2>5. j < k \/ j >= k
    BY <1>2
  <2> QED BY <2>1, <2>2, <2>3, <2>4, <2>5
<1>5. ASSUME NEW i \in 1 .. Len(ps) - 1
      PROVE  ns[i] \in Range(ps) \ {ps[k]}
  <2>1. CASE i < k
    <3>1. ns[i] = ps[i] /\ i \in DOMAIN ps /\ i # k
      BY <1>1, <1>2, <2>1
    <3> QED BY <1>2, <1>3, <3>1 DEF Range
  <2>2. CASE i >= k
    <3>1. ns[i] = ps[i + 1] /\ i + 1 \in DOMAIN ps /\ i + 1 # k
      BY <1>1, <1>2, <2>2
    <3> QED BY <1>2, <1>3, <3>1 DEF Range
  <2> QED BY <2>1, <2>2
<1>6. ASSUME NEW j \in 1 .. Len(ps), j # k
      PROVE  ps[j] \in Range(ns)
  <2>1. CASE j < k
    <3>1. ns[j] = ps[j] /\ j \in DOMAIN ns
      BY <1>1, <1>2, <2>1
    <3> QED BY <3>1 DEF Range
  <2>2. CASE j > k
    <3>1. ns[j - 1] = ps[j] /\ j - 1 \in DOMAIN ns
      BY <1>1, <1>2, <2>2
    <3> QED BY <3>1 DEF Range
  <2> QED BY <1>6, <2>1, <2>2
<1>7. Range(ns) = Range(ps) \ {ps[k]}
  BY <1>2, <1>5, <1>6 DEF Range
<1> QED BY <1>1, <1>4, <1>7 DEF ns

\* removeSorted finds the price CancelOrder asks it for.
LEMMA RemoveSortedProperties ==
  ASSUME NEW s \in Side, NEW ps \in Seq(PriceRange), NEW p \in PriceRange,
         Sorted(s, ps), p \in Range(ps)
  PROVE  /\ RemoveSorted(s, ps, p) \in Seq(PriceRange)
         /\ Sorted(s, RemoveSorted(s, ps, p))
         /\ Range(RemoveSorted(s, ps, p)) = Range(ps) \ {p}
<1> DEFINE k == SearchInsertIdx(s, ps, p)
<1>1. /\ k \in 1 .. Len(ps) + 1
      /\ \A j \in 1 .. k - 1 : Precedes(s, ps[j], p)
      /\ \A j \in k .. Len(ps) : ~Precedes(s, ps[j], p)
  BY SearchInsertIdxProperties
<1>2. /\ Len(ps) \in Nat
      /\ DOMAIN ps = 1 .. Len(ps)
      /\ \A i \in 1 .. Len(ps) : ps[i] \in PriceRange
  BY LenProperties, ElementOfSeq
<1>3. PICK n \in 1 .. Len(ps) : ps[n] = p
  BY <1>2 DEF Range
<1>4. RemoveSorted(s, ps, p) = IF k > Len(ps) \/ ps[k] # p THEN ps ELSE RemoveAt(ps, k)
  BY DEF RemoveSorted
<1> HIDE DEF k
<1>5. k \in 1 .. Len(ps) /\ ps[k] = p
  <2>1. ~Precedes(s, p, p)
    BY DEF Precedes, PriceRange
  <2>2. n >= k
    BY <1>1, <1>2, <1>3, <2>1
  <2>3. k \in 1 .. Len(ps) /\ ~Precedes(s, ps[k], p)
    BY <1>1, <1>2, <1>3, <2>2
  <2>4. k = n \/ Precedes(s, ps[k], p)
    BY <1>2, <1>3, <2>2, <2>3 DEF Sorted
  <2> QED BY <1>3, <2>3, <2>4
<1>6. RemoveSorted(s, ps, p) = RemoveAt(ps, k)
  BY <1>2, <1>4, <1>5
<1> QED BY <1>5, <1>6, RemoveAtSorted

\* removeAt(prices, 0), after the best level emptied.
LEMMA TailSorted ==
  ASSUME NEW s \in Side, NEW ps \in Seq(PriceRange), Sorted(s, ps), ps # <<>>
  PROVE  /\ Tail(ps) \in Seq(PriceRange)
         /\ Sorted(s, Tail(ps))
         /\ Range(Tail(ps)) = Range(ps) \ {Head(ps)}
         /\ Head(ps) \in Range(ps)
         /\ \A p \in Range(ps) : p = Head(ps) \/ Precedes(s, Head(ps), p)
<1>1. /\ Len(ps) \in Nat \ {0}
      /\ DOMAIN ps = 1 .. Len(ps)
      /\ Head(ps) = ps[1]
  BY LenProperties, HeadTailProperties, EmptySeq
<1>2. RemoveAt(ps, 1) = Tail(ps)
  <2>1. /\ RemoveAt(ps, 1) \in Seq(PriceRange)
        /\ Len(RemoveAt(ps, 1)) = Len(ps) - 1
        /\ \A i \in 1 .. Len(ps) - 1 : RemoveAt(ps, 1)[i] = ps[i + 1]
    <3>1. 1 \in 1 .. Len(ps)
      BY <1>1
    <3> HIDE DEF PriceRange
    <3>2. \A i \in 1 .. Len(ps) - 1 : ~(i < 1)
      BY <1>1
    <3> QED BY <3>1, <3>2, RemoveAtProperties
  <2>2. /\ Tail(ps) \in Seq(PriceRange)
        /\ Len(Tail(ps)) = Len(ps) - 1
        /\ \A i \in 1 .. Len(ps) - 1 : Tail(ps)[i] = ps[i + 1]
    BY <1>1, HeadTailProperties
  <2> HIDE DEF RemoveAt
  <2> QED BY <1>1, <2>1, <2>2, SeqEqual
<1>3. \A p \in Range(ps) : p = Head(ps) \/ Precedes(s, Head(ps), p)
  BY <1>1 DEF Range, Sorted
<1>4. Head(ps) \in Range(ps)
  BY <1>1 DEF Range
<1>5. 1 \in 1 .. Len(ps)
  BY <1>1
<1>6. /\ RemoveAt(ps, 1) \in Seq(PriceRange)
      /\ Sorted(s, RemoveAt(ps, 1))
      /\ Range(RemoveAt(ps, 1)) = Range(ps) \ {ps[1]}
  BY <1>5, RemoveAtSorted
<1> QED BY <1>1, <1>2, <1>3, <1>4, <1>6

\* What r lists it lists in the order of q.
SameOrder(r, q) ==
  \A i, j \in DOMAIN r :
    i < j => \E k, l \in DOMAIN q : k < l /\ r[i] = q[k] /\ r[j] = q[l]

\* unlink on a queue without repetitions: o leaves, the others keep their order.
LEMMA UnlinkProperties ==
  ASSUME NEW S, NEW q \in Seq(S), NEW n \in 1 .. Len(q), NEW o, q[n] = o,
         \A i, j \in 1 .. Len(q) : q[i] = q[j] => i = j
  PROVE  /\ RemoveFirst(q, o) \in Seq(S)
         /\ Range(RemoveFirst(q, o)) = Range(q) \ {o}
         /\ SameOrder(RemoveFirst(q, o), q)
<1>1. RemoveFirst(q, o) = RemoveAt(q, n)
  BY RemoveFirstProperties
<1> DEFINE r == RemoveAt(q, n)
<1>2. /\ r \in Seq(S)
      /\ Len(r) = Len(q) - 1
      /\ \A i \in 1 .. Len(q) - 1 : r[i] = IF i < n THEN q[i] ELSE q[i + 1]
  BY RemoveAtProperties
<1>3. /\ Len(q) \in Nat
      /\ DOMAIN q = 1 .. Len(q)
      /\ DOMAIN r = 1 .. Len(q) - 1
  BY <1>2, LenProperties
<1> HIDE DEF r
<1> DEFINE at(i) == IF i < n THEN i ELSE i + 1
<1>4. \A i \in DOMAIN r : r[i] = q[at(i)] /\ at(i) \in DOMAIN q \ {n}
  BY <1>2, <1>3
<1>5. \A i, j \in DOMAIN r : i < j => at(i) < at(j)
  BY <1>3
<1>6. ASSUME NEW j \in 1 .. Len(q), j # n
      PROVE  q[j] \in Range(r)
  <2>1. CASE j < n
    <3>1. r[j] = q[j] /\ j \in DOMAIN r
      BY <1>2, <1>3, <2>1
    <3> QED BY <3>1 DEF Range
  <2>2. CASE j > n
    <3>1. r[j - 1] = q[j] /\ j - 1 \in DOMAIN r
      BY <1>2, <1>3, <2>2
    <3> QED BY <3>1 DEF Range
  <2> QED BY <1>6, <2>1, <2>2
<1> HIDE DEF at
<1>7. Range(r) = Range(q) \ {o}
  <2>1. \A i \in DOMAIN r : r[i] \in Range(q) \ {o}
    BY <1>3, <1>4 DEF Range
  <2> QED BY <1>3, <1>6, <2>1 DEF Range
<1>8. SameOrder(r, q)
  BY <1>4, <1>5 DEF SameOrder
<1> QED BY <1>1, <1>2, <1>7, <1>8 DEF r

-----------------------------------------------------------------------------
(* Consequences of the inductive invariant. *)

\* The order at any position of any queue is an accepted one, at its own side
\* and price, alive and indexed.
LEMMA Queued ==
  ASSUME IInv, NEW s \in Side, NEW p \in DOMAIN levels[s],
         NEW i \in DOMAIN Queue(s, p)
  PROVE  LET o == Queue(s, p)[i]
         IN /\ o \in DOMAIN ord
            /\ ord[o].side = s /\ ord[o].price = p /\ ord[o].type = Limit
            /\ ord[o].quantity > 0
            /\ ord[o].id \in DOMAIN orders
            /\ orders[ord[o].id] = o
<1> DEFINE o == Queue(s, p)[i]
<1>1. QueuesHoldLiveOrders
  BY DEF IInv, BookConsistent
<1>2. /\ ord[o].side = s /\ ord[o].price = p /\ ord[o].type = Limit
      /\ ord[o].quantity > 0
      /\ ord[o].id \in DOMAIN orders
      /\ orders[ord[o].id] = o
  BY <1>1 DEF QueuesHoldLiveOrders
<1>3. orders \in [DOMAIN orders -> DOMAIN ord]
  BY DEF IInv, TypeOK
<1> HIDE DEF o
<1>4. o \in DOMAIN ord
  BY <1>2, <1>3
<1> QED BY <1>2, <1>4 DEF o

\* Order o lives on the queue of side s and price p.
Lives(o, s, p, held, index) ==
  /\ held[o].side = s /\ held[o].price = p /\ held[o].type = Limit
  /\ held[o].quantity > 0
  /\ held[o].id \in DOMAIN index
  /\ index[held[o].id] = o

\* What is to be shown of the queues after a step.
LEMMA LivesNext ==
  ASSUME \A t \in Side : \A x \in DOMAIN levels'[t] :
           /\ levels'[t][x].queue # <<>>
           /\ \A i \in DOMAIN levels'[t][x].queue :
                Lives(levels'[t][x].queue[i], t, x, ord', orders')
  PROVE  QueuesHoldLiveOrders'
BY DEF QueuesHoldLiveOrders, Queue, Lives

\* A level has a queue of orders and a volume.
LEMMA LevelShape ==
  ASSUME TypeOK, NEW s \in Side, NEW p \in DOMAIN levels[s]
  PROVE  /\ levels[s][p] \in PriceLevel
         /\ Queue(s, p) \in Seq(Order)
         /\ Len(Queue(s, p)) \in Nat
         /\ DOMAIN Queue(s, p) = 1 .. Len(Queue(s, p))
         /\ levels[s][p].volume \in Int
         /\ p \in PriceRange
<1>1. levels[s][p] \in PriceLevel /\ p \in PriceRange
  BY DEF TypeOK
<1>2. Queue(s, p) \in Seq(Order) /\ levels[s][p].volume \in Int
  BY <1>1 DEF PriceLevel, Queue
<1> QED BY <1>1, <1>2, LenProperties

\* No order is queued twice on a level.
LEMMA QueuedOnce ==
  ASSUME IInv, NEW s \in Side, NEW p \in DOMAIN levels[s],
         NEW i \in DOMAIN Queue(s, p), NEW j \in DOMAIN Queue(s, p),
         Queue(s, p)[i] = Queue(s, p)[j]
  PROVE  i = j
<1>1. i \in Nat /\ j \in Nat
  BY LevelShape DEF IInv
<1>2. ord[Queue(s, p)[i]].ts \in Nat
  BY Queued DEF IInv, TypeOK, OrderRec
<1>3. ~(i < j) /\ ~(j < i)
  BY <1>2 DEF IInv, FifoLevels
<1> QED BY <1>1, <1>3

\* What id indexes has that id and is queued where its side and price say.
Found(id, held, index, maps) ==
  LET n == index[id]
  IN /\ held[n].id = id
     /\ held[n].price \in DOMAIN maps[held[n].side]
     /\ \E i \in DOMAIN maps[held[n].side][held[n].price].queue :
          maps[held[n].side][held[n].price].queue[i] = n

\* What is to be shown of the index after a step.
LEMMA FoundNext ==
  ASSUME \A id \in DOMAIN orders' : Found(id, ord', orders', levels')
  PROVE  IndexedAreQueued'
BY DEF IndexedAreQueued, Queue, Found

\* A resting order is queued where its fields say.
LEMMA Indexed ==
  ASSUME IInv, NEW o \in Resting
  PROVE  /\ o \in DOMAIN ord
         /\ ord[o].side \in Side
         /\ ord[o].price \in DOMAIN levels[ord[o].side]
         /\ ord[o].id \in DOMAIN orders /\ orders[ord[o].id] = o
         /\ \E i \in DOMAIN Queue(ord[o].side, ord[o].price) :
              Queue(ord[o].side, ord[o].price)[i] = o
<1>1. PICK id \in DOMAIN orders : orders[id] = o
  BY DEF Resting, Range
<1>2. o \in DOMAIN ord
  BY <1>1 DEF IInv, TypeOK
<1>3. ord[o].side \in Side
  BY <1>2 DEF IInv, TypeOK, OrderRec
<1> QED BY <1>1, <1>2, <1>3 DEF IInv, BookConsistent, IndexedAreQueued

\* Whatever is queued is resting, and the order being matched is neither.
LEMMA QueuedRests ==
  ASSUME IInv, NEW s \in Side, NEW p \in DOMAIN levels[s],
         NEW i \in DOMAIN Queue(s, p)
  PROVE  Queue(s, p)[i] \in Resting /\ Queue(s, p)[i] # taker
<1>1. Queue(s, p)[i] \in Resting
  BY Queued DEF Resting, Range
<1>2. Queue(s, p)[i] # taker
  BY Queued, OrdersAssumption DEF IInv, StampsOK, TypeOK
<1> QED BY <1>1, <1>2

-----------------------------------------------------------------------------
(* One order leaves the book. *)

\* A wrapped sum is an integer.
LEMMA WrapIsInt == \A n \in Int : Wrap(n) \in Int
BY BookAssumption DEF Wrap

\* The maps, slices and index have the shape their fields have.
BookTyped ==
  /\ DOMAIN levels = Side
  /\ \A s \in Side : /\ DOMAIN levels[s] \subseteq PriceRange
                     /\ levels[s] \in [DOMAIN levels[s] -> PriceLevel]
  /\ prices \in [Side -> Seq(PriceRange)]
  /\ DOMAIN orders \subseteq ID
  /\ orders \in [DOMAIN orders -> DOMAIN ord]

\* A price slice that matches its map is sorted, in the terms of the lemmas.
LEMMA SlicesSorted ==
  ASSUME IInv, NEW s \in Side
  PROVE  prices[s] \in Seq(PriceRange) /\ Sorted(s, prices[s])
BY DEF IInv, TypeOK, BookConsistent, SlicesMatchMaps, Sorted

\* unlink on the level of a resting order: the order goes, the others keep
\* their order.
LEMMA UnlinkLevel ==
  ASSUME IInv, NEW o \in Resting, NEW quantity \in Int
  PROVE  LET q == Queue(ord[o].side, ord[o].price)
             l == Unlink(levels[ord[o].side][ord[o].price], o, quantity)
         IN /\ l \in PriceLevel
            /\ l.queue \in Seq(Order)
            /\ Range(l.queue) = Range(q) \ {o}
            /\ SameOrder(l.queue, q)
<1> DEFINE s == ord[o].side
           p == ord[o].price
           q == Queue(s, p)
           l == Unlink(levels[s][p], o, quantity)
<1>1. s \in Side /\ p \in DOMAIN levels[s] /\ \E i \in DOMAIN q : q[i] = o
  BY Indexed
<1>2. /\ q \in Seq(Order)
      /\ DOMAIN q = 1 .. Len(q)
      /\ levels[s][p].volume \in Int
  BY <1>1, LevelShape DEF IInv
<1>3. \A i, j \in 1 .. Len(q) : q[i] = q[j] => i = j
  BY <1>1, <1>2, QueuedOnce
<1>4. l.queue = RemoveFirst(q, o)
  BY DEF Unlink, Queue
<1>5. l.volume \in Int
  <2>1. l.volume = Wrap(levels[s][p].volume - quantity)
    BY DEF Unlink
  <2>2. levels[s][p].volume - quantity \in Int
    BY <1>2
  <2> QED BY <2>1, <2>2, WrapIsInt
<1>6. l = [queue |-> l.queue, volume |-> l.volume]
  BY DEF Unlink
<1> HIDE DEF s, p, q, l
<1>7. PICK n \in 1 .. Len(q) : q[n] = o
  BY <1>1, <1>2
<1>8. /\ l.queue \in Seq(Order)
      /\ Range(l.queue) = Range(q) \ {o}
      /\ SameOrder(l.queue, q)
  <2>1. /\ RemoveFirst(q, o) \in Seq(Order)
        /\ Range(RemoveFirst(q, o)) = Range(q) \ {o}
        /\ SameOrder(RemoveFirst(q, o), q)
    BY <1>2, <1>3, <1>7, UnlinkProperties
  <2> QED BY <1>4, <2>1
<1>9. l \in PriceLevel
  BY <1>5, <1>6, <1>8 DEF PriceLevel
<1> QED BY <1>8, <1>9 DEF s, p, q, l

\* What TakeOff needs of the price slice that remains if the level empties.
Without(s, p, shorter) ==
  /\ shorter \in Seq(PriceRange)
  /\ Sorted(s, shorter)
  /\ Range(shorter) = Range(prices[s]) \ {p}

\* What TakeOff does to the levels, the slices and the index.
LEMMA TakeOffEffect ==
  ASSUME IInv, NEW o \in Resting, NEW quantity \in Int, NEW shorter,
         Without(ord[o].side, ord[o].price, shorter),
         TakeOff(o, quantity, shorter)
  PROVE  LET s == ord[o].side
             p == ord[o].price
             l == Unlink(levels[s][p], o, quantity)
         IN /\ DOMAIN levels' = Side
            /\ \A t \in Side \ {s} : levels'[t] = levels[t] /\ prices'[t] = prices[t]
            /\ \A x \in DOMAIN levels'[s] \ {p} : levels'[s][x] = levels[s][x]
            /\ DOMAIN levels'[s] = IF l.queue = <<>> THEN DOMAIN levels[s] \ {p}
                                   ELSE DOMAIN levels[s]
            /\ p \in DOMAIN levels'[s] => levels'[s][p] = l
            /\ levels'[s] \in [DOMAIN levels'[s] -> PriceLevel]
            /\ prices' \in [Side -> Seq(PriceRange)]
            /\ Range(prices'[s]) = DOMAIN levels'[s]
            /\ Sorted(s, prices'[s])
            /\ orders' = Delete(orders, ord[o].id)
<1> DEFINE s == ord[o].side
           p == ord[o].price
           l == Unlink(levels[s][p], o, quantity)
<1>1. s \in Side /\ p \in DOMAIN levels[s]
  BY Indexed
<1>2. l \in PriceLevel
  BY UnlinkLevel
<1>3. /\ orders' = Delete(orders, ord[o].id)
      /\ levels' = [levels EXCEPT ![s] = IF l.queue = <<>> THEN Delete(@, p)
                                         ELSE Put(@, p, l)]
      /\ prices' = [prices EXCEPT ![s] = IF l.queue = <<>> THEN shorter ELSE @]
  BY DEF TakeOff
<1>4. /\ DOMAIN levels = Side
      /\ levels[s] \in [DOMAIN levels[s] -> PriceLevel]
      /\ prices \in [Side -> Seq(PriceRange)]
      /\ Range(prices[s]) = DOMAIN levels[s]
      /\ Sorted(s, prices[s])
  BY <1>1, SlicesSorted DEF IInv, TypeOK, BookConsistent, SlicesMatchMaps
<1>5. Without(s, p, shorter)
  OBVIOUS
<1> HIDE DEF s, p, l
<1>6. CASE l.queue = <<>>
  <2>1. levels'[s] = Delete(levels[s], p) /\ prices'[s] = shorter
    BY <1>1, <1>3, <1>4, <1>6
  <2>2. /\ DOMAIN levels'[s] = DOMAIN levels[s] \ {p}
        /\ \A x \in DOMAIN levels'[s] : levels'[s][x] = levels[s][x]
        /\ levels'[s] \in [DOMAIN levels'[s] -> PriceLevel]
    BY <1>4, <2>1 DEF Delete
  <2> QED BY <1>1, <1>3, <1>4, <1>5, <1>6, <2>1, <2>2 DEF Without, s, p, l
<1>7. CASE l.queue # <<>>
  <2>1. levels'[s] = Put(levels[s], p, l) /\ prices'[s] = prices[s]
    BY <1>1, <1>3, <1>4, <1>7
  <2>2. /\ DOMAIN levels'[s] = DOMAIN levels[s]
        /\ \A x \in DOMAIN levels'[s] : levels'[s][x] = IF x = p THEN l ELSE levels[s][x]
        /\ levels'[s] \in [DOMAIN levels'[s] -> PriceLevel]
    BY <1>1, <1>2, <1>4, <2>1 DEF Put
  <2> QED BY <1>1, <1>3, <1>4, <1>5, <1>7, <2>1, <2>2 DEF Without, s, p, l
<1> QED BY <1>6, <1>7

\* After TakeOff every queue is what it was without o, in the same order, and
\* only an emptied level is gone.
LEMMA TakeOffQueues ==
  ASSUME IInv, NEW o \in Resting, NEW quantity \in Int, NEW shorter,
         Without(ord[o].side, ord[o].price, shorter),
         TakeOff(o, quantity, shorter)
  PROVE  /\ \A t \in Side : \A x \in DOMAIN levels'[t] :
              /\ x \in DOMAIN levels[t]
              /\ levels'[t][x].queue \in Seq(Order)
              /\ levels'[t][x].queue # <<>>
              /\ Range(levels'[t][x].queue) = Range(Queue(t, x)) \ {o}
              /\ SameOrder(levels'[t][x].queue, Queue(t, x))
         /\ \A t \in Side : \A x \in DOMAIN levels[t] : \A n \in Range(Queue(t, x)) :
              n # o => x \in DOMAIN levels'[t]
<1> DEFINE s == ord[o].side
           p == ord[o].price
           l == Unlink(levels[s][p], o, quantity)
<1>1. s \in Side /\ p \in DOMAIN levels[s]
  BY Indexed
<1>2. /\ \A t \in Side \ {s} : levels'[t] = levels[t]
      /\ \A x \in DOMAIN levels'[s] \ {p} : levels'[s][x] = levels[s][x]
      /\ DOMAIN levels'[s] = IF l.queue = <<>> THEN DOMAIN levels[s] \ {p}
                             ELSE DOMAIN levels[s]
      /\ p \in DOMAIN levels'[s] => levels'[s][p] = l
  BY TakeOffEffect
<1>3. /\ l.queue \in Seq(Order)
      /\ Range(l.queue) = Range(Queue(s, p)) \ {o}
      /\ SameOrder(l.queue, Queue(s, p))
  BY UnlinkLevel
<1> HIDE DEF l
<1>4. ASSUME NEW t \in Side, NEW x \in DOMAIN levels[t], t # s \/ x # p
      PROVE  /\ Queue(t, x) \in Seq(Order)
             /\ Queue(t, x) # <<>>
             /\ Range(Queue(t, x)) = Range(Queue(t, x)) \ {o}
             /\ SameOrder(Queue(t, x), Queue(t, x))
  <2>1. Queue(t, x) \in Seq(Order)
    BY LevelShape DEF IInv
  <2>2. Queue(t, x) # <<>>
    BY DEF IInv, BookConsistent, QueuesHoldLiveOrders
  <2>3. o \notin Range(Queue(t, x))
    BY <1>4, Queued DEF Range
  <2>4. SameOrder(Queue(t, x), Queue(t, x))
    BY DEF SameOrder
  <2> QED BY <2>1, <2>2, <2>3, <2>4
<1>5. ASSUME NEW t \in Side, NEW x \in DOMAIN levels'[t]
      PROVE  /\ x \in DOMAIN levels[t]
             /\ levels'[t][x].queue \in Seq(Order)
             /\ levels'[t][x].queue # <<>>
             /\ Range(levels'[t][x].queue) = Range(Queue(t, x)) \ {o}
             /\ SameOrder(levels'[t][x].queue, Queue(t, x))
  <2>1. CASE t = s /\ x = p
    BY <1>1, <1>2, <1>3, <1>5, <2>1
  <2>2. CASE t # s \/ x # p
    <3>1. x \in DOMAIN levels[t] /\ levels'[t][x].queue = Queue(t, x)
      BY <1>1, <1>2, <1>5, <2>2 DEF Queue
    <3> QED BY <1>4, <2>2, <3>1
  <2> QED BY <2>1, <2>2
<1>6. ASSUME NEW t \in Side, NEW x \in DOMAIN levels[t], NEW n \in Range(Queue(t, x)),
             n # o
      PROVE  x \in DOMAIN levels'[t]
  <2>1. CASE t = s /\ x = p
    <3>1. n \in Range(l.queue)
      BY <1>3, <1>6, <2>1
    <3>2. l.queue # <<>>
      BY <3>1 DEF Range
    <3> QED BY <1>2, <2>1, <3>2
  <2>2. CASE t # s \/ x # p
    BY <1>1, <1>2, <2>2
  <2> QED BY <2>1, <2>2
<1> QED BY <1>5, <1>6

\* TakeOff, with the fields of o and of the taker set as the caller sets them,
\* keeps the structures consistent, the book uncrossed and the queues in order.
LEMMA TakeOffPreserves ==
  ASSUME IInv, NEW o \in Resting, NEW quantity \in Int, NEW shorter,
         Without(ord[o].side, ord[o].price, shorter),
         TakeOff(o, quantity, shorter),
         DOMAIN ord' = DOMAIN ord,
         \A n \in DOMAIN ord : n # o /\ n # taker => ord'[n] = ord[n]
  PROVE  /\ BookTyped' /\ BookConsistent' /\ Uncrossed' /\ FifoLevels'
         /\ Resting' = Resting \ {o}
<1> DEFINE s == ord[o].side
           p == ord[o].price
<1>1. s \in Side /\ o \in DOMAIN ord /\ ord[o].id \in DOMAIN orders
      /\ orders[ord[o].id] = o
  BY Indexed
<1>2. /\ \A t \in Side \ {s} : levels'[t] = levels[t] /\ prices'[t] = prices[t]
      /\ DOMAIN levels' = Side
      /\ levels'[s] \in [DOMAIN levels'[s] -> PriceLevel]
      /\ prices' \in [Side -> Seq(PriceRange)]
      /\ Range(prices'[s]) = DOMAIN levels'[s]
      /\ Sorted(s, prices'[s])
      /\ orders' = Delete(orders, ord[o].id)
  BY TakeOffEffect
<1>3. /\ \A t \in Side : \A x \in DOMAIN levels'[t] :
           /\ x \in DOMAIN levels[t]
           /\ levels'[t][x].queue \in Seq(Order)
           /\ levels'[t][x].queue # <<>>
           /\ Range(levels'[t][x].queue) = Range(Queue(t, x)) \ {o}
           /\ SameOrder(levels'[t][x].queue, Queue(t, x))
      /\ \A t \in Side : \A x \in DOMAIN levels[t] : \A n \in Range(Queue(t, x)) :
           n # o => x \in DOMAIN levels'[t]
  BY TakeOffQueues
<1> HIDE DEF s, p
<1>4. /\ DOMAIN orders' = DOMAIN orders \ {ord[o].id}
      /\ \A id \in DOMAIN orders' : orders'[id] = orders[id]
      /\ orders' = [id \in DOMAIN orders' |-> orders'[id]]
  BY <1>2 DEF Delete
<1>5. BookTyped'
  <2>1. /\ DOMAIN orders \subseteq ID
        /\ orders \in [DOMAIN orders -> DOMAIN ord]
        /\ \A t \in Side : /\ DOMAIN levels[t] \subseteq PriceRange
                           /\ levels[t] \in [DOMAIN levels[t] -> PriceLevel]
    BY DEF IInv, TypeOK
  <2>2. DOMAIN orders' \subseteq ID /\ orders' \in [DOMAIN orders' -> DOMAIN ord']
    BY <1>4, <2>1
  <2>3. \A t \in Side : /\ DOMAIN levels'[t] \subseteq PriceRange
                        /\ levels'[t] \in [DOMAIN levels'[t] -> PriceLevel]
    BY <1>2, <1>3, <2>1
  <2> QED BY <1>2, <2>2, <2>3 DEF BookTyped
<1>6. \A id1, id2 \in DOMAIN orders : orders[id1] = orders[id2] => id1 = id2
  BY DEF IInv, BookConsistent, IndexedAreQueued
<1>7. Resting' = Resting \ {o}
  BY <1>1, <1>4, <1>6 DEF Resting, Range
<1>8. \A n \in Resting \ {o} : ord'[n] = ord[n]
  BY Indexed, OrdersAssumption DEF IInv, StampsOK, TypeOK
<1>9. SlicesMatchMaps'
  <2>1. \A t \in Side : DOMAIN levels'[t] = Range(prices'[t]) /\ Sorted(t, prices'[t])
    <3>1. \A t \in Side : DOMAIN levels[t] = Range(prices[t]) /\ Sorted(t, prices[t])
      BY SlicesSorted DEF IInv, BookConsistent, SlicesMatchMaps
    <3> QED BY <1>2, <3>1
  <2> QED BY <2>1 DEF SlicesMatchMaps, Sorted
<1>10. ASSUME NEW t \in Side, NEW x \in DOMAIN levels'[t],
              NEW i \in DOMAIN levels'[t][x].queue
       PROVE  LET n == levels'[t][x].queue[i]
              IN /\ n \in Resting \ {o}
                 /\ n \in Range(Queue(t, x))
                 /\ ord'[n] = ord[n]
  <2>1. levels'[t][x].queue[i] \in Range(Queue(t, x)) \ {o}
    <3>1. levels'[t][x].queue[i] \in Range(levels'[t][x].queue)
      BY DEF Range
    <3>2. Range(levels'[t][x].queue) = Range(Queue(t, x)) \ {o}
      BY <1>3
    <3> QED BY <3>1, <3>2
  <2>2. levels'[t][x].queue[i] \in Resting
    BY <1>3, <1>10, <2>1, QueuedRests DEF Range
  <2> QED BY <1>8, <2>1, <2>2
<1>11. QueuesHoldLiveOrders'
  <2> SUFFICES ASSUME NEW t \in Side, NEW x \in DOMAIN levels'[t]
               PROVE  /\ levels'[t][x].queue # <<>>
                      /\ \A i \in DOMAIN levels'[t][x].queue :
                           Lives(levels'[t][x].queue[i], t, x, ord', orders')
    BY LivesNext
  <2>1. ASSUME NEW i \in DOMAIN levels'[t][x].queue
        PROVE  Lives(levels'[t][x].queue[i], t, x, ord', orders')
    <3> DEFINE n == levels'[t][x].queue[i]
    <3>1. /\ n \in Resting \ {o}
          /\ n \in Range(Queue(t, x))
          /\ ord'[n] = ord[n]
      BY <1>10
    <3>2. /\ ord[n].side = t /\ ord[n].price = x /\ ord[n].type = Limit
          /\ ord[n].quantity > 0
          /\ ord[n].id \in DOMAIN orders
          /\ orders[ord[n].id] = n
      <4>1. x \in DOMAIN levels[t]
        BY <1>3
      <4>2. PICK j \in DOMAIN Queue(t, x) : n = Queue(t, x)[j]
        BY <3>1 DEF Range
      <4> HIDE DEF n
      <4>3. QED
        BY <4>1, <4>2, Queued
    <3> HIDE DEF n
    <3>3. ord[n].id # ord[o].id
      BY <1>1, <3>1, <3>2
    <3>4. Lives(n, t, x, ord', orders')
      BY <1>4, <3>1, <3>2, <3>3 DEF Lives
    <3> QED BY <3>4 DEF n
  <2> QED BY <1>3, <2>1
<1>12. IndexedAreQueued'
  <2> SUFFICES ASSUME NEW id \in DOMAIN orders'
               PROVE  Found(id, ord', orders', levels')
    BY FoundNext
  <2> DEFINE n == orders'[id]
             t == ord[n].side
             x == ord[n].price
  <2>1. n \in Resting \ {o} /\ n = orders[id] /\ id \in DOMAIN orders
    BY <1>1, <1>4, <1>6 DEF Resting, Range
  <2>2. ord'[n] = ord[n] /\ ord[n].id = id
    BY <1>8, <2>1 DEF IInv, BookConsistent, IndexedAreQueued
  <2> HIDE DEF n
  <2>3. t \in Side /\ x \in DOMAIN levels[t] /\ n \in Range(Queue(t, x))
    BY <2>1, Indexed DEF Range
  <2>4. x \in DOMAIN levels'[t] /\ n \in Range(levels'[t][x].queue)
    BY <1>3, <2>1, <2>3
  <2>5. PICK i \in DOMAIN levels'[t][x].queue : levels'[t][x].queue[i] = n
    BY <2>4 DEF Range
  <2> QED BY <2>2, <2>4, <2>5 DEF Found, n
<1>13. Uncrossed'
  <2>1. Buy \in Side /\ Sell \in Side
    BY DEF Side
  <2> QED BY <1>3, <2>1 DEF IInv, Uncrossed
<1>14. FifoLevels'
  <2> SUFFICES ASSUME NEW t \in Side, NEW x \in DOMAIN levels'[t],
                      NEW i \in DOMAIN levels'[t][x].queue,
                      NEW j \in DOMAIN levels'[t][x].queue, i < j
               PROVE  ord'[levels'[t][x].queue[i]].ts < ord'[levels'[t][x].queue[j]].ts
    BY DEF FifoLevels, Queue
  <2>1. PICK a, b \in DOMAIN Queue(t, x) :
          /\ a < b
          /\ levels'[t][x].queue[i] = Queue(t, x)[a]
          /\ levels'[t][x].queue[j] = Queue(t, x)[b]
    BY <1>3 DEF SameOrder
  <2>2. x \in DOMAIN levels[t]
    BY <1>3
  <2>3. ord[Queue(t, x)[a]].ts < ord[Queue(t, x)[b]].ts
    BY <2>1, <2>2 DEF IInv, FifoLevels
  <2>4. /\ ord'[levels'[t][x].queue[i]] = ord[Queue(t, x)[a]]
        /\ ord'[levels'[t][x].queue[j]] = ord[Queue(t, x)[b]]
    BY <1>10, <2>1
  <2> QED BY <2>3, <2>4
<1> QED BY <1>5, <1>7, <1>9, <1>11, <1>12, <1>13, <1>14 DEF BookConsistent

-----------------------------------------------------------------------------
(* Steps that leave every queue alone. *)

\* If queues, slices and index stay, and resting orders keep all but a positive
\* quantity, the book stays consistent, uncrossed and in order.
LEMMA QueuesKept ==
  ASSUME IInv,
         DOMAIN levels' = Side,
         \A t \in Side : /\ DOMAIN levels'[t] = DOMAIN levels[t]
                         /\ \A x \in DOMAIN levels[t] :
                              levels'[t][x].queue = levels[t][x].queue,
         prices' = prices, orders' = orders,
         \A n \in Resting : /\ ord'[n].id = ord[n].id
                            /\ ord'[n].side = ord[n].side
                            /\ ord'[n].price = ord[n].price
                            /\ ord'[n].type = ord[n].type
                            /\ ord'[n].ts = ord[n].ts
                            /\ ord'[n].quantity > 0
  PROVE  BookConsistent' /\ Uncrossed' /\ FifoLevels' /\ Resting' = Resting
<1>1. SlicesMatchMaps'
  BY DEF IInv, BookConsistent, SlicesMatchMaps
<1>2. QueuesHoldLiveOrders'
  <2>1. ASSUME NEW t \in Side, NEW x \in DOMAIN levels[t], NEW i \in DOMAIN Queue(t, x)
        PROVE  Lives(Queue(t, x)[i], t, x, ord', orders')
    <3> DEFINE n == Queue(t, x)[i]
    <3>1. n \in Resting
      BY QueuedRests
    <3>2. /\ ord[n].side = t /\ ord[n].price = x /\ ord[n].type = Limit
          /\ ord[n].id \in DOMAIN orders /\ orders[ord[n].id] = n
      BY Queued
    <3> HIDE DEF n
    <3>3. Lives(n, t, x, ord', orders')
      BY <3>1, <3>2 DEF Lives
    <3>4. QED
      BY <3>3 DEF n
  <2>2. ASSUME NEW t \in Side, NEW x \in DOMAIN levels'[t]
        PROVE  x \in DOMAIN levels[t] /\ levels'[t][x].queue = Queue(t, x)
    BY <2>2 DEF Queue
  <2>3. \A t \in Side : \A x \in DOMAIN levels[t] : Queue(t, x) # <<>>
    BY DEF IInv, BookConsistent, QueuesHoldLiveOrders
  <2>4. ASSUME NEW t \in Side, NEW x \in DOMAIN levels'[t]
        PROVE  /\ levels'[t][x].queue # <<>>
               /\ \A i \in DOMAIN levels'[t][x].queue :
                    Lives(levels'[t][x].queue[i], t, x, ord', orders')
    BY <2>1, <2>2, <2>3
  <2>5. QED
    BY <2>4, LivesNext
<1>3. IndexedAreQueued'
  <2> SUFFICES ASSUME NEW id \in DOMAIN orders
               PROVE  Found(id, ord', orders', levels')
    BY FoundNext
  <2> DEFINE n == orders[id]
  <2>1. n \in Resting
    BY DEF Resting, Range
  <2>2. ord[n].id = id
    BY DEF IInv, BookConsistent, IndexedAreQueued
  <2>3. orders'[id] = n
    OBVIOUS
  <2> HIDE DEF n
  <2>4. /\ ord[n].side \in Side /\ ord[n].price \in DOMAIN levels[ord[n].side]
        /\ \E i \in DOMAIN Queue(ord[n].side, ord[n].price) :
             Queue(ord[n].side, ord[n].price)[i] = n
    BY <2>1, Indexed
  <2>5. ord'[n].id = ord[n].id /\ ord'[n].side = ord[n].side /\ ord'[n].price = ord[n].price
    BY <2>1
  <2>6. /\ ord[n].price \in DOMAIN levels'[ord[n].side]
        /\ levels'[ord[n].side][ord[n].price].queue = Queue(ord[n].side, ord[n].price)
    BY <2>4 DEF Queue
  <2> QED BY <2>2, <2>3, <2>4, <2>5, <2>6 DEF Found
<1>4. Uncrossed'
  <2>1. Buy \in Side /\ Sell \in Side
    BY DEF Side
  <2> QED BY <2>1 DEF IInv, Uncrossed
<1>5. FifoLevels'
  <2> SUFFICES ASSUME NEW t \in Side, NEW x \in DOMAIN levels[t],
                      NEW i \in DOMAIN Queue(t, x), NEW j \in DOMAIN Queue(t, x), i < j
               PROVE  ord'[Queue(t, x)[i]].ts < ord'[Queue(t, x)[j]].ts
    BY DEF FifoLevels, Queue
  <2>1. ord[Queue(t, x)[i]].ts < ord[Queue(t, x)[j]].ts
    BY DEF IInv, FifoLevels
  <2> QED BY <2>1, QueuedRests
<1> QED BY <1>1, <1>2, <1>3, <1>4, <1>5 DEF BookConsistent, Resting

-----------------------------------------------------------------------------
(* The invariant holds initially and every step preserves it. *)

\* The empty book.
LEMMA InitIInv == Init => IInv
<1> SUFFICES ASSUME Init PROVE IInv
  OBVIOUS
<1>1. DOMAIN EmptyMap = {}
  BY DEF EmptyMap
<1>2. \A s \in Side : DOMAIN levels[s] = {} /\ prices[s] = <<>>
  BY <1>1 DEF Init
<1>3. TypeOK
  <2>1. \A S : EmptyMap \in [DOMAIN EmptyMap -> S]
    BY DEF EmptyMap
  <2>2. prices \in [Side -> Seq(PriceRange)] /\ tape \in Seq(Trade)
    BY DEF Init
  <2> QED BY <1>1, <2>1, <2>2 DEF Init, TypeOK
<1>4. SlicesMatchMaps
  BY <1>2 DEF SlicesMatchMaps, Range
<1>5. QueuesHoldLiveOrders /\ IndexedAreQueued /\ FifoLevels
  BY <1>1, <1>2 DEF Init, QueuesHoldLiveOrders, IndexedAreQueued, FifoLevels
<1>6. Uncrossed
  BY <1>2 DEF Uncrossed, Side
<1>7. StampsOK
  BY <1>1 DEF Init, StampsOK
<1> QED BY <1>3, <1>4, <1>5, <1>6, <1>7 DEF IInv, BookConsistent

\* A refused order changes none of the structures.
LEMMA RefuseIInv ==
  ASSUME IInv, NEW o \in Order, NEW r \in Request, Refuse(o, r)
  PROVE  IInv'
<1>1. TypeOK'
  BY DEF IInv, TypeOK, Refuse
<1>2. StampsOK'
  BY DEF IInv, StampsOK, Refuse, IsNew
<1>3. /\ ord' = ord /\ levels' = levels /\ prices' = prices /\ orders' = orders
      /\ BookConsistent /\ Uncrossed /\ FifoLevels
  BY DEF IInv, Refuse
<1>4. SlicesMatchMaps'
  BY <1>3 DEF BookConsistent, SlicesMatchMaps
<1>5. \A s, p : Queue(s, p)' = Queue(s, p)
  BY <1>3 DEF Queue
<1>6. QueuesHoldLiveOrders'
  BY <1>3, <1>5 DEF BookConsistent, QueuesHoldLiveOrders
<1>7. IndexedAreQueued'
  BY <1>3, <1>5 DEF BookConsistent, IndexedAreQueued
<1>8. Uncrossed' /\ FifoLevels'
  BY <1>3, <1>5 DEF Uncrossed, FifoLevels
<1> QED BY <1>1, <1>2, <1>4, <1>6, <1>7, <1>8 DEF IInv, BookConsistent

\* An accepted request makes a well-formed order.
LEMMA AcceptedIsOrder ==
  ASSUME NEW r \in Request, Valid(r), NEW now \in Nat \ {0}
  PROVE  /\ Accepted(r, now) \in OrderRec
         /\ ValidPrice(Accepted(r, now))
         /\ Accepted(r, now).ts = now
         /\ Accepted(r, now).id = r.id
<1>1. r \in RawRequest
  BY OrdersAssumption
<1>2. /\ r.id \in ID /\ r.side \in Side /\ r.type \in OrderType
      /\ r.price \in Int /\ r.quantity \in Nat \ {0}
  BY <1>1 DEF RawRequest, Valid
<1> QED BY <1>2 DEF Accepted, OrderRec, Valid, ValidPrice

\* An accepted order is stamped, and on no structure yet.
LEMMA AcceptIInv ==
  ASSUME IInv, NEW o \in Order, NEW r \in Request, Accept(o, r)
  PROVE  IInv'
<1>1. /\ o \notin DOMAIN ord /\ o \notin refused
      /\ Valid(r) /\ taker = None /\ r.id \notin DOMAIN orders
      /\ clock' = clock + 1 /\ taker' = o
      /\ ord' = Put(ord, o, Accepted(r, clock + 1))
      /\ levels' = levels /\ prices' = prices /\ orders' = orders
      /\ refused' = refused /\ tape' = tape
  BY DEF Accept, IsNew
<1>2. clock \in Nat
  BY DEF IInv, TypeOK
<1> DEFINE t == Accepted(r, clock + 1)
<1>3. t \in OrderRec /\ ValidPrice(t) /\ t.ts = clock + 1 /\ t.id = r.id
  BY <1>1, <1>2, AcceptedIsOrder
<1> HIDE DEF t
<1>4. /\ DOMAIN ord' = DOMAIN ord \cup {o}
      /\ \A n \in DOMAIN ord : ord'[n] = ord[n]
      /\ ord'[o] = t
      /\ ord' \in [DOMAIN ord' -> OrderRec]
  <2>1. ord \in [DOMAIN ord -> OrderRec]
    BY DEF IInv, TypeOK
  <2> QED BY <1>1, <1>3, <2>1 DEF Put, t
<1>5. TypeOK'
  <2>1. orders' \in [DOMAIN orders' -> DOMAIN ord']
    BY <1>1, <1>4 DEF IInv, TypeOK
  <2> QED BY <1>1, <1>2, <1>4, <2>1 DEF IInv, TypeOK
<1>6. StampsOK'
  <2>1. \A n \in DOMAIN ord' : ord'[n].ts <= clock' /\ ValidPrice(ord'[n])
    <3>1. \A n \in DOMAIN ord : ord[n].ts <= clock /\ ValidPrice(ord[n]) /\ ord[n].ts \in Nat
      BY DEF IInv, StampsOK, TypeOK, OrderRec
    <3> QED BY <1>1, <1>2, <1>3, <1>4, <3>1
  <2>2. \A n, m \in DOMAIN ord' : ord'[n].ts = ord'[m].ts => n = m
    <3>1. \A n \in DOMAIN ord : ord[n].ts # clock + 1
      BY <1>2 DEF IInv, StampsOK, TypeOK, OrderRec
    <3> QED BY <1>3, <1>4, <3>1 DEF IInv, StampsOK
  <2>3. DOMAIN ord' \cap refused' = {}
    BY <1>1, <1>4 DEF IInv, StampsOK
  <2>4. ord'[taker'].ts = clock' /\ ord'[taker'].id \notin DOMAIN orders'
    BY <1>1, <1>3, <1>4
  <2> QED BY <2>1, <2>2, <2>3, <2>4 DEF StampsOK
<1>7. BookConsistent' /\ Uncrossed' /\ FifoLevels'
  <2>1. \A n \in Resting : ord'[n] = ord[n] /\ ord[n].quantity > 0
    BY <1>4, Indexed, Queued
  <2>2. DOMAIN levels = Side
    BY DEF IInv, TypeOK
  <2> QED BY <1>1, <2>1, <2>2, QueuesKept
<1> QED BY <1>5, <1>6, <1>7 DEF IInv

\* Nothing changes.
LEMMA StutterIInv ==
  ASSUME IInv, UNCHANGED vars
  PROVE  IInv'
<1>1. TypeOK'
  BY DEF IInv, TypeOK, vars
<1>2. StampsOK'
  BY DEF IInv, StampsOK, vars
<1>3. /\ ord' = ord /\ levels' = levels /\ prices' = prices /\ orders' = orders
      /\ BookConsistent /\ Uncrossed /\ FifoLevels
  BY DEF IInv, vars
<1>4. SlicesMatchMaps'
  BY <1>3 DEF BookConsistent, SlicesMatchMaps
<1>5. \A s, p : Queue(s, p)' = Queue(s, p)
  BY <1>3 DEF Queue
<1>6. QueuesHoldLiveOrders'
  BY <1>3, <1>5 DEF BookConsistent, QueuesHoldLiveOrders
<1>7. IndexedAreQueued'
  BY <1>3, <1>5 DEF BookConsistent, IndexedAreQueued
<1>8. Uncrossed' /\ FifoLevels'
  BY <1>3, <1>5 DEF Uncrossed, FifoLevels
<1> QED BY <1>1, <1>2, <1>4, <1>6, <1>7, <1>8 DEF IInv, BookConsistent

\* What a cancel leaves of the price slice if the level empties.
LEMMA CancelledSlice ==
  ASSUME IInv, NEW o \in Resting
  PROVE  Without(ord[o].side, ord[o].price,
                 RemoveSorted(ord[o].side, prices[ord[o].side], ord[o].price))
<1> DEFINE s == ord[o].side
           p == ord[o].price
<1>1. s \in Side /\ p \in DOMAIN levels[s]
  BY Indexed
<1>2. /\ prices[s] \in Seq(PriceRange) /\ Sorted(s, prices[s])
      /\ p \in PriceRange /\ p \in Range(prices[s])
  BY <1>1, SlicesSorted, LevelShape DEF IInv, BookConsistent, SlicesMatchMaps
<1> HIDE DEF s, p
<1>3. Without(s, p, RemoveSorted(s, prices[s], p))
  BY <1>1, <1>2, RemoveSortedProperties DEF Without
<1>4. QED
  BY <1>3 DEF s, p

\* A cancel, of a resting order or of none.
LEMMA CancelIInv ==
  ASSUME IInv, NEW id \in ID, CancelOrder(id)
  PROVE  IInv'
<1>1. CASE id \notin DOMAIN orders
  <2>1. UNCHANGED vars
    BY <1>1 DEF CancelOrder
  <2> QED BY <2>1, StutterIInv
<1>2. CASE id \in DOMAIN orders
  <2> DEFINE o == orders[id]
             s == ord[o].side
             p == ord[o].price
             shorter == RemoveSorted(s, prices[s], p)
  <2>1. /\ TakeOff(o, ord[o].quantity, shorter)
        /\ UNCHANGED <<ord, refused, taker, tape, clock>>
    BY <1>2 DEF CancelOrder
  <2>2. o \in Resting
    BY <1>2 DEF Resting, Range
  <2>3. o \in DOMAIN ord /\ s \in Side /\ p \in DOMAIN levels[s]
    BY <2>2, Indexed
  <2>4. ord[o].quantity \in Int
    BY <2>3 DEF IInv, TypeOK, OrderRec
  <2>5. Without(s, p, shorter)
    BY <2>2, CancelledSlice
  <2> HIDE DEF o, s, p, shorter
  <2>6. BookTyped' /\ BookConsistent' /\ Uncrossed' /\ FifoLevels'
    BY <2>1, <2>2, <2>4, <2>5, TakeOffPreserves DEF s, p
  <2>7. Resting' = Resting \ {o}
    BY <2>1, <2>2, <2>4, <2>5, TakeOffPreserves DEF s, p
  <2>8. TypeOK'
    BY <2>1, <2>6 DEF IInv, TypeOK, BookTyped
  <2>9. StampsOK'
    <3>1. taker = None
      BY DEF CancelOrder
    <3> QED BY <2>1, <3>1 DEF IInv, StampsOK
  <2> QED BY <2>6, <2>8, <2>9 DEF IInv
<1> QED BY <1>1, <1>2

\* The maker of a fill: the head of the queue of the first price of the other
\* side is a resting order, not the taker, at that side and price.
LEMMA BestMaker ==
  ASSUME IInv, taker # None, CanMatch
  PROVE  LET s == Opposite(ord[taker].side)
             p == Head(prices[s])
             m == Head(levels[s][p].queue)
         IN /\ taker \in DOMAIN ord /\ ord[taker] \in OrderRec
            /\ ord[taker].quantity > 0
            /\ s \in Side
            /\ prices[s] # <<>>
            /\ p \in DOMAIN levels[s]
            /\ 1 \in DOMAIN Queue(s, p) /\ m = Queue(s, p)[1]
            /\ m \in Resting /\ m # taker /\ m \in DOMAIN ord
            /\ ord[m] \in OrderRec /\ ord[m].quantity > 0
            /\ ord[m].side = s /\ ord[m].price = p /\ ord[m].type = Limit
<1> DEFINE s == Opposite(ord[taker].side)
           p == Head(prices[s])
           m == Head(levels[s][p].queue)
<1>1. taker \in DOMAIN ord /\ ord \in [DOMAIN ord -> OrderRec]
  BY DEF IInv, TypeOK
<1>2. s \in Side
  BY <1>1 DEF OrderRec, Opposite, Side
<1>3. ord[taker].quantity > 0 /\ prices[s] # <<>>
  BY DEF CanMatch
<1>4. p \in DOMAIN levels[s]
  BY <1>2, <1>3, TailSorted, SlicesSorted DEF IInv, BookConsistent, SlicesMatchMaps
<1> HIDE DEF s, p
<1>5. /\ Queue(s, p) \in Seq(Order) /\ Queue(s, p) # <<>>
      /\ DOMAIN Queue(s, p) = 1 .. Len(Queue(s, p))
  BY <1>2, <1>4, LevelShape DEF IInv, BookConsistent, QueuesHoldLiveOrders
<1>6. 1 \in DOMAIN Queue(s, p) /\ m = Queue(s, p)[1]
  <2>1. Len(Queue(s, p)) \in Nat /\ Len(Queue(s, p)) # 0
    BY <1>5, LenProperties, EmptySeq
  <2>2. Head(Queue(s, p)) = Queue(s, p)[1]
    BY <1>5, HeadTailProperties
  <2> QED BY <1>5, <2>1, <2>2 DEF Queue
<1> HIDE DEF m
<1>7. m \in Resting /\ m # taker
  BY <1>2, <1>4, <1>6, QueuedRests
<1>8. /\ m \in DOMAIN ord /\ ord[m].quantity > 0
      /\ ord[m].side = s /\ ord[m].price = p /\ ord[m].type = Limit
  BY <1>2, <1>4, <1>6, Queued
<1> QED BY <1>1, <1>2, <1>3, <1>4, <1>6, <1>7, <1>8 DEF s, p, m

\* What a fill does to the orders, whatever becomes of the maker's level.
LEMMA FillOrders ==
  ASSUME IInv, Fill
  PROVE  LET s == Opposite(ord[taker].side)
             p == Head(prices[s])
             m == Head(levels[s][p].queue)
             q == Lesser(ord[taker].quantity, ord[m].quantity)
         IN /\ taker # None /\ CanMatch
            /\ q \in Nat \ {0} /\ q <= ord[taker].quantity /\ q <= ord[m].quantity
            /\ DOMAIN ord' = DOMAIN ord
            /\ ord' \in [DOMAIN ord -> OrderRec]
            /\ \A n \in DOMAIN ord \ {taker, m} : ord'[n] = ord[n]
            /\ ord'[m] = [ord[m] EXCEPT !.quantity = @ - q]
            /\ ord'[taker] = [ord[taker] EXCEPT !.quantity = @ - q]
            /\ tape' = Append(tape, NewTrade(m, p, q))
            /\ refused' = refused /\ taker' = taker /\ clock' = clock
            /\ tape' \in Seq(Trade)
<1> DEFINE s == Opposite(ord[taker].side)
           p == Head(prices[s])
           m == Head(levels[s][p].queue)
           q == Lesser(ord[taker].quantity, ord[m].quantity)
<1>1. /\ taker # None /\ CanMatch
      /\ ord' = [ord EXCEPT ![taker].quantity = @ - q, ![m].quantity = @ - q]
      /\ tape' = Append(tape, NewTrade(m, p, q))
      /\ refused' = refused /\ taker' = taker /\ clock' = clock
  BY DEF Fill
<1>2. /\ taker \in DOMAIN ord /\ ord[taker] \in OrderRec /\ ord[taker].quantity > 0
      /\ m # taker /\ m \in DOMAIN ord /\ ord[m] \in OrderRec /\ ord[m].quantity > 0
      /\ s \in Side /\ p \in DOMAIN levels[s]
  BY <1>1, BestMaker
<1>3. /\ ord \in [DOMAIN ord -> OrderRec] /\ tape \in Seq(Trade)
      /\ DOMAIN ord \subseteq Order
      /\ p \in PriceRange
  BY <1>2, LevelShape DEF IInv, TypeOK
<1> HIDE DEF s, p, m
<1>4. q \in Nat \ {0} /\ q <= ord[taker].quantity /\ q <= ord[m].quantity
  BY <1>2 DEF Lesser, OrderRec
<1> HIDE DEF q
<1>5. /\ DOMAIN ord' = DOMAIN ord
      /\ \A n \in DOMAIN ord \ {taker, m} : ord'[n] = ord[n]
      /\ ord'[m] = [ord[m] EXCEPT !.quantity = @ - q]
      /\ ord'[taker] = [ord[taker] EXCEPT !.quantity = @ - q]
  BY <1>1, <1>2, <1>3
<1>6. ord'[m] \in OrderRec /\ ord'[taker] \in OrderRec
  BY <1>2, <1>4, <1>5 DEF OrderRec
<1>7. ord' \in [DOMAIN ord -> OrderRec]
  <2>1. \A n \in DOMAIN ord : ord'[n] \in OrderRec
    BY <1>3, <1>5, <1>6
  <2>2. ord' = [n \in DOMAIN ord |-> ord'[n]]
    BY <1>1, <1>3
  <2> QED BY <2>1, <2>2
<1>8. tape' \in Seq(Trade)
  <2>1. Len(tape) + 1 \in Nat \ {0}
    BY <1>3, LenProperties
  <2>2. NewTrade(m, p, q) \in Trade
    BY <1>2, <1>3, <1>4, <2>1 DEF NewTrade, Trade, PriceRange
  <2> QED BY <1>1, <1>3, <2>2, AppendProperties
<1> QED BY <1>1, <1>4, <1>5, <1>7, <1>8 DEF s, p, m, q

\* A fill, whether or not the maker survives it.
LEMMA FillIInv ==
  ASSUME IInv, Fill
  PROVE  IInv'
<1> DEFINE s == Opposite(ord[taker].side)
           p == Head(prices[s])
           m == Head(levels[s][p].queue)
           q == Lesser(ord[taker].quantity, ord[m].quantity)
<1>1. /\ taker # None /\ CanMatch
      /\ q \in Nat \ {0} /\ q <= ord[taker].quantity /\ q <= ord[m].quantity
      /\ DOMAIN ord' = DOMAIN ord
      /\ ord' \in [DOMAIN ord -> OrderRec]
      /\ \A n \in DOMAIN ord \ {taker, m} : ord'[n] = ord[n]
      /\ ord'[m] = [ord[m] EXCEPT !.quantity = @ - q]
      /\ ord'[taker] = [ord[taker] EXCEPT !.quantity = @ - q]
      /\ refused' = refused /\ taker' = taker /\ clock' = clock
      /\ tape' \in Seq(Trade)
  BY FillOrders
<1>2. /\ taker \in DOMAIN ord /\ ord[taker] \in OrderRec
      /\ s \in Side /\ prices[s] # <<>> /\ p \in DOMAIN levels[s]
      /\ m \in Resting /\ m # taker /\ m \in DOMAIN ord
      /\ ord[m] \in OrderRec /\ ord[m].side = s /\ ord[m].price = p
  BY <1>1, BestMaker
<1>3. \/ ord[m].quantity = q /\ TakeOff(m, q, Tail(prices[s]))
      \/ /\ ord[m].quantity # q
         /\ levels' = [levels EXCEPT ![s] = Put(@, p, Reduce(@[p], q))]
         /\ prices' = prices /\ orders' = orders
  BY DEF Fill
<1> HIDE DEF s, p, m, q
<1>4. \A n \in DOMAIN ord : /\ ord'[n].id = ord[n].id
                            /\ ord'[n].side = ord[n].side
                            /\ ord'[n].price = ord[n].price
                            /\ ord'[n].type = ord[n].type
                            /\ ord'[n].ts = ord[n].ts
  <2> TAKE n \in DOMAIN ord
  <2>1. CASE n = m
    BY <1>1, <1>2, <2>1 DEF OrderRec
  <2>2. CASE n = taker
    BY <1>1, <1>2, <2>2 DEF OrderRec
  <2>3. CASE n \notin {m, taker}
    BY <1>1, <2>3
  <2> QED BY <2>1, <2>2, <2>3
<1>7. ASSUME DOMAIN orders' \subseteq DOMAIN orders
      PROVE  StampsOK'
  <2>1. \A n \in DOMAIN ord : ord'[n].ts <= clock /\ ValidPrice(ord'[n])
    BY <1>4 DEF IInv, StampsOK, ValidPrice
  <2>2. \A n, k \in DOMAIN ord : ord'[n].ts = ord'[k].ts => n = k
    BY <1>4 DEF IInv, StampsOK
  <2>3. ord'[taker].ts = clock /\ ord'[taker].id \notin DOMAIN orders'
    BY <1>1, <1>2, <1>4, <1>7 DEF IInv, StampsOK
  <2>4. DOMAIN ord \cap refused = {}
    BY DEF IInv, StampsOK
  <2> QED BY <1>1, <2>1, <2>2, <2>3, <2>4 DEF StampsOK
<1>5. CASE ord[m].quantity = q /\ TakeOff(m, q, Tail(prices[s]))
  <2>1. Without(ord[m].side, ord[m].price, Tail(prices[s]))
    <3>1. p = Head(prices[s])
      BY DEF p
    <3>2. /\ Tail(prices[s]) \in Seq(PriceRange)
          /\ Sorted(s, Tail(prices[s]))
          /\ Range(Tail(prices[s])) = Range(prices[s]) \ {p}
      BY <1>2, <3>1, TailSorted, SlicesSorted
    <3> QED BY <1>2, <3>2 DEF Without
  <2>2. BookTyped' /\ BookConsistent' /\ Uncrossed' /\ FifoLevels'
    BY <1>1, <1>2, <1>5, <2>1, TakeOffPreserves
  <2>3. Resting' = Resting \ {m}
    BY <1>1, <1>2, <1>5, <2>1, TakeOffPreserves
  <2>4. TypeOK'
    BY <1>1, <2>2 DEF IInv, TypeOK, BookTyped
  <2>5. orders' = Delete(orders, ord[m].id)
    BY <1>5 DEF TakeOff
  <2>6. DOMAIN orders' \subseteq DOMAIN orders
    BY <2>5 DEF Delete
  <2>7. StampsOK'
    BY <1>7, <2>6
  <2> QED BY <2>2, <2>4, <2>7 DEF IInv
<1>6. CASE /\ ord[m].quantity # q
           /\ levels' = [levels EXCEPT ![s] = Put(@, p, Reduce(@[p], q))]
           /\ prices' = prices /\ orders' = orders
  <2>1. /\ DOMAIN levels = Side
        /\ \A t \in Side : levels[t] \in [DOMAIN levels[t] -> PriceLevel]
    BY DEF IInv, TypeOK
  <2>2. levels[s][p] \in PriceLevel
    BY <1>2, <2>1
  <2> DEFINE l == Reduce(levels[s][p], q)
  <2>3. l \in PriceLevel /\ l.queue = levels[s][p].queue
    <3>1. levels[s][p].volume - q \in Int
      BY <1>1, <2>2 DEF PriceLevel
    <3>2. Wrap(levels[s][p].volume - q) \in Int
      BY <3>1, WrapIsInt
    <3> QED BY <2>2, <3>2 DEF Reduce, PriceLevel
  <2>4. /\ DOMAIN levels' = Side
        /\ \A t \in Side \ {s} : levels'[t] = levels[t]
        /\ levels'[s] = Put(levels[s], p, l)
    <3>1. levels' = [levels EXCEPT ![s] = Put(levels[s], p, l)]
      BY <1>6
    <3> HIDE DEF l
    <3> QED BY <1>2, <2>1, <3>1
  <2> HIDE DEF l
  <2>5. /\ DOMAIN levels'[s] = DOMAIN levels[s]
        /\ levels'[s][p] = l
        /\ \A x \in DOMAIN levels[s] \ {p} : levels'[s][x] = levels[s][x]
        /\ levels'[s] \in [DOMAIN levels[s] -> PriceLevel]
    BY <1>2, <2>1, <2>3, <2>4 DEF Put
  <2>6. \A t \in Side : /\ DOMAIN levels'[t] = DOMAIN levels[t]
                        /\ levels'[t] \in [DOMAIN levels[t] -> PriceLevel]
                        /\ \A x \in DOMAIN levels[t] :
                             levels'[t][x].queue = levels[t][x].queue
    BY <1>2, <2>1, <2>3, <2>4, <2>5
  <2>7. \A n \in Resting : ord'[n].quantity > 0
    <3>1. ord'[m].quantity > 0
      BY <1>1, <1>2, <1>6, SMTT(30) DEF OrderRec
    <3>2. \A n \in Resting : ord[n].quantity > 0 /\ n # taker /\ n \in DOMAIN ord
      BY Indexed, Queued, QueuedRests
    <3> QED BY <1>1, <3>1, <3>2
  <2>8. \A n \in Resting : n \in DOMAIN ord
    BY Indexed
  <2>9. BookConsistent' /\ Uncrossed' /\ FifoLevels'
    BY <1>4, <1>6, <2>4, <2>6, <2>7, <2>8, QueuesKept
  <2>10. TypeOK'
    BY <1>1, <1>6, <2>4, <2>6 DEF IInv, TypeOK
  <2>11. StampsOK'
    BY <1>6, <1>7
  <2> QED BY <2>9, <2>10, <2>11 DEF IInv
<1> QED BY <1>3, <1>5, <1>6

\* A remainder that cannot match any more is better priced than nothing on the
\* other side: resting it does not cross the book.
LEMMA RemainderInside ==
  ASSUME IInv, taker # None, ~CanMatch,
         ord[taker].quantity > 0, ord[taker].type = Limit,
         NEW x \in DOMAIN levels[Opposite(ord[taker].side)]
  PROVE  IF ord[taker].side = Buy THEN ord[taker].price < x ELSE x < ord[taker].price
<1> DEFINE s == Opposite(ord[taker].side)
           t == ord[taker]
<1>1. t \in OrderRec /\ ord[taker].side \in Side /\ s \in Side
  BY DEF IInv, TypeOK, OrderRec, Opposite, Side
<1>2. x \in Range(prices[s]) /\ prices[s] # <<>> /\ x \in PriceRange
  <2>1. x \in Range(prices[s])
    BY <1>1 DEF IInv, BookConsistent, SlicesMatchMaps
  <2>2. x \in PriceRange
    BY <1>1, LevelShape DEF IInv
  <2> QED BY <2>1, <2>2 DEF Range
<1>3. ~Accepts(t, Head(prices[s]))
  BY <1>2 DEF CanMatch
<1>4. /\ Head(prices[s]) \in PriceRange
      /\ x = Head(prices[s]) \/ Precedes(s, Head(prices[s]), x)
  BY <1>1, <1>2, SlicesSorted, TailSorted, HeadTailProperties
<1>5. Precedes(s, t.price, Head(prices[s]))
  BY <1>3 DEF Accepts, Limit, Market
<1>6. t.price \in Int /\ s = IF t.side = Buy THEN Sell ELSE Buy
  BY <1>1 DEF OrderRec, Opposite
<1> HIDE DEF s, t
<1>7. IF s = Buy THEN x < t.price ELSE t.price < x
  BY <1>2, <1>4, <1>5, <1>6 DEF Precedes, PriceRange
<1> QED BY <1>1, <1>6, <1>7 DEF t, Side, Buy, Sell

\* The queue an order joins: its level's, or that of a new level.
Joined(s, p) == IF p \in DOMAIN levels[s] THEN Queue(s, p) ELSE <<>>

\* A queue to be joined is a sequence, empty if there is no such level yet.
LEMMA JoinedShape ==
  ASSUME IInv, NEW s \in Side, NEW p \in PriceRange
  PROVE  /\ Joined(s, p) \in Seq(Order)
         /\ Len(Joined(s, p)) \in Nat
         /\ DOMAIN Joined(s, p) = 1 .. Len(Joined(s, p))
         /\ \A i \in DOMAIN Joined(s, p) :
              p \in DOMAIN levels[s] /\ i \in DOMAIN Queue(s, p)
<1>1. CASE p \in DOMAIN levels[s]
  BY <1>1, LevelShape DEF Joined, IInv
<1>2. CASE p \notin DOMAIN levels[s]
  BY <1>2, EmptySeq, LenProperties DEF Joined
<1> QED BY <1>1, <1>2

\* What AddToBook does to the levels, the slices and the index.
LEMMA AddToBookEffect ==
  ASSUME IInv, taker # None, ord[taker].quantity > 0, ord[taker].type = Limit,
         AddToBook(taker)
  PROVE  LET s == ord[taker].side
             p == ord[taker].price
         IN /\ s \in Side /\ p \in PriceRange
            /\ DOMAIN levels' = Side
            /\ \A t \in Side \ {s} : levels'[t] = levels[t] /\ prices'[t] = prices[t]
            /\ DOMAIN levels'[s] = DOMAIN levels[s] \cup {p}
            /\ \A x \in DOMAIN levels[s] \ {p} : levels'[s][x] = levels[s][x]
            /\ levels'[s][p].queue = Append(Joined(s, p), taker)
            /\ levels'[s] \in [DOMAIN levels'[s] -> PriceLevel]
            /\ prices' \in [Side -> Seq(PriceRange)]
            /\ Range(prices'[s]) = DOMAIN levels'[s]
            /\ Sorted(s, prices'[s])
            /\ orders' = Put(orders, ord[taker].id, taker)
<1> DEFINE s == ord[taker].side
           p == ord[taker].price
           known == p \in DOMAIN levels[s]
           l == IF known THEN levels[s][p] ELSE NewPriceLevel
           n == PushBack(l, taker, ord[taker].quantity)
<1>1. /\ levels' = [levels EXCEPT ![s] = Put(@, p, n)]
      /\ prices' = [prices EXCEPT ![s] = IF known THEN @ ELSE InsertSorted(s, @, p)]
      /\ orders' = Put(orders, ord[taker].id, taker)
  BY DEF AddToBook
<1>2. /\ taker \in DOMAIN ord /\ taker \in Order /\ ord[taker] \in OrderRec
      /\ ord[taker].quantity \in Int
  BY DEF IInv, TypeOK, OrderRec
<1>3. s \in Side /\ p \in PriceRange
  <2>1. p \in Int /\ p > 0
    BY <1>2 DEF IInv, StampsOK, ValidPrice, OrderRec
  <2> QED BY <1>2, <2>1 DEF OrderRec, PriceRange
<1>4. /\ DOMAIN levels = Side
      /\ levels[s] \in [DOMAIN levels[s] -> PriceLevel]
      /\ prices \in [Side -> Seq(PriceRange)]
      /\ DOMAIN levels[s] = Range(prices[s])
      /\ prices[s] \in Seq(PriceRange) /\ Sorted(s, prices[s])
  BY <1>3, SlicesSorted DEF IInv, TypeOK, BookConsistent, SlicesMatchMaps
<1>5. l.queue = Joined(s, p) /\ l.queue \in Seq(Order) /\ l.volume \in Int
  <2>1. CASE known
    BY <1>3, <2>1, LevelShape DEF Joined, Queue, IInv
  <2>2. CASE ~known
    BY <2>2, EmptySeq DEF Joined, NewPriceLevel
  <2> QED BY <2>1, <2>2
<1> HIDE DEF l
<1>6. n.queue = Append(Joined(s, p), taker) /\ n \in PriceLevel
  <2>1. n = [queue |-> Append(l.queue, taker), volume |-> Wrap(l.volume + ord[taker].quantity)]
    BY DEF PushBack
  <2>2. l.volume + ord[taker].quantity \in Int
    BY <1>2, <1>5
  <2>3. Wrap(l.volume + ord[taker].quantity) \in Int
    BY <2>2, WrapIsInt
  <2>4. Append(l.queue, taker) \in Seq(Order)
    BY <1>2, <1>5, AppendProperties
  <2> HIDE DEF n
  <2> QED BY <1>5, <2>1, <2>3, <2>4 DEF PriceLevel
<1> HIDE DEF s, p, n
<1>7. levels'[s] = Put(levels[s], p, n) /\ DOMAIN levels' = Side
      /\ \A t \in Side \ {s} : levels'[t] = levels[t] /\ prices'[t] = prices[t]
  BY <1>1, <1>3, <1>4
<1>8. /\ DOMAIN levels'[s] = DOMAIN levels[s] \cup {p}
      /\ \A x \in DOMAIN levels[s] \ {p} : levels'[s][x] = levels[s][x]
      /\ levels'[s][p] = n
      /\ levels'[s] \in [DOMAIN levels'[s] -> PriceLevel]
  BY <1>4, <1>6, <1>7 DEF Put
<1>9. /\ prices' \in [Side -> Seq(PriceRange)]
      /\ Range(prices'[s]) = DOMAIN levels'[s]
      /\ Sorted(s, prices'[s])
  <2>1. CASE known
    BY <1>1, <1>3, <1>4, <1>8, <2>1
  <2>2. CASE ~known
    <3>1. prices'[s] = InsertSorted(s, prices[s], p)
      BY <1>1, <1>3, <1>4, <2>2
    <3>2. /\ InsertSorted(s, prices[s], p) \in Seq(PriceRange)
          /\ Sorted(s, InsertSorted(s, prices[s], p))
          /\ Range(InsertSorted(s, prices[s], p)) = Range(prices[s]) \cup {p}
      BY <1>3, <1>4, <2>2, InsertSortedProperties
    <3>3. prices' \in [Side -> Seq(PriceRange)]
      BY <1>1, <1>3, <1>4, <2>2, <3>2
    <3> QED BY <1>4, <1>8, <3>1, <3>2, <3>3
  <2> QED BY <2>1, <2>2
<1> QED BY <1>1, <1>3, <1>6, <1>7, <1>8, <1>9 DEF s, p

\* A limit remainder rests: nothing crosses it, and its stamp is the last.
LEMMA RestIInv ==
  ASSUME IInv, taker # None, ~CanMatch,
         ord[taker].quantity > 0, ord[taker].type = Limit, AddToBook(taker),
         taker' = None, UNCHANGED <<ord, refused, tape, clock>>
  PROVE  IInv' /\ Resting' = Resting \cup {taker}
<1> DEFINE s == ord[taker].side
           p == ord[taker].price
<1>1. /\ s \in Side /\ p \in PriceRange
      /\ DOMAIN levels' = Side
      /\ \A t \in Side \ {s} : levels'[t] = levels[t] /\ prices'[t] = prices[t]
      /\ DOMAIN levels'[s] = DOMAIN levels[s] \cup {p}
      /\ \A x \in DOMAIN levels[s] \ {p} : levels'[s][x] = levels[s][x]
      /\ levels'[s][p].queue = Append(Joined(s, p), taker)
      /\ levels'[s] \in [DOMAIN levels'[s] -> PriceLevel]
      /\ prices' \in [Side -> Seq(PriceRange)]
      /\ Range(prices'[s]) = DOMAIN levels'[s]
      /\ Sorted(s, prices'[s])
      /\ orders' = Put(orders, ord[taker].id, taker)
  BY AddToBookEffect
<1> HIDE DEF s, p
<1>2. /\ taker \in DOMAIN ord /\ ord[taker] \in OrderRec /\ ord[taker].id \in ID
      /\ ord[taker].id \notin DOMAIN orders /\ ord[taker].ts = clock
      /\ taker \in Order
  BY DEF IInv, TypeOK, StampsOK, OrderRec
<1>3. /\ DOMAIN orders' = DOMAIN orders \cup {ord[taker].id}
      /\ \A id \in DOMAIN orders : orders'[id] = orders[id]
      /\ orders'[ord[taker].id] = taker
      /\ orders' = [id \in DOMAIN orders' |-> orders'[id]]
  BY <1>1, <1>2 DEF Put
<1>4. ord' = ord /\ refused' = refused /\ tape' = tape /\ clock' = clock /\ taker' = None
  OBVIOUS
<1>5. Resting' = Resting \cup {taker}
  BY <1>2, <1>3 DEF Resting, Range
<1>6. TypeOK'
  <2>1. DOMAIN orders' \subseteq ID /\ orders' \in [DOMAIN orders' -> DOMAIN ord]
    BY <1>2, <1>3 DEF IInv, TypeOK
  <2>2. \A t \in Side : /\ DOMAIN levels'[t] \subseteq PriceRange
                        /\ levels'[t] \in [DOMAIN levels'[t] -> PriceLevel]
    BY <1>1 DEF IInv, TypeOK
  <2> QED BY <1>1, <1>4, <2>1, <2>2 DEF IInv, TypeOK
<1>7. StampsOK'
  BY <1>4 DEF IInv, StampsOK
<1>8. SlicesMatchMaps'
  <2>1. \A t \in Side : DOMAIN levels'[t] = Range(prices'[t]) /\ Sorted(t, prices'[t])
    <3>1. \A t \in Side : DOMAIN levels[t] = Range(prices[t]) /\ Sorted(t, prices[t])
      BY SlicesSorted DEF IInv, BookConsistent, SlicesMatchMaps
    <3> QED BY <1>1, <3>1
  <2> QED BY <2>1 DEF SlicesMatchMaps, Sorted
<1>9. /\ Joined(s, p) \in Seq(Order)
      /\ Len(Joined(s, p)) \in Nat
      /\ DOMAIN Joined(s, p) = 1 .. Len(Joined(s, p))
      /\ \A i \in DOMAIN Joined(s, p) : p \in DOMAIN levels[s] /\ i \in DOMAIN Queue(s, p)
  BY <1>1, JoinedShape
<1> DEFINE q == levels'[s][p].queue
           k == Len(Joined(s, p)) + 1
<1>10. /\ q # <<>>
       /\ DOMAIN q = 1 .. k
       /\ q[k] = taker
       /\ \A i \in 1 .. k - 1 : /\ q[i] = Joined(s, p)[i]
                                /\ i \in DOMAIN Joined(s, p)
       /\ k \in Nat \ {0}
  <2>1. /\ Append(Joined(s, p), taker) \in Seq(Order)
        /\ Append(Joined(s, p), taker) # <<>>
        /\ Len(Append(Joined(s, p), taker)) = k
        /\ \A i \in 1 .. k - 1 : Append(Joined(s, p), taker)[i] = Joined(s, p)[i]
        /\ Append(Joined(s, p), taker)[k] = taker
    BY <1>2, <1>9, AppendProperties
  <2>2. DOMAIN Append(Joined(s, p), taker) = 1 .. k
    BY <2>1, LenProperties
  <2> QED BY <1>1, <1>9, <2>1, <2>2
<1>11. \A i \in 1 .. k - 1 : /\ p \in DOMAIN levels[s] /\ i \in DOMAIN Queue(s, p)
                             /\ q[i] = Queue(s, p)[i]
  BY <1>9, <1>10 DEF Joined
<1> HIDE DEF q, k
<1>12. QueuesHoldLiveOrders'
  <2> DEFINE Live(t, x, n) == Lives(n, t, x, ord', orders')
  <2>1. ASSUME NEW t \in Side, NEW x \in DOMAIN levels[t], NEW i \in DOMAIN Queue(t, x)
        PROVE  Live(t, x, Queue(t, x)[i])
    BY <1>3, <1>4, Queued DEF Lives
  <2>2. Live(s, p, taker)
    BY <1>3, <1>4 DEF s, p, Lives
  <2> HIDE DEF Live
  <2>3. ASSUME NEW t \in Side, NEW x \in DOMAIN levels'[t]
        PROVE  /\ levels'[t][x].queue # <<>>
               /\ \A i \in DOMAIN levels'[t][x].queue : Live(t, x, levels'[t][x].queue[i])
    <3>1. CASE t = s /\ x = p
      <4>1. \A i \in 1 .. k : Live(s, p, q[i])
        <5> TAKE i \in 1 .. k
        <5>1. CASE i = k
          BY <1>10, <2>2, <5>1
        <5>2. CASE i # k
          BY <1>1, <1>10, <1>11, <2>1, <5>2
        <5> QED BY <5>1, <5>2
      <4> QED BY <1>10, <3>1, <4>1 DEF q
    <3>2. CASE t # s \/ x # p
      <4>1. x \in DOMAIN levels[t] /\ levels'[t][x].queue = Queue(t, x)
        BY <1>1, <2>3, <3>2 DEF Queue
      <4>2. Queue(t, x) # <<>>
        BY <4>1 DEF IInv, BookConsistent, QueuesHoldLiveOrders
      <4> QED BY <2>1, <4>1, <4>2
    <3> QED BY <3>1, <3>2
  <2> QED BY <2>3, LivesNext DEF Live
<1>13. IndexedAreQueued'
  <2> DEFINE Placed(n) == /\ ord[n].price \in DOMAIN levels'[ord[n].side]
                          /\ \E i \in DOMAIN levels'[ord[n].side][ord[n].price].queue :
                               levels'[ord[n].side][ord[n].price].queue[i] = n
  <2>1. Placed(taker)
    <3>1. k \in DOMAIN q /\ q[k] = taker /\ p \in DOMAIN levels'[s]
      BY <1>1, <1>10
    <3>2. p = ord[taker].price /\ s = ord[taker].side
      BY DEF s, p
    <3> QED BY <3>1, <3>2 DEF q
  <2>2. ASSUME NEW n \in Resting
        PROVE  Placed(n)
    <3> DEFINE t == ord[n].side
               x == ord[n].price
    <3>1. /\ t \in Side /\ x \in DOMAIN levels[t]
          /\ \E i \in DOMAIN Queue(t, x) : Queue(t, x)[i] = n
      BY Indexed
    <3> HIDE DEF t, x
    <3>2. CASE t = s /\ x = p
      <4>1. PICK i \in DOMAIN Queue(s, p) : Queue(s, p)[i] = n
        BY <3>1, <3>2
      <4>2. i \in 1 .. k - 1
        BY <1>9, <3>1, <3>2 DEF Joined, k
      <4>3. i \in DOMAIN q /\ q[i] = n
        BY <1>10, <1>11, <4>1, <4>2
      <4> QED BY <1>1, <3>2, <4>3 DEF q, t, x
    <3>3. CASE t # s \/ x # p
      <4>1. x \in DOMAIN levels'[t] /\ levels'[t][x].queue = Queue(t, x)
        BY <1>1, <3>1, <3>3 DEF Queue
      <4> QED BY <3>1, <4>1 DEF t, x
    <3> QED BY <3>2, <3>3
  <2> HIDE DEF Placed
  <2>3. ASSUME NEW id \in DOMAIN orders'
        PROVE  ord[orders'[id]].id = id /\ Placed(orders'[id])
    <3>1. CASE id = ord[taker].id
      BY <1>3, <2>1, <3>1
    <3>2. CASE id # ord[taker].id
      <4>1. id \in DOMAIN orders /\ orders'[id] = orders[id]
        BY <1>3, <2>3, <3>2
      <4>2. orders[id] \in Resting /\ ord[orders[id]].id = id
        BY <4>1 DEF Resting, Range, IInv, BookConsistent, IndexedAreQueued
      <4> QED BY <2>2, <4>1, <4>2
    <3> QED BY <3>1, <3>2
  <2> QED BY <1>4, <2>3 DEF IndexedAreQueued, Queue, Placed
<1>14. Uncrossed'
  <2>1. \A x \in DOMAIN levels[Opposite(s)] : IF s = Buy THEN p < x ELSE x < p
    BY RemainderInside DEF s, p
  <2>2. \A b \in DOMAIN levels[Buy], a \in DOMAIN levels[Sell] : b < a
    BY DEF IInv, Uncrossed
  <2>3. CASE s = Buy
    <3>1. DOMAIN levels'[Buy] = DOMAIN levels[Buy] \cup {p} /\ levels'[Sell] = levels[Sell]
      BY <1>1, <2>3 DEF Side, Buy, Sell
    <3> QED BY <2>1, <2>2, <2>3, <3>1 DEF Uncrossed, Opposite
  <2>4. CASE s = Sell
    <3>1. DOMAIN levels'[Sell] = DOMAIN levels[Sell] \cup {p} /\ levels'[Buy] = levels[Buy]
      BY <1>1, <2>4 DEF Side, Buy, Sell
    <3>2. \A x \in DOMAIN levels[Buy] : x < p
      BY <2>1, <2>4 DEF Opposite, Buy, Sell
    <3> QED BY <2>2, <3>1, <3>2 DEF Uncrossed
  <2> QED BY <1>1, <2>3, <2>4 DEF Side
<1>15. FifoLevels'
  <2>1. \A n \in Resting : ord[n].ts < clock
    <3> TAKE n \in Resting
    <3>1. n \in DOMAIN ord /\ n # taker
      BY <1>2, Indexed
    <3>2. ord[n].ts \in Nat /\ clock \in Nat
      BY <3>1 DEF IInv, TypeOK, OrderRec
    <3>3. ord[n].ts <= clock /\ ord[n].ts # clock
      BY <1>2, <3>1 DEF IInv, StampsOK
    <3> QED BY <3>2, <3>3
  <2>2. ASSUME NEW t \in Side, NEW x \in DOMAIN levels'[t],
               NEW i \in DOMAIN levels'[t][x].queue,
               NEW j \in DOMAIN levels'[t][x].queue, i < j
        PROVE  ord[levels'[t][x].queue[i]].ts < ord[levels'[t][x].queue[j]].ts
    <3>1. CASE t = s /\ x = p
      <4>1. i \in 1 .. k /\ j \in 1 .. k
        BY <1>10, <2>2, <3>1 DEF q
      <4>2. i \in 1 .. k - 1
        BY <1>10, <2>2, <4>1
      <4>3. CASE j = k
        <5>1. ord[q[i]].ts < clock
          BY <1>1, <1>11, <2>1, <4>2, QueuedRests
        <5> QED BY <1>2, <1>10, <3>1, <4>3, <5>1 DEF q
      <4>4. CASE j # k
        <5>1. j \in 1 .. k - 1
          BY <1>10, <4>1, <4>4
        <5>2. ord[q[i]].ts < ord[q[j]].ts
          BY <1>1, <1>11, <2>2, <4>2, <5>1 DEF IInv, FifoLevels
        <5> QED BY <3>1, <5>2 DEF q
      <4> QED BY <4>3, <4>4
    <3>2. CASE t # s \/ x # p
      <4>1. x \in DOMAIN levels[t] /\ levels'[t][x].queue = Queue(t, x)
        BY <1>1, <2>2, <3>2 DEF Queue
      <4> QED BY <2>2, <4>1 DEF IInv, FifoLevels
    <3> QED BY <3>1, <3>2
  <2> QED BY <1>4, <2>2 DEF FifoLevels, Queue
<1> QED BY <1>5, <1>6, <1>7, <1>8, <1>12, <1>13, <1>14, <1>15 DEF IInv, BookConsistent

\* Finish either rests the remainder or leaves the book alone.
LEMMA FinishIInv ==
  ASSUME IInv, Finish
  PROVE  IInv'
<1>1. taker # None /\ ~CanMatch /\ taker' = None /\ UNCHANGED <<ord, refused, tape, clock>>
  BY DEF Finish
<1>2. CASE ord[taker].quantity > 0 /\ ord[taker].type = Limit /\ AddToBook(taker)
  BY <1>1, <1>2, RestIInv
<1>3. CASE UNCHANGED <<levels, prices, orders>>
  <2>1. TypeOK'
    BY <1>1, <1>3 DEF IInv, TypeOK
  <2>2. StampsOK'
    BY <1>1, <1>3 DEF IInv, StampsOK
  <2>3. BookConsistent'
    <3>0. ord' = ord /\ levels' = levels /\ orders' = orders
      BY <1>1, <1>3
    <3>1. SlicesMatchMaps'
      BY <1>3 DEF IInv, BookConsistent, SlicesMatchMaps
    <3>2. QueuesHoldLiveOrders'
      <4>1. QueuesHoldLiveOrders
        BY DEF IInv, BookConsistent
      <4>2. \A t \in Side : \A x \in DOMAIN levels[t] :
              /\ levels[t][x].queue # <<>>
              /\ \A i \in DOMAIN levels[t][x].queue :
                   Lives(levels[t][x].queue[i], t, x, ord, orders)
        BY <4>1 DEF QueuesHoldLiveOrders, Queue, Lives
      <4>3. QED
        BY <3>0, <4>2, LivesNext
    <3>3. IndexedAreQueued'
      <4>1. IndexedAreQueued
        BY DEF IInv, BookConsistent
      <4>2. QED
        BY <3>0, <4>1 DEF IndexedAreQueued, Queue
    <3> QED BY <3>1, <3>2, <3>3 DEF BookConsistent
  <2>4. Uncrossed' /\ FifoLevels'
    BY <1>1, <1>3 DEF IInv, Uncrossed, FifoLevels, Queue
  <2> QED BY <2>1, <2>2, <2>3, <2>4 DEF IInv
<1> QED BY <1>2, <1>3 DEF Finish

\* One step, by action.
LEMMA NextIInv ==
  ASSUME IInv, [Next]_vars
  PROVE  IInv'
<1>1. ASSUME NEW o \in Order, NEW r \in Request, Refuse(o, r) \/ Accept(o, r)
      PROVE  IInv'
  BY <1>1, RefuseIInv, AcceptIInv
<1>2. CASE Fill
  BY <1>2, FillIInv
<1>3. CASE Finish
  BY <1>3, FinishIInv
<1>4. ASSUME NEW id \in ID, CancelOrder(id)
      PROVE  IInv'
  BY <1>4, CancelIInv
<1>5. CASE UNCHANGED vars
  BY <1>5, StutterIInv
<1> QED BY <1>1, <1>2, <1>3, <1>4, <1>5 DEF Next

-----------------------------------------------------------------------------
(* The theorems. *)

\* The inductive invariant holds in every reachable state.
THEOREM Invariance == Spec => []IInv
<1>1. Init => IInv
  BY InitIInv
<1>2. IInv /\ [Next]_vars => IInv'
  BY NextIInv
<1> QED BY <1>1, <1>2, PTL DEF Spec

\* Type correctness: every field keeps the type the code declares for it.
THEOREM TypeCorrect == Spec => []TypeOK
<1>1. IInv => TypeOK
  BY DEF IInv
<1> QED BY <1>1, Invariance, PTL

\* match never reads a level the map does not hold, CancelOrder never unlinks
\* from the wrong level, and the index never names an order that is not queued.
THEOREM Consistent == Spec => []BookConsistent
<1>1. IInv => BookConsistent
  BY DEF IInv
<1> QED BY <1>1, Invariance, PTL

\* The book is never crossed, between two fills of one order either.
THEOREM NeverCrossed == Spec => []Uncrossed
<1>1. IInv => Uncrossed
  BY DEF IInv
<1> QED BY <1>1, Invariance, PTL

\* Within a price, orders are served in the order they were accepted.
THEOREM TimePriority == Spec => []FifoLevels
<1>1. IInv => FifoLevels
  BY DEF IInv
<1> QED BY <1>1, Invariance, PTL

-----------------------------------------------------------------------------
(* What becomes of the resting orders. *)

\* A counterparty of the abstract book rests in this one and crosses the taker.
LEMMA CounterpartyCrosses ==
  ASSUME NEW n \in Abstract!Counterparties
  PROVE  n \in Resting /\ Crosses(ord[taker], ord[n])
BY DEF Abstract!Counterparties, Crosses, Abstract!Crosses,
       Opposite, Abstract!Opposite, Accepts, Abstract!Accepts,
       Precedes, Abstract!Precedes, Market, Abstract!Market,
       Buy, Abstract!Buy, Sell, Abstract!Sell

\* The head of the best queue is the best counterparty of the taker.
LEMMA BestMakerIsBest ==
  ASSUME IInv, taker # None, CanMatch,
         NEW n \in Abstract!Counterparties,
         n # Head(levels[Opposite(ord[taker].side)]
                        [Head(prices[Opposite(ord[taker].side)])].queue)
  PROVE  Better(ord[Head(levels[Opposite(ord[taker].side)]
                               [Head(prices[Opposite(ord[taker].side)])].queue)],
                ord[n])
<1> DEFINE s == Opposite(ord[taker].side)
           p == Head(prices[s])
           m == Head(levels[s][p].queue)
           x == ord[n].price
<1>1. /\ s \in Side /\ prices[s] # <<>> /\ p \in DOMAIN levels[s]
      /\ 1 \in DOMAIN Queue(s, p) /\ m = Queue(s, p)[1]
      /\ ord[m].side = s /\ ord[m].price = p
  BY BestMaker
<1>2. n \in Resting /\ ord[n].side = s
  BY CounterpartyCrosses DEF Crosses
<1>3. /\ x \in DOMAIN levels[s]
      /\ \E i \in DOMAIN Queue(s, x) : Queue(s, x)[i] = n
  BY <1>2, Indexed
<1>4. x \in Range(prices[s])
  BY <1>1, <1>3 DEF IInv, BookConsistent, SlicesMatchMaps
<1>5. x = p \/ Precedes(s, p, x)
  BY <1>1, <1>4, SlicesSorted, TailSorted
<1>6. n # m
  OBVIOUS
<1> HIDE DEF s, p, m, x
<1>7. CASE x = p
  <2>1. PICK i \in DOMAIN Queue(s, p) : Queue(s, p)[i] = n
    BY <1>3, <1>7
  <2>2. DOMAIN Queue(s, p) = 1 .. Len(Queue(s, p)) /\ i # 1
    BY <1>1, <1>6, <2>1, LevelShape DEF IInv
  <2>3. 1 < i
    <3>1. \A l \in Nat : \A j \in 1 .. l : j # 1 => 1 < j
      OBVIOUS
    <3>2. Len(Queue(s, p)) \in Nat
      BY <1>1, LevelShape DEF IInv
    <3>3. QED
      BY <2>1, <2>2, <3>1, <3>2
  <2>4. ord[m].ts < ord[n].ts
    BY <1>1, <2>1, <2>3 DEF IInv, FifoLevels
  <2> QED BY <1>1, <1>7, <2>4 DEF Better, s, p, m, x
<1>8. CASE Precedes(s, p, x)
  BY <1>1, <1>8 DEF Better, s, p, m, x
<1> QED BY <1>5, <1>7, <1>8

\* When the loops of match end there is nothing left of the order, or nobody
\* left whose price it accepts.
LEMMA NoCounterparty ==
  ASSUME IInv, taker # None, ~CanMatch, NEW n \in Abstract!Counterparties
  PROVE  ord[taker].quantity = 0
<1> DEFINE s == Opposite(ord[taker].side)
           t == ord[taker]
           x == ord[n].price
<1>1. t \in OrderRec /\ t.side \in Side /\ t.type \in OrderType /\ s \in Side
  BY DEF IInv, TypeOK, OrderRec, Opposite, Side
<1>2. n \in Resting /\ ord[n].side = s /\ Accepts(t, x)
  BY CounterpartyCrosses DEF Crosses
<1>3. x \in DOMAIN levels[s]
  BY <1>2, Indexed
<1>4. x \in Range(prices[s]) /\ x \in PriceRange
  BY <1>1, <1>3, LevelShape DEF IInv, BookConsistent, SlicesMatchMaps
<1>5. prices[s] # <<>>
  BY <1>4 DEF Range
<1>6. Head(prices[s]) \in PriceRange /\ (x = Head(prices[s]) \/ Precedes(s, Head(prices[s]), x))
  BY <1>1, <1>4, <1>5, SlicesSorted, TailSorted, HeadTailProperties
<1>7. Accepts(t, Head(prices[s]))
  <2>1. CASE t.type = Market
    BY <2>1 DEF Accepts
  <2>2. CASE ~Precedes(s, t.price, x)
    <3>1. t.price \in Int
      BY <1>1 DEF OrderRec
    <3> HIDE DEF s, x, t
    <3>2. ~Precedes(s, t.price, Head(prices[s]))
      BY <1>4, <1>6, <2>2, <3>1 DEF Precedes, PriceRange
    <3> QED BY <3>2 DEF Accepts, s, t
  <2> QED BY <1>2, <2>1, <2>2 DEF Accepts
<1>8. ~(t.quantity > 0)
  BY <1>5, <1>7 DEF CanMatch
<1>9. t.quantity \in Nat
  BY <1>1 DEF OrderRec
<1> QED BY <1>8, <1>9

\* The id index and the set of resting orders agree on which ids are taken.
LEMMA IdRests ==
  ASSUME IInv, NEW id
  PROVE  Abstract!IdResting(id) <=> id \in DOMAIN orders
<1>1. ASSUME NEW m \in Resting, ord[m].id = id PROVE id \in DOMAIN orders
  BY <1>1, Indexed
<1>2. ASSUME id \in DOMAIN orders PROVE \E m \in Resting : ord[m].id = id
  <2>1. orders[id] \in Resting /\ ord[orders[id]].id = id
    BY <1>2 DEF Resting, Range, IInv, BookConsistent, IndexedAreQueued
  <2> QED BY <2>1
<1> QED BY <1>1, <1>2 DEF Abstract!IdResting

-----------------------------------------------------------------------------
(* The book implements the price-time priority book. *)

\* Both specifications use the vocabulary of Orders.
LEMMA SharedVocabulary ==
  /\ Abstract!EmptyMap = EmptyMap
  /\ \A r : Abstract!Valid(r) <=> Valid(r)
  /\ \A r, n : Abstract!Accepted(r, n) = Accepted(r, n)
  /\ \A f, k, v : Abstract!Put(f, k, v) = Put(f, k, v)
  /\ \A a, b : Abstract!Lesser(a, b) = Lesser(a, b)
  /\ \A t, m : Abstract!Crosses(t, m) <=> Crosses(t, m)
  /\ \A m, n : Abstract!Better(m, n) <=> Better(m, n)
  /\ Abstract!Limit = Limit
<1>1. Abstract!EmptyMap = EmptyMap /\ Abstract!Limit = Limit
  BY DEF EmptyMap, Abstract!EmptyMap, Limit, Abstract!Limit
<1>2. \A r : Abstract!Valid(r) <=> Valid(r)
  BY DEF Valid, Abstract!Valid, Side, Abstract!Side, Buy, Abstract!Buy, Sell,
         Abstract!Sell, OrderType, Abstract!OrderType, Limit, Abstract!Limit,
         Market, Abstract!Market, ValidPrice, Abstract!ValidPrice
<1>3. \A r, n : Abstract!Accepted(r, n) = Accepted(r, n)
  BY DEF Accepted, Abstract!Accepted
<1>4. \A f, k, v : Abstract!Put(f, k, v) = Put(f, k, v)
  BY DEF Put, Abstract!Put
<1>5. \A a, b : Abstract!Lesser(a, b) = Lesser(a, b)
  BY DEF Lesser, Abstract!Lesser
<1>6. \A s, p, x : Abstract!Precedes(s, p, x) <=> Precedes(s, p, x)
  BY DEF Precedes, Abstract!Precedes, Buy, Abstract!Buy
<1>7. \A s : Abstract!Opposite(s) = Opposite(s)
  BY DEF Opposite, Abstract!Opposite, Buy, Abstract!Buy, Sell, Abstract!Sell
<1>8. \A t, m : Abstract!Crosses(t, m) <=> Crosses(t, m)
  BY <1>6, <1>7 DEF Crosses, Abstract!Crosses, Accepts, Abstract!Accepts,
                    Market, Abstract!Market
<1>9. \A m, n : Abstract!Better(m, n) <=> Better(m, n)
  BY <1>6 DEF Better, Abstract!Better
<1> QED BY <1>1, <1>2, <1>3, <1>4, <1>5, <1>8, <1>9

\* The empty book maps to the empty book.
LEMMA InitRefines == Init => Abstract!Init
<1>1. ASSUME Init PROVE Resting = {}
  BY <1>1 DEF Init, Resting, Range, EmptyMap
<1> QED BY <1>1, SharedVocabulary DEF Init, Abstract!Init

\* A refusal maps to a refusal.
LEMMA RefuseRefines ==
  ASSUME IInv, NEW o \in Order, NEW r \in Request, Refuse(o, r)
  PROVE  Abstract!Refuse(o, r)
<1>1. Resting' = Resting
  BY DEF Refuse, Resting
<1> QED BY <1>1, SharedVocabulary, IdRests
        DEF Refuse, Abstract!Refuse, IsNew, Abstract!IsNew

\* An acceptance maps to an acceptance.
LEMMA AcceptRefines ==
  ASSUME IInv, NEW o \in Order, NEW r \in Request, Accept(o, r)
  PROVE  Abstract!Accept(o, r)
<1>1. Resting' = Resting
  BY DEF Accept, Resting
<1> QED BY <1>1, SharedVocabulary, IdRests
        DEF Accept, Abstract!Accept, IsNew, Abstract!IsNew

\* After a fill the maker is off the book exactly when nothing of it is left.
LEMMA FillResting ==
  ASSUME IInv, Fill
  PROVE  LET m == Head(levels[Opposite(ord[taker].side)]
                             [Head(prices[Opposite(ord[taker].side)])].queue)
         IN Resting' = IF ord[m].quantity = Lesser(ord[taker].quantity, ord[m].quantity)
                       THEN Resting \ {m} ELSE Resting
<1> DEFINE s == Opposite(ord[taker].side)
           p == Head(prices[s])
           m == Head(levels[s][p].queue)
           q == Lesser(ord[taker].quantity, ord[m].quantity)
<1>1. /\ taker # None /\ CanMatch /\ q \in Nat \ {0}
      /\ DOMAIN ord' = DOMAIN ord
      /\ \A n \in DOMAIN ord \ {taker, m} : ord'[n] = ord[n]
  BY FillOrders
<1>2. /\ s \in Side /\ prices[s] # <<>> /\ m \in Resting
      /\ ord[m].side = s /\ ord[m].price = p
  BY <1>1, BestMaker
<1>3. \/ ord[m].quantity = q /\ TakeOff(m, q, Tail(prices[s]))
      \/ ord[m].quantity # q /\ orders' = orders
  BY DEF Fill
<1>4. p = Head(prices[s])
  OBVIOUS
<1> HIDE DEF s, p, m, q
<1>5. CASE ord[m].quantity = q /\ TakeOff(m, q, Tail(prices[s]))
  <2>1. /\ Tail(prices[s]) \in Seq(PriceRange)
        /\ Sorted(s, Tail(prices[s]))
        /\ Range(Tail(prices[s])) = Range(prices[s]) \ {p}
    BY <1>2, <1>4, SlicesSorted, TailSorted
  <2>2. Without(ord[m].side, ord[m].price, Tail(prices[s]))
    BY <1>2, <2>1 DEF Without
  <2>3. Resting' = Resting \ {m}
    BY <1>1, <1>2, <1>5, <2>2, TakeOffPreserves
  <2> QED BY <1>5, <2>3 DEF s, p, m, q
<1>6. CASE ord[m].quantity # q /\ orders' = orders
  BY <1>6 DEF Resting, s, p, m, q
<1> QED BY <1>3, <1>5, <1>6

\* A fill maps to a fill with the best counterparty.
LEMMA FillRefines ==
  ASSUME IInv, Fill
  PROVE  \E m \in Order : Abstract!TradeWith(m)
<1> DEFINE s == Opposite(ord[taker].side)
           p == Head(prices[s])
           m == Head(levels[s][p].queue)
           q == Lesser(ord[taker].quantity, ord[m].quantity)
<1>1. /\ taker # None /\ CanMatch
      /\ ord' = [ord EXCEPT ![taker].quantity = @ - q, ![m].quantity = @ - q]
      /\ tape' = Append(tape, NewTrade(m, p, q))
      /\ UNCHANGED <<refused, taker, clock>>
  BY DEF Fill
<1>2. /\ s \in Side /\ p \in DOMAIN levels[s] /\ prices[s] # <<>>
      /\ m \in Resting /\ m \in DOMAIN ord /\ ord[taker].quantity > 0
      /\ ord[m].side = s /\ ord[m].price = p
  BY <1>1, BestMaker
<1>3. m \in Order
  BY <1>2 DEF IInv, TypeOK
<1>4. m \in Abstract!Counterparties
  <2>1. Accepts(ord[taker], p)
    BY <1>1 DEF CanMatch
  <2> HIDE DEF s, p, m, q
  <2>2. Crosses(ord[taker], ord[m])
    BY <1>2, <2>1 DEF Crosses, s
  <2> QED BY <1>2, <2>2, SharedVocabulary DEF Abstract!Counterparties
<1>5. Abstract!IsBest(m)
  <2>1. \A n \in Abstract!Counterparties \ {m} : Better(ord[m], ord[n])
    BY <1>1, BestMakerIsBest
  <2> HIDE DEF m
  <2> QED BY <2>1, SharedVocabulary DEF Abstract!IsBest
<1>6. Resting' = IF ord[m].quantity = q THEN Resting \ {m} ELSE Resting
  BY FillResting
<1> HIDE DEF s, p, m
<1>7. q = Abstract!Lesser(ord[taker].quantity, ord[m].quantity)
  BY SharedVocabulary
<1>8. tape' = Append(tape, [id |-> Len(tape) + 1, maker |-> m, taker |-> taker,
                            price |-> ord[m].price, quantity |-> q])
  BY <1>1, <1>2 DEF NewTrade
<1> HIDE DEF q
<1>9. Abstract!TradeWith(m)
  BY <1>1, <1>2, <1>4, <1>5, <1>6, <1>7, <1>8 DEF Abstract!TradeWith
<1> QED BY <1>3, <1>9

\* The end of the matching maps to the completion of the order.
LEMMA FinishRefines ==
  ASSUME IInv, Finish
  PROVE  Abstract!Complete
<1>1. taker # None /\ ~CanMatch /\ taker' = None /\ UNCHANGED <<ord, refused, tape, clock>>
  BY DEF Finish
<1>2. ord[taker].quantity = 0 \/ Abstract!Counterparties = {}
  BY <1>1, NoCounterparty
<1>3. Resting' = IF ord[taker].quantity > 0 /\ ord[taker].type = Limit
                 THEN Resting \cup {taker} ELSE Resting
  <2>1. CASE ord[taker].quantity > 0 /\ ord[taker].type = Limit
    <3>1. AddToBook(taker)
      BY <2>1 DEF Finish
    <3> QED BY <1>1, <2>1, <3>1, RestIInv
  <2>2. CASE ~(ord[taker].quantity > 0 /\ ord[taker].type = Limit)
    BY <2>2 DEF Finish, Resting
  <2> QED BY <2>1, <2>2
<1> QED BY <1>1, <1>2, <1>3, SharedVocabulary DEF Abstract!Complete

\* A cancel maps to a cancel, or to no step.
LEMMA CancelRefines ==
  ASSUME IInv, NEW id \in ID, CancelOrder(id)
  PROVE  (\E m \in Order : Abstract!Cancel(m)) \/ UNCHANGED Abstract!vars
<1>1. CASE id \notin DOMAIN orders
  BY <1>1 DEF CancelOrder, vars, Abstract!vars, Resting
<1>2. CASE id \in DOMAIN orders
  <2> DEFINE o == orders[id]
  <2>1. UNCHANGED <<ord, refused, taker, tape, clock>> /\ taker = None
    BY <1>2 DEF CancelOrder
  <2>2. o \in Resting /\ o \in Order /\ ord[o].id = id
    BY <1>2 DEF Resting, Range, IInv, TypeOK, BookConsistent, IndexedAreQueued
  <2>3. orders' = Delete(orders, id)
    BY <1>2, <2>2 DEF CancelOrder, TakeOff
  <2>4. \A i, j \in DOMAIN orders : orders[i] = orders[j] => i = j
    BY DEF IInv, BookConsistent, IndexedAreQueued
  <2>5. Resting' = Resting \ {o}
    BY <1>2, <2>3, <2>4 DEF Resting, Range, Delete
  <2> HIDE DEF o
  <2>6. Abstract!Cancel(o)
    BY <2>1, <2>2, <2>5 DEF Abstract!Cancel
  <2> QED BY <2>2, <2>6
<1> QED BY <1>1, <1>2

\* One step, by action.
LEMMA NextRefines ==
  ASSUME IInv, [Next]_vars
  PROVE  [Abstract!Next]_(Abstract!vars)
<1>1. ASSUME NEW o \in Order, NEW r \in Request, Refuse(o, r) \/ Accept(o, r)
      PROVE  Abstract!Next
  BY <1>1, RefuseRefines, AcceptRefines DEF Abstract!Next
<1>2. CASE Fill
  BY <1>2, FillRefines DEF Abstract!Next
<1>3. CASE Finish
  BY <1>3, FinishRefines DEF Abstract!Next
<1>4. ASSUME NEW id \in ID, CancelOrder(id)
      PROVE  [Abstract!Next]_(Abstract!vars)
  BY <1>4, CancelRefines DEF Abstract!Next
<1>5. CASE UNCHANGED vars
  BY <1>5 DEF vars, Abstract!vars, Resting
<1> QED BY <1>1, <1>2, <1>3, <1>4, <1>5 DEF Next

\* The book with its levels, queues, slices and index implements the book of
\* PriceTimePriority: each fill pairs the order with the best counterparty by
\* price, then time, at the counterparty's price.
THEOREM Refinement == Spec => ImplementsPriceTimePriority
<1>1. Init => Abstract!Init
  BY InitRefines
<1>2. IInv /\ [Next]_vars => [Abstract!Next]_(Abstract!vars)
  BY NextRefines
<1> QED BY <1>1, <1>2, Invariance, PTL DEF Spec, ImplementsPriceTimePriority, Abstract!Spec

-----------------------------------------------------------------------------
\* No step moves or revives an order that is neither resting nor being matched.
LEMMA GoneStays ==
  ASSUME IInv, [Next]_vars, NEW o \in DOMAIN ord, o # taker, o \notin Resting
  PROVE  o # taker' /\ o \notin Resting' /\ ord'[o] = ord[o]
<1>0. o \in Order /\ o # None
  BY OrdersAssumption DEF IInv, TypeOK
<1>1. ASSUME NEW n \in Order, NEW r \in Request, Refuse(n, r)
      PROVE  o # taker' /\ o \notin Resting' /\ ord'[o] = ord[o]
  BY <1>1 DEF Refuse, Resting
<1>2. ASSUME NEW n \in Order, NEW r \in Request, Accept(n, r)
      PROVE  o # taker' /\ o \notin Resting' /\ ord'[o] = ord[o]
  BY <1>2 DEF Accept, IsNew, Put, Resting
<1>3. CASE Fill
  <2>1. Resting' \subseteq Resting
    BY <1>3, FillResting
  <2>2. /\ taker' = taker /\ taker # None /\ CanMatch
        /\ \A n \in DOMAIN ord \ {taker, Head(levels[Opposite(ord[taker].side)]
                [Head(prices[Opposite(ord[taker].side)])].queue)} : ord'[n] = ord[n]
    BY <1>3, FillOrders
  <2>3. Head(levels[Opposite(ord[taker].side)]
                [Head(prices[Opposite(ord[taker].side)])].queue) \in Resting
    BY <2>2, BestMaker
  <2> QED BY <2>1, <2>2, <2>3
<1>4. CASE Finish
  <2>1. Abstract!Complete
    BY <1>4, FinishRefines
  <2> QED BY <1>0, <2>1 DEF Abstract!Complete
<1>5. ASSUME NEW id \in ID, CancelOrder(id)
      PROVE  o # taker' /\ o \notin Resting' /\ ord'[o] = ord[o]
  BY <1>5, CancelRefines DEF Abstract!Cancel, Abstract!vars
<1>6. CASE UNCHANGED vars
  BY <1>6 DEF vars, Resting
<1> QED BY <1>1, <1>2, <1>3, <1>4, <1>5, <1>6 DEF Next

\* A filled, cancelled or dropped order never trades or rests again.
THEOREM GoneIsForever == Spec => GoneForGood
<1>1. IInv /\ [Next]_vars =>
        [\A o \in DOMAIN ord :
           o # taker /\ o \notin Resting =>
             o # taker' /\ o \notin Resting' /\ ord'[o] = ord[o]]_vars
  BY GoneStays
<1> QED BY <1>1, Invariance, PTL DEF Spec, GoneForGood

-----------------------------------------------------------------------------
\* A step under the lock fills the taker, ends the matching or refuses another.
LEMMA MatchingProgresses ==
  ASSUME IInv, [Next]_vars, taker # None
  PROVE  \/ taker' = None
         \/ /\ taker' = taker
            /\ 0 <= ord'[taker].quantity /\ ord'[taker].quantity < ord[taker].quantity
         \/ UNCHANGED <<ord, levels, prices, orders, taker, tape, clock>>
<1>1. ASSUME NEW o \in Order, NEW r \in Request, Refuse(o, r) \/ Accept(o, r)
      PROVE  UNCHANGED <<ord, levels, prices, orders, taker, tape, clock>>
  BY <1>1 DEF Refuse, Accept
<1>2. CASE Fill
  <2> DEFINE m == Head(levels[Opposite(ord[taker].side)]
                         [Head(prices[Opposite(ord[taker].side)])].queue)
             q == Lesser(ord[taker].quantity, ord[m].quantity)
  <2>1. /\ q \in Nat \ {0} /\ q <= ord[taker].quantity
        /\ ord'[taker] = [ord[taker] EXCEPT !.quantity = @ - q]
        /\ taker' = taker
    BY <1>2, FillOrders
  <2>2. ord[taker] \in OrderRec
    BY DEF IInv, TypeOK
  <2> HIDE DEF q
  <2>3. ord'[taker].quantity = ord[taker].quantity - q /\ ord[taker].quantity \in Nat
    BY <2>1, <2>2 DEF OrderRec
  <2> QED BY <2>1, <2>3
<1>3. CASE Finish
  BY <1>3 DEF Finish
<1>4. ASSUME NEW id \in ID, CancelOrder(id)
      PROVE  FALSE
  BY <1>4 DEF CancelOrder
<1>5. CASE UNCHANGED vars
  BY <1>5 DEF vars
<1> QED BY <1>1, <1>2, <1>3, <1>4, <1>5 DEF Next

\* Each step of a match brings its end nearer, so the lock is not held for ever.
THEOREM MatchingEnds == Spec => MatchingBounded
<1>1. IInv /\ [Next]_vars =>
        [taker # None =>
           \/ taker' = None
           \/ /\ taker' = taker
              /\ 0 <= ord'[taker].quantity /\ ord'[taker].quantity < ord[taker].quantity
           \/ UNCHANGED <<ord, levels, prices, orders, taker, tape, clock>>]_vars
  BY MatchingProgresses
<1> QED BY <1>1, Invariance, PTL DEF Spec, MatchingBounded

-----------------------------------------------------------------------------
(* What was asked is what remains and what was traded. *)

\* The positions of l at which o traded.
FillsOn(l, o) == {i \in DOMAIN l : o \in {l[i].maker, l[i].taker}}

\* The tape names accepted orders only: with FilledExactly, an inductive
\* invariant once IInv is known.
FillsInv ==
  /\ \A i \in DOMAIN tape : tape[i].maker \in DOMAIN ord /\ tape[i].taker \in DOMAIN ord
  /\ \A o \in DOMAIN ord :
       ord[o].original = ord[o].quantity +
         SumFunctionOnSet(Quantities(tape), FillsOn(tape, o))

\* A list of trades, by position.
LEMMA TradesListed ==
  ASSUME NEW l \in Seq(Trade)
  PROVE  /\ \A i \in DOMAIN l : Quantities(l)[i] = l[i].quantity /\ l[i].quantity \in Nat
         /\ \A S \in SUBSET DOMAIN l : IsFiniteSet(S)
<1>1. Len(l) \in Nat /\ DOMAIN l = 1 .. Len(l)
  OBVIOUS
<1>2. \A i \in DOMAIN l : l[i] \in Trade
  OBVIOUS
<1>3. IsFiniteSet(DOMAIN l)
  BY <1>1, FS_Interval
<1>4. \A F \in SUBSET DOMAIN l : IsFiniteSet(F)
  BY <1>3, FS_Subset
<1>5. \A i \in DOMAIN l : l[i].quantity \in Nat
  BY <1>2 DEF Trade
<1>6. \A i \in DOMAIN l : Quantities(l)[i] = l[i].quantity
  BY DEF Quantities
<1>7. QED
  BY <1>4, <1>5, <1>6

\* A new trade is the last of the tape.
LEMMA FillsGrow ==
  ASSUME NEW l \in Seq(Trade), NEW e \in Trade, NEW o
  PROVE  LET k == Len(l) + 1
             more == Append(l, e)
         IN /\ SumFunctionOnSet(Quantities(l), FillsOn(l, o)) \in Int
            /\ SumFunctionOnSet(Quantities(more), FillsOn(more, o)) =
                 (IF o \in {e.maker, e.taker} THEN e.quantity ELSE 0) +
                   SumFunctionOnSet(Quantities(l), FillsOn(l, o))
<1> DEFINE k == Len(l) + 1
           more == Append(l, e)
           f == Quantities(l)
           g == Quantities(more)
           F == FillsOn(l, o)
           G == FillsOn(more, o)
<1>1. /\ more \in Seq(Trade) /\ DOMAIN l = 1 .. Len(l) /\ Len(l) \in Nat
      /\ DOMAIN more = 1 .. k /\ more[k] = e
      /\ \A i \in 1 .. Len(l) : more[i] = l[i]
  BY AppendProperties
<1>2. k \notin DOMAIN l /\ DOMAIN more = DOMAIN l \cup {k}
  BY <1>1
<1>3. \A i \in DOMAIN l : g[i] = f[i] /\ f[i] \in Nat
  <2>1. \A i \in DOMAIN more : g[i] = more[i].quantity
    BY DEF Quantities
  <2>2. \A i \in DOMAIN l : f[i] = l[i].quantity /\ f[i] \in Nat
    BY TradesListed
  <2> HIDE DEF f, g, more
  <2>3. QED
    BY <1>1, <1>2, <2>1, <2>2
<1>4. g[k] = e.quantity /\ g[k] \in Nat
  <2> HIDE DEF k
  <2>1. k \in DOMAIN more /\ more[k] = e
    BY <1>1, <1>2
  <2> HIDE DEF more
  <2>2. g[k] = more[k].quantity /\ g[k] \in Nat
    BY <1>1, <2>1, TradesListed
  <2>3. QED
    BY <2>1, <2>2
<1>5. F \in SUBSET DOMAIN l /\ IsFiniteSet(F)
  BY TradesListed DEF FillsOn
<1>6. G = IF o \in {e.maker, e.taker} THEN F \cup {k} ELSE F
  <2> HIDE DEF more, k
  <2>1. \A i \in DOMAIN l : more[i] = l[i]
    BY <1>1
  <2>2. QED
    BY <1>1, <1>2, <2>1 DEF FillsOn
<1> HIDE DEF f, g, F, G, k, more
<1>7. /\ SumFunctionOnSet(g, F) = SumFunctionOnSet(f, F)
      /\ SumFunctionOnSet(f, F) \in Int /\ SumFunctionOnSet(g, F) \in Int
  <2>1. \A i \in F : g[i] = f[i] /\ g[i] \in Int /\ f[i] \in Int
    BY <1>3, <1>5
  <2>2. QED
    BY <1>5, <2>1, SumOfSame, SumSplits
<1>8. SumFunctionOnSet(g, F \cup {k}) = e.quantity + SumFunctionOnSet(g, F)
  <2>1. k \notin F /\ g[k] \in Int /\ \A i \in F : g[i] \in Int
    BY <1>2, <1>3, <1>4, <1>5
  <2>2. QED
    BY <1>4, <1>5, <2>1, SumJoins
<1>9. SumFunctionOnSet(g, G) =
        (IF o \in {e.maker, e.taker} THEN e.quantity ELSE 0) + SumFunctionOnSet(f, F)
  BY <1>6, <1>7, <1>8
<1>10. QED
  BY <1>7, <1>9 DEF f, g, F, G, more

\* One trade takes as much from both its orders as it says.
LEMMA FillFillsInv ==
  ASSUME IInv, FillsInv, Fill
  PROVE  FillsInv'
<1> DEFINE s == Opposite(ord[taker].side)
           p == Head(prices[s])
           m == Head(levels[s][p].queue)
           q == Lesser(ord[taker].quantity, ord[m].quantity)
           e == NewTrade(m, p, q)
<1>1. /\ taker # None /\ CanMatch
      /\ q \in Nat \ {0}
      /\ DOMAIN ord' = DOMAIN ord
      /\ ord' \in [DOMAIN ord -> OrderRec]
      /\ \A n \in DOMAIN ord \ {taker, m} : ord'[n] = ord[n]
      /\ ord'[m] = [ord[m] EXCEPT !.quantity = @ - q]
      /\ ord'[taker] = [ord[taker] EXCEPT !.quantity = @ - q]
      /\ tape' = Append(tape, NewTrade(m, p, q))
      /\ tape' \in Seq(Trade)
  BY FillOrders
<1>2. /\ taker \in DOMAIN ord /\ m # taker /\ m \in DOMAIN ord
      /\ p \in DOMAIN levels[s] /\ s \in Side
  BY <1>1, BestMaker
<1>3. e.maker = m /\ e.taker = taker /\ e.quantity = q
  BY DEF NewTrade
<1> HIDE DEF s, p, m, q, e
<1>4. tape \in Seq(Trade) /\ ord \in [DOMAIN ord -> OrderRec]
  BY DEF IInv, TypeOK
<1>5. tape' = Append(tape, e)
  BY <1>1 DEF e
<1>6. e \in Trade
  <2>1. Len(tape) + 1 \in DOMAIN tape' /\ tape'[Len(tape) + 1] = e
    BY <1>4, <1>5
  <2>2. QED
    BY <1>1, <2>1
<1>7. \A i \in DOMAIN tape' : tape'[i].maker \in DOMAIN ord' /\ tape'[i].taker \in DOMAIN ord'
  <2>1. SUFFICES ASSUME NEW i \in DOMAIN tape'
                 PROVE  tape'[i].maker \in DOMAIN ord' /\ tape'[i].taker \in DOMAIN ord'
    OBVIOUS
  <2>2. (i \in DOMAIN tape /\ tape'[i] = tape[i]) \/ tape'[i] = e
    BY <1>4, <1>5, <1>6
  <2>3. QED
    BY <1>1, <1>2, <1>3, <2>2 DEF FillsInv
<1>8. ASSUME NEW o \in DOMAIN ord'
      PROVE  ord'[o].original = ord'[o].quantity +
               SumFunctionOnSet(Quantities(tape'), FillsOn(tape', o))
  <2> DEFINE was == SumFunctionOnSet(Quantities(tape), FillsOn(tape, o))
             is == SumFunctionOnSet(Quantities(tape'), FillsOn(tape', o))
  <2>1. was \in Int /\ is = (IF o \in {m, taker} THEN q ELSE 0) + was
    BY <1>3, <1>4, <1>5, <1>6, FillsGrow
  <2>2. o \in DOMAIN ord /\ ord[o].original = ord[o].quantity + was
    BY <1>1 DEF FillsInv
  <2>3. ord[o].quantity \in Int /\ ord[o].original \in Int
    BY <1>4, <2>2 DEF OrderRec
  <2>4. /\ ord'[o].original = ord[o].original
        /\ ord'[o].quantity = ord[o].quantity - (IF o \in {m, taker} THEN q ELSE 0)
    <3>1. ord[o] \in OrderRec
      BY <1>4, <2>2
    <3>2. CASE o \in {m, taker}
      <4>1. ord'[o] = [ord[o] EXCEPT !.quantity = ord[o].quantity - q]
        BY <1>1, <3>2
      <4>2. QED
        BY <3>1, <3>2, <4>1 DEF OrderRec
    <3>3. CASE o \notin {m, taker}
      BY <1>1, <2>2, <2>3, <3>3
    <3>4. QED
      BY <3>2, <3>3
  <2> HIDE DEF was, is
  <2>5. q \in Int
    BY <1>1
  <2>6. ord'[o].original = ord'[o].quantity + is
    BY <2>1, <2>2, <2>3, <2>4, <2>5
  <2>7. QED
    BY <2>6 DEF is
<1>9. QED
  BY <1>7, <1>8 DEF FillsInv

\* A new order has no trades yet.
LEMMA AcceptFillsInv ==
  ASSUME IInv, FillsInv, NEW o \in Order, NEW r \in Request, Accept(o, r)
  PROVE  FillsInv'
<1>1. /\ o \notin DOMAIN ord /\ Valid(r) /\ tape' = tape
      /\ ord' = Put(ord, o, Accepted(r, clock + 1))
  BY DEF Accept, IsNew
<1>2. Accepted(r, clock + 1).original = Accepted(r, clock + 1).quantity
      /\ Accepted(r, clock + 1).quantity \in Int
  BY OrdersAssumption DEF Accepted, RawRequest
<1>3. /\ DOMAIN ord' = DOMAIN ord \cup {o} /\ ord'[o] = Accepted(r, clock + 1)
      /\ \A n \in DOMAIN ord : ord'[n] = ord[n]
  BY <1>1 DEF Put
<1>4. FillsOn(tape, o) = {}
  BY <1>1 DEF FillsInv, FillsOn
<1>5. ord'[o].original = ord'[o].quantity +
        SumFunctionOnSet(Quantities(tape), FillsOn(tape, o))
  BY <1>2, <1>3, <1>4, SumOfNone
<1>6. QED
  BY <1>1, <1>3, <1>5 DEF FillsInv

\* FillsInv holds in every reachable state.
LEMMA FillsAlways == Spec => []FillsInv
<1>1. Init => FillsInv
  BY DEF Init, FillsInv, EmptyMap
<1>2. IInv /\ FillsInv /\ [Next]_vars => FillsInv'
  <2>1. SUFFICES ASSUME IInv, FillsInv, [Next]_vars PROVE FillsInv'
    OBVIOUS
  <2>2. CASE UNCHANGED <<ord, tape>>
    BY <2>1, <2>2 DEF FillsInv
  <2>3. ASSUME NEW o \in Order, NEW r \in Request, Refuse(o, r) \/ Accept(o, r)
        PROVE  FillsInv'
    BY <2>1, <2>2, <2>3, AcceptFillsInv DEF Refuse
  <2>4. CASE Fill
    BY <2>1, <2>4, FillFillsInv
  <2>5. CASE Finish
    BY <2>2, <2>5 DEF Finish
  <2>6. ASSUME NEW id \in ID, CancelOrder(id)
        PROVE  FillsInv'
    BY <2>2, <2>6 DEF CancelOrder, vars
  <2>7. CASE UNCHANGED vars
    BY <2>2, <2>7 DEF vars
  <2>8. QED
    BY <2>1, <2>3, <2>4, <2>5, <2>6, <2>7 DEF Next
<1>3. QED
  BY <1>1, <1>2, Invariance, PTL DEF Spec

\* FilledExactly holds in every reachable state.
THEOREM TradesAccountForOrders == Spec => []FilledExactly
<1>1. FillsInv => FilledExactly
  BY DEF FillsInv, FilledExactly, FillsOn
<1>2. QED
  BY <1>1, FillsAlways, PTL

-----------------------------------------------------------------------------
(* One change of the book per call. *)

\* The instance has the vocabulary of Orders and the library's operators.
LEMMA AtomicVocabulary ==
  /\ Abstract!Atomic!EmptyMap = EmptyMap
  /\ \A r : Abstract!Atomic!Valid(r) <=> Valid(r)
  /\ \A r, n : Abstract!Atomic!Accepted(r, n) = Accepted(r, n)
  /\ \A f, k, v : Abstract!Atomic!Put(f, k, v) = Put(f, k, v)
  /\ \A a, b : Abstract!Atomic!Lesser(a, b) = Lesser(a, b)
  /\ \A t, m : Abstract!Atomic!Crosses(t, m) <=> Crosses(t, m)
  /\ \A m, n : Abstract!Atomic!Better(m, n) <=> Better(m, n)
  /\ Abstract!Atomic!Limit = Limit
  /\ \A f, S : Abstract!Atomic!SumFunctionOnSet(f, S) = SumFunctionOnSet(f, S)
  /\ \A S : Abstract!Atomic!SetToSeqs(S) = SetToSeqs(S)
<1>1. Abstract!Atomic!EmptyMap = EmptyMap /\ Abstract!Atomic!Limit = Limit
  BY DEF EmptyMap, Abstract!Atomic!EmptyMap, Limit, Abstract!Atomic!Limit
<1>2. \A r : Abstract!Atomic!Valid(r) <=> Valid(r)
  BY DEF Valid, Abstract!Atomic!Valid, Side, Abstract!Atomic!Side, Buy,
         Abstract!Atomic!Buy, Sell, Abstract!Atomic!Sell, OrderType,
         Abstract!Atomic!OrderType, Limit, Abstract!Atomic!Limit, Market,
         Abstract!Atomic!Market, ValidPrice, Abstract!Atomic!ValidPrice
<1>3. \A r, n : Abstract!Atomic!Accepted(r, n) = Accepted(r, n)
  BY DEF Accepted, Abstract!Atomic!Accepted
<1>4. \A f, k, v : Abstract!Atomic!Put(f, k, v) = Put(f, k, v)
  BY DEF Put, Abstract!Atomic!Put
<1>5. \A a, b : Abstract!Atomic!Lesser(a, b) = Lesser(a, b)
  BY DEF Lesser, Abstract!Atomic!Lesser
<1>6. \A s, p, x : Abstract!Atomic!Precedes(s, p, x) <=> Precedes(s, p, x)
  BY DEF Precedes, Abstract!Atomic!Precedes, Buy, Abstract!Atomic!Buy
<1>7. \A s : Abstract!Atomic!Opposite(s) = Opposite(s)
  BY DEF Opposite, Abstract!Atomic!Opposite, Buy, Abstract!Atomic!Buy, Sell,
         Abstract!Atomic!Sell
<1>8. \A t, m : Abstract!Atomic!Crosses(t, m) <=> Crosses(t, m)
  BY <1>6, <1>7 DEF Crosses, Abstract!Atomic!Crosses, Accepts,
                    Abstract!Atomic!Accepts, Market, Abstract!Atomic!Market
<1>9. \A m, n : Abstract!Atomic!Better(m, n) <=> Better(m, n)
  BY <1>6 DEF Better, Abstract!Atomic!Better
<1>10. \A f, S : Abstract!Atomic!SumFunctionOnSet(f, S) = SumFunctionOnSet(f, S)
  BY DEF SumFunctionOnSet, FoldFunctionOnSet, MapThenFoldSet,
         Abstract!Atomic!SumFunctionOnSet, Abstract!Atomic!FoldFunctionOnSet,
         Abstract!Atomic!MapThenFoldSet
<1>11. \A S : Abstract!Atomic!SetToSeqs(S) = SetToSeqs(S)
  <2>1. \A S : Abstract!Atomic!Cardinality(S) = Cardinality(S)
    BY DEF Cardinality, Abstract!Atomic!Cardinality
  <2> QED BY <2>1 DEF SetToSeqs, Abstract!Atomic!SetToSeqs
<1> QED BY <1>1, <1>2, <1>3, <1>4, <1>5, <1>8, <1>9, <1>10, <1>11

-----------------------------------------------------------------------------
(* What holds in the middle of a match. *)

\* Records of one order that differ in what remains of it at most.
Same(x, y) ==
  /\ x.id = y.id /\ x.side = y.side /\ x.type = y.type /\ x.price = y.price
  /\ x.original = y.original /\ x.ts = y.ts

\* Neither crossing nor priority depends on what remains.
LEMMA SamePriority ==
  ASSUME NEW a, NEW b, Same(a, b), NEW c, NEW d, Same(c, d)
  PROVE  /\ Crosses(a, c) <=> Crosses(b, d)
         /\ Better(a, c) <=> Better(b, d)
BY DEF Same, Crosses, Better, Accepts

\* Priority is strict, and total between the orders of a side.
LEMMA PriorityOrders ==
  ASSUME NEW a \in OrderRec, NEW b \in OrderRec, NEW c \in OrderRec,
         a.side = b.side, b.side = c.side
  PROVE  /\ ~Better(a, a)
         /\ ~(Better(a, b) /\ Better(b, a))
         /\ a.ts # b.ts => Better(a, b) \/ Better(b, a)
         /\ Better(a, b) /\ Better(b, c) => Better(a, c)
<1>1. /\ a.price \in Int /\ b.price \in Int /\ c.price \in Int
      /\ a.ts \in Int /\ b.ts \in Int /\ c.ts \in Int
  BY DEF OrderRec
<1>2. QED
  BY <1>1 DEF Better, Precedes

\* Trade i of the order being matched: of an order its price accepts, at that
\* order's price; nothing is left of one of the two; the trades that follow are
\* its own too, with orders of less priority, and whoever it could still trade
\* with has less priority as well.
OwnTrade(i) ==
  LET m == tape[i].maker
  IN /\ tape[i].id = i /\ tape[i].price = ord[m].price
     /\ ord[m].id # ord[taker].id
     /\ Crosses(ord[taker], ord[m])
     /\ IF m \in Resting THEN ord[taker].quantity = 0 ELSE ord[m].quantity = 0
     /\ \A j \in DOMAIN tape :
          i < j => tape[j].taker = taker /\ Better(ord[m], ord[tape[j].maker])
     /\ \A n \in Resting \ {m} :
          Crosses(ord[taker], ord[n]) => Better(ord[m], ord[n])

\* The order being matched is an accepted request, has traded as a taker only,
\* and in the order of priority.
Matching ==
  /\ \E r \in Request : /\ Valid(r)
                        /\ Same(ord[taker], Accepted(r, clock))
                        /\ ord[taker].original = r.quantity
  /\ \A i \in DOMAIN tape :
       tape[i].maker # taker /\ (tape[i].taker = taker => OwnTrade(i))

\* With IInv and FillsInv, the inductive invariant of the refinement.
MatchInv == IsFiniteSet(Resting) /\ (taker # None => Matching)

\* What TypeOK and the structures say of the orders on the book.
LEMMA BookFacts ==
  ASSUME IInv
  PROVE  /\ DOMAIN ord \subseteq Order /\ None \notin DOMAIN ord
         /\ \A o \in DOMAIN ord : ord[o] \in OrderRec
         /\ \A o, n \in DOMAIN ord : ord[o].ts = ord[n].ts => o = n
         /\ tape \in Seq(Trade) /\ DOMAIN tape = 1 .. Len(tape) /\ Len(tape) \in Nat
         /\ clock \in Nat
         /\ \A m \in Resting : /\ m \in DOMAIN ord /\ ord[m].quantity > 0
                               /\ ord[m].id \in DOMAIN orders
                               /\ m # taker
         /\ taker # None => /\ taker \in DOMAIN ord /\ taker \notin refused
                            /\ ord[taker].id \notin DOMAIN orders
                            /\ ord[taker].ts = clock
<1>1. /\ DOMAIN ord \subseteq Order /\ ord \in [DOMAIN ord -> OrderRec]
      /\ taker \in DOMAIN ord \cup {None}
      /\ tape \in Seq(Trade) /\ clock \in Nat
  BY DEF IInv, TypeOK
<1>2. /\ \A o, n \in DOMAIN ord : ord[o].ts = ord[n].ts => o = n
      /\ DOMAIN ord \cap refused = {}
      /\ taker # None => ord[taker].ts = clock /\ ord[taker].id \notin DOMAIN orders
  BY DEF IInv, StampsOK
<1>3. None \notin DOMAIN ord
  BY <1>1, OrdersAssumption
<1>4. DOMAIN tape = 1 .. Len(tape) /\ Len(tape) \in Nat
  BY <1>1
<1>5. ASSUME NEW m \in Resting
      PROVE  /\ m \in DOMAIN ord /\ ord[m].quantity > 0
             /\ ord[m].id \in DOMAIN orders /\ m # taker
  <2>1. /\ m \in DOMAIN ord /\ ord[m].side \in Side
        /\ ord[m].price \in DOMAIN levels[ord[m].side]
        /\ ord[m].id \in DOMAIN orders
        /\ \E i \in DOMAIN Queue(ord[m].side, ord[m].price) :
             Queue(ord[m].side, ord[m].price)[i] = m
    BY Indexed
  <2>2. ord[m].quantity > 0
    BY <2>1, Queued
  <2>3. m # taker
    BY <1>2, <1>3, <2>1
  <2>4. QED
    BY <2>1, <2>2, <2>3
<1>6. QED
  BY <1>1, <1>2, <1>3, <1>4, <1>5

\* The taker trades q with m.
Trades(m, q) ==
  /\ taker # None /\ taker' = taker
  /\ m \in Resting /\ m \in DOMAIN ord /\ m # taker
  /\ Crosses(ord[taker], ord[m])
  /\ \A n \in Resting \ {m} : Crosses(ord[taker], ord[n]) => Better(ord[m], ord[n])
  /\ ord[taker].quantity > 0 /\ q \in Nat \ {0}
  /\ q <= ord[taker].quantity /\ q <= ord[m].quantity
  /\ q = ord[taker].quantity \/ q = ord[m].quantity
  /\ DOMAIN ord' = DOMAIN ord
  /\ \A n \in DOMAIN ord : Same(ord'[n], ord[n]) /\ ord'[n] \in OrderRec
  /\ \A n \in DOMAIN ord \ {taker, m} : ord'[n] = ord[n]
  /\ ord'[m] = [ord[m] EXCEPT !.quantity = @ - q]
  /\ ord'[m].quantity = ord[m].quantity - q
  /\ ord'[taker].quantity = ord[taker].quantity - q
  /\ tape' = Append(tape, [id |-> Len(tape) + 1, maker |-> m, taker |-> taker,
                           price |-> ord[m].price, quantity |-> q])
  /\ Resting' = IF ord[m].quantity = q THEN Resting \ {m} ELSE Resting
  /\ refused' = refused /\ clock' = clock

\* What a fill is, without the structures.
LEMMA FillTrades ==
  ASSUME IInv, Fill
  PROVE  \E m \in Order, q \in Nat : Trades(m, q)
<1> DEFINE s == Opposite(ord[taker].side)
           p == Head(prices[s])
           m == Head(levels[s][p].queue)
           q == Lesser(ord[taker].quantity, ord[m].quantity)
<1>1. /\ taker # None /\ CanMatch
      /\ q \in Nat \ {0} /\ q <= ord[taker].quantity /\ q <= ord[m].quantity
      /\ DOMAIN ord' = DOMAIN ord
      /\ ord' \in [DOMAIN ord -> OrderRec]
      /\ \A n \in DOMAIN ord \ {taker, m} : ord'[n] = ord[n]
      /\ ord'[m] = [ord[m] EXCEPT !.quantity = @ - q]
      /\ ord'[taker] = [ord[taker] EXCEPT !.quantity = @ - q]
      /\ tape' = Append(tape, NewTrade(m, p, q))
      /\ refused' = refused /\ taker' = taker /\ clock' = clock
  BY FillOrders
<1>2. /\ taker \in DOMAIN ord /\ ord[taker] \in OrderRec
      /\ ord[taker].quantity > 0
      /\ m \in Resting /\ m # taker /\ m \in DOMAIN ord
      /\ ord[m] \in OrderRec /\ ord[m].side = s /\ ord[m].price = p
  BY <1>1, BestMaker
<1>3. \A n \in Resting \ {m} : Crosses(ord[taker], ord[n]) => Better(ord[m], ord[n])
  <2>1. \A n \in Abstract!Counterparties \ {m} : Better(ord[m], ord[n])
    BY <1>1, BestMakerIsBest
  <2> HIDE DEF m
  <2>2. QED
    BY <2>1, SharedVocabulary DEF Abstract!Counterparties
<1>4. Crosses(ord[taker], ord[m])
  <2>1. Accepts(ord[taker], p)
    BY <1>1 DEF CanMatch
  <2> HIDE DEF p, m, q
  <2>2. QED
    BY <1>2, <2>1 DEF Crosses, s
<1>5. Resting' = IF ord[m].quantity = q THEN Resting \ {m} ELSE Resting
  BY FillResting
<1>6. q = ord[taker].quantity \/ q = ord[m].quantity
  BY DEF Lesser
<1>7. m \in Order
  BY <1>2, BookFacts
<1> HIDE DEF s, p, m, q
<1>8. tape' = Append(tape, [id |-> Len(tape) + 1, maker |-> m, taker |-> taker,
                            price |-> ord[m].price, quantity |-> q])
  BY <1>1, <1>2 DEF NewTrade
<1>9. /\ Same(ord'[m], ord[m]) /\ ord'[m].quantity = ord[m].quantity - q
      /\ Same(ord'[taker], ord[taker])
      /\ ord'[taker].quantity = ord[taker].quantity - q
  <2>1. /\ ord'[m] = [ord[m] EXCEPT !.quantity = ord[m].quantity - q]
        /\ ord'[taker] = [ord[taker] EXCEPT !.quantity = ord[taker].quantity - q]
    BY <1>1
  <2>2. QED
    BY <1>2, <2>1 DEF OrderRec, Same
<1>10. \A n \in DOMAIN ord : Same(ord'[n], ord[n]) /\ ord'[n] \in OrderRec
  BY <1>1, <1>9 DEF Same
<1>11. Trades(m, q)
  BY <1>1, <1>2, <1>3, <1>4, <1>5, <1>6, <1>8, <1>9, <1>10 DEF Trades
<1>12. QED
  BY <1>1, <1>7, <1>11

\* A request accepted has not traded yet.
LEMMA AcceptMatchInv ==
  ASSUME IInv, FillsInv, MatchInv, NEW o \in Order, NEW r \in Request, Accept(o, r)
  PROVE  MatchInv'
<1>1. /\ o \notin DOMAIN ord /\ Valid(r) /\ tape' = tape /\ taker' = o
      /\ clock' = clock + 1 /\ orders' = orders
      /\ ord' = Put(ord, o, Accepted(r, clock + 1))
  BY DEF Accept, IsNew
<1>2. ord'[o] = Accepted(r, clock + 1)
  BY <1>1 DEF Put
<1>3. ord'[o].original = r.quantity /\ Same(ord'[o], Accepted(r, clock'))
  BY <1>1, <1>2 DEF Same, Accepted
<1>4. \A i \in DOMAIN tape : tape[i].maker # o /\ tape[i].taker # o
  BY <1>1 DEF FillsInv
<1>5. Matching'
  BY <1>1, <1>3, <1>4 DEF Matching
<1>6. IsFiniteSet(Resting')
  BY <1>1 DEF MatchInv, Resting
<1>7. QED
  BY <1>5, <1>6 DEF MatchInv

\* The place a trade takes on the tape.
LEMMA TapeGrows ==
  ASSUME IInv, NEW m, NEW q, Trades(m, q)
  PROVE  LET k == Len(tape) + 1
         IN /\ DOMAIN tape = 1 .. Len(tape) /\ Len(tape) \in Nat
            /\ DOMAIN tape' = DOMAIN tape \cup {k} /\ k \notin DOMAIN tape
            /\ \A i \in DOMAIN tape : tape'[i] = tape[i] /\ i < k
            /\ tape'[k].id = k /\ tape'[k].maker = m /\ tape'[k].taker = taker
            /\ tape'[k].price = ord[m].price /\ tape'[k].quantity = q
<1> DEFINE k == Len(tape) + 1
           e == [id |-> k, maker |-> m, taker |-> taker,
                 price |-> ord[m].price, quantity |-> q]
<1>1. tape \in Seq(Trade) /\ DOMAIN tape = 1 .. Len(tape) /\ Len(tape) \in Nat
  BY BookFacts
<1>2. tape' = Append(tape, e)
  BY DEF Trades
<1>3. /\ e.id = k /\ e.maker = m /\ e.taker = taker
      /\ e.price = ord[m].price /\ e.quantity = q
  OBVIOUS
<1> HIDE DEF e
<1>4. /\ Len(tape') = k /\ DOMAIN tape' = 1 .. k /\ tape'[k] = e
      /\ \A i \in 1 .. Len(tape) : tape'[i] = tape[i]
  BY <1>1, <1>2, AppendProperties
<1>5. 1 .. k = 1 .. Len(tape) \cup {k} /\ \A i \in 1 .. Len(tape) : i < k
  BY <1>1
<1>6. QED
  BY <1>1, <1>3, <1>4, <1>5

\* The trade of an order with the best of its counterparties.
LEMMA FillMatchInv ==
  ASSUME IInv, FillsInv, MatchInv, NEW m, NEW q, Trades(m, q)
  PROVE  MatchInv'
<1>0. PICK k : k = Len(tape) + 1
  OBVIOUS
<1>1. /\ DOMAIN tape = 1 .. Len(tape) /\ Len(tape) \in Nat
      /\ DOMAIN tape' = DOMAIN tape \cup {k} /\ k \notin DOMAIN tape
      /\ \A i \in DOMAIN tape : tape'[i] = tape[i] /\ i < k
      /\ tape'[k].id = k /\ tape'[k].maker = m /\ tape'[k].taker = taker
      /\ tape'[k].price = ord[m].price
  BY <1>0, TapeGrows
<1>2. /\ taker # None /\ taker' = taker
      /\ m \in Resting /\ m \in DOMAIN ord /\ m # taker
      /\ Crosses(ord[taker], ord[m])
      /\ \A n \in Resting \ {m} : Crosses(ord[taker], ord[n]) => Better(ord[m], ord[n])
      /\ ord[taker].quantity > 0 /\ q \in Nat
      /\ q = ord[taker].quantity \/ q = ord[m].quantity
      /\ DOMAIN ord' = DOMAIN ord
      /\ \A n \in DOMAIN ord : Same(ord'[n], ord[n])
      /\ \A n \in DOMAIN ord \ {taker, m} : ord'[n] = ord[n]
      /\ ord'[m].quantity = ord[m].quantity - q
      /\ ord'[taker].quantity = ord[taker].quantity - q
      /\ Resting' = IF ord[m].quantity = q THEN Resting \ {m} ELSE Resting
      /\ clock' = clock
  BY DEF Trades
<1>3. /\ taker \in DOMAIN ord /\ ord[taker] \in OrderRec /\ ord[m] \in OrderRec
      /\ ord[taker].id \notin DOMAIN orders
      /\ \A n \in Resting : n \in DOMAIN ord /\ ord[n].id \in DOMAIN orders
  BY <1>2, BookFacts
<1>4. Matching
  BY <1>2 DEF MatchInv
<1>5. Resting' \subseteq Resting
  BY <1>2
<1>6. \A n \in DOMAIN ord : Crosses(ord'[taker], ord'[n]) <=> Crosses(ord[taker], ord[n])
  BY <1>2, <1>3, SamePriority
<1>7. \A n, l \in DOMAIN ord : Better(ord'[n], ord'[l]) <=> Better(ord[n], ord[l])
  BY <1>2, SamePriority
<1>8. \A n \in DOMAIN ord : /\ ord'[n].id = ord[n].id /\ ord'[n].price = ord[n].price
                            /\ ord'[n].original = ord[n].original
  BY <1>2 DEF Same
<1>9. ASSUME NEW i \in DOMAIN tape, tape[i].taker = taker
      PROVE  OwnTrade(i)'
  <2> DEFINE n == tape[i].maker
  <2>1. /\ tape[i].id = i /\ tape[i].price = ord[n].price
        /\ ord[n].id # ord[taker].id
        /\ Crosses(ord[taker], ord[n])
        /\ IF n \in Resting THEN ord[taker].quantity = 0 ELSE ord[n].quantity = 0
        /\ \A j \in DOMAIN tape :
             i < j => tape[j].taker = taker /\ Better(ord[n], ord[tape[j].maker])
        /\ \A l \in Resting \ {n} :
             Crosses(ord[taker], ord[l]) => Better(ord[n], ord[l])
    BY <1>4, <1>9 DEF Matching, OwnTrade
  <2>2. n \notin Resting /\ n # m /\ ord[n].quantity = 0 /\ n # taker
    BY <1>2, <1>3, <1>4, <2>1 DEF Matching
  <2>3. \A j \in DOMAIN tape : tape[j].maker \in DOMAIN ord
    BY DEF FillsInv
  <2>4. n \in DOMAIN ord /\ tape'[i] = tape[i]
    BY <1>1, <2>3
  <2> HIDE DEF n
  <2>5. n \notin Resting' /\ ord'[n].quantity = 0
    BY <1>2, <1>5, <2>2, <2>4
  <2>6. ord'[n].id # ord'[taker].id /\ tape[i].price = ord'[n].price
        /\ Crosses(ord'[taker], ord'[n])
    BY <1>3, <1>6, <1>8, <2>1, <2>4
  <2>7. \A j \in DOMAIN tape' :
          i < j => tape'[j].taker = taker /\ Better(ord'[n], ord'[tape'[j].maker])
    <3>1. \A j \in DOMAIN tape :
            i < j => tape'[j].taker = taker /\ Better(ord'[n], ord'[tape'[j].maker])
      BY <1>1, <1>7, <2>1, <2>3, <2>4
    <3>2. tape'[k].taker = taker /\ Better(ord'[n], ord'[tape'[k].maker])
      BY <1>1, <1>2, <1>7, <2>1, <2>2, <2>4
    <3>3. QED
      BY <1>1, <3>1, <3>2
  <2>8. \A l \in Resting' \ {n} :
          Crosses(ord'[taker], ord'[l]) => Better(ord'[n], ord'[l])
    BY <1>3, <1>5, <1>6, <1>7, <2>1, <2>4
  <2>9. tape'[i].maker = n /\ tape'[i].id = i /\ tape'[i].price = tape[i].price
    BY <2>1, <2>4 DEF n
  <2>10. QED
    BY <1>2, <2>5, <2>6, <2>7, <2>8, <2>9 DEF OwnTrade
<1>10. OwnTrade(k)'
  <2>1. ord'[m].id # ord'[taker].id /\ tape'[k].price = ord'[m].price
        /\ Crosses(ord'[taker], ord'[m])
    BY <1>1, <1>2, <1>3, <1>6, <1>8
  <2>2. IF m \in Resting' THEN ord'[taker].quantity = 0 ELSE ord'[m].quantity = 0
    <3>1. ord[m].quantity \in Int /\ ord[taker].quantity \in Int
      BY <1>3 DEF OrderRec
    <3>2. QED
      BY <1>2, <3>1
  <2>3. \A j \in DOMAIN tape' : ~(k < j)
    BY <1>0, <1>1
  <2>4. \A l \in Resting' \ {m} :
          Crosses(ord'[taker], ord'[l]) => Better(ord'[m], ord'[l])
    BY <1>2, <1>3, <1>5, <1>6, <1>7
  <2>5. QED
    BY <1>1, <1>2, <2>1, <2>2, <2>3, <2>4 DEF OwnTrade
<1>11. \A i \in DOMAIN tape' :
         tape'[i].maker # taker' /\ (tape'[i].taker = taker' => OwnTrade(i)')
  <2>1. \A i \in DOMAIN tape : tape[i].maker # taker
    BY <1>4 DEF Matching
  <2>2. SUFFICES ASSUME NEW i \in DOMAIN tape'
                 PROVE  tape'[i].maker # taker /\ (tape'[i].taker = taker => OwnTrade(i)')
    BY <1>2
  <2>3. CASE i = k
    <3>1. tape'[i].maker = m /\ OwnTrade(i)'
      BY <1>1, <1>10, <2>3
    <3>2. QED
      BY <1>2, <3>1
  <2>4. CASE i \in DOMAIN tape
    <3>1. tape'[i] = tape[i]
      BY <1>1, <2>4
    <3>2. QED
      BY <1>9, <2>1, <2>4, <3>1
  <2>5. QED
    BY <1>1, <2>2, <2>3, <2>4
<1>12. \E r \in Request : /\ Valid(r)
                          /\ Same(ord'[taker'], Accepted(r, clock'))
                          /\ ord'[taker'].original = r.quantity
  <2>1. PICK r \in Request : /\ Valid(r)
                             /\ Same(ord[taker], Accepted(r, clock))
                             /\ ord[taker].original = r.quantity
    BY <1>4 DEF Matching
  <2>2. Same(ord'[taker], ord[taker])
    BY <1>2, <1>3
  <2>3. Same(ord'[taker'], Accepted(r, clock')) /\ ord'[taker'].original = r.quantity
    BY <1>2, <2>1, <2>2 DEF Same
  <2>4. QED
    BY <2>1, <2>3
<1>13. Matching'
  BY <1>11, <1>12 DEF Matching
<1>14. IsFiniteSet(Resting')
  BY <1>5, FS_Subset DEF MatchInv
<1>15. QED
  BY <1>13, <1>14 DEF MatchInv

\* One step, by action.
LEMMA NextMatchInv ==
  ASSUME IInv, FillsInv, MatchInv, [Next]_vars
  PROVE  MatchInv'
<1>1. CASE UNCHANGED <<ord, orders, taker, tape, clock>>
  <2>1. ord' = ord /\ orders' = orders /\ taker' = taker /\ tape' = tape /\ clock' = clock
    BY <1>1
  <2>2. QED
    BY <2>1 DEF MatchInv, Matching, OwnTrade, Resting
<1>2. ASSUME NEW o \in Order, NEW r \in Request, Refuse(o, r) \/ Accept(o, r)
      PROVE  MatchInv'
  BY <1>1, <1>2, AcceptMatchInv DEF Refuse
<1>3. CASE Fill
  BY <1>3, FillTrades, FillMatchInv
<1>4. CASE Finish
  <2>1. Abstract!Complete
    BY <1>4, FinishRefines
  <2>2. taker' = None /\ Resting' \subseteq Resting \cup {taker}
    BY <2>1 DEF Abstract!Complete
  <2>3. IsFiniteSet(Resting \cup {taker})
    BY FS_AddElement DEF MatchInv
  <2>4. IsFiniteSet(Resting')
    BY <2>2, <2>3, FS_Subset
  <2>5. QED
    BY <2>2, <2>4 DEF MatchInv
<1>5. ASSUME NEW id \in ID, CancelOrder(id)
      PROVE  MatchInv'
  <2>1. (\E m \in Order : Abstract!Cancel(m)) \/ UNCHANGED Abstract!vars
    BY <1>5, CancelRefines
  <2>2. taker = None /\ taker' = taker
    BY <1>5 DEF CancelOrder, vars
  <2>3. Resting' \subseteq Resting
    BY <2>1 DEF Abstract!Cancel, Abstract!vars
  <2>4. IsFiniteSet(Resting')
    BY <2>3, FS_Subset DEF MatchInv
  <2>5. QED
    BY <2>2, <2>4 DEF MatchInv
<1>6. CASE UNCHANGED vars
  BY <1>1, <1>6 DEF vars
<1>7. QED
  BY <1>2, <1>3, <1>4, <1>5, <1>6 DEF Next

-----------------------------------------------------------------------------
(* What the callers see before and between fills. *)

\* The state before the call, when the call has not traded.
Undone ==
  /\ Abstract!OrdBefore = [o \in DOMAIN ord \ {taker} |-> ord[o]]
  /\ Abstract!RestingBefore = Resting
  /\ Abstract!TapeBefore = tape
  /\ \A m : Abstract!OwnFillOf(m) = 0

\* A call that has not traded has nothing to undo.
LEMMA Unfilled == IInv /\ Abstract!OwnFills = {} => Undone
<1> SUFFICES ASSUME IInv, Abstract!OwnFills = {} PROVE Undone
  OBVIOUS
<1>1. \A m : Abstract!OwnFillOf(m) = 0
  BY DEF Abstract!OwnFillOf
<1>2. \A o \in DOMAIN ord : [ord[o] EXCEPT !.quantity = ord[o].quantity + 0] = ord[o]
  <2>1. \A o \in DOMAIN ord : ord[o] \in OrderRec
    BY BookFacts
  <2>2. \A r \in OrderRec : [r EXCEPT !.quantity = r.quantity + 0] = r
    BY DEF OrderRec
  <2>3. QED
    BY <2>1, <2>2
<1>3. Abstract!OrdBefore = [o \in DOMAIN ord \ {taker} |->
                              [ord[o] EXCEPT !.quantity = ord[o].quantity + 0]]
  BY <1>1 DEF Abstract!OrdBefore
<1>4. Abstract!OrdBefore = [o \in DOMAIN ord \ {taker} |-> ord[o]]
  BY <1>2, <1>3
<1>5. Abstract!RestingBefore = Resting
  BY DEF Abstract!RestingBefore
<1>6. Abstract!TapeBefore = tape
  <2>1. tape \in Seq(Trade)
    BY BookFacts
  <2>2. Abstract!TapeBefore = [i \in DOMAIN tape |-> tape[i]]
    BY DEF Abstract!TapeBefore
  <2>3. QED
    BY <2>1, <2>2
<1>7. QED
  BY <1>1, <1>4, <1>5, <1>6 DEF Undone

\* So it is after every step.
LEMMA UnfilledNext == (IInv /\ Abstract!OwnFills = {})' => Undone'
BY Unfilled, PTL

\* Between two calls the callers see the book as it is.
Seen ==
  /\ Abstract!OrdBefore = ord /\ Abstract!RestingBefore = Resting
  /\ Abstract!TapeBefore = tape /\ Abstract!ClockBefore = clock

\* Nobody has trades of no order.
LEMMA BetweenCalls == IInv /\ taker = None => Undone /\ Seen
<1> SUFFICES ASSUME IInv, taker = None PROVE Undone /\ Seen
  OBVIOUS
<1>1. Abstract!OwnFills = {}
  <2>1. \A i \in DOMAIN tape : tape[i] \in Trade
    BY BookFacts
  <2>2. \A i \in DOMAIN tape : tape[i].taker \in Order
    BY <2>1 DEF Trade
  <2>3. QED
    BY <2>2, OrdersAssumption DEF Abstract!OwnFills
<1>2. Undone
  BY <1>1, Unfilled
<1>3. ord \in [DOMAIN ord -> OrderRec] /\ DOMAIN ord \ {None} = DOMAIN ord
  BY BookFacts DEF IInv, TypeOK
<1>4. ord = [o \in DOMAIN ord \ {taker} |-> ord[o]]
  BY <1>3
<1>5. QED
  BY <1>2, <1>4 DEF Undone, Seen, Abstract!ClockBefore

\* And after every step.
LEMMA BetweenCallsNext == (IInv /\ taker = None)' => (Undone /\ Seen)'
BY BetweenCalls, PTL

\* A step inside a call changes nothing of what the callers see.
AtomicUnchanged ==
  UNCHANGED <<Abstract!OrdBefore, Abstract!RestingBefore, Abstract!TapeBefore,
              Abstract!ClockBefore>>

\* The trades of the order being matched: one per maker, each telling what
\* that maker lost to it.
LEMMA OwnFillsKnown ==
  ASSUME IInv, FillsInv, MatchInv, taker # None
  PROVE  /\ \A i \in Abstract!OwnFills :
              /\ i \in DOMAIN tape /\ tape[i].taker = taker
              /\ tape[i].maker \in DOMAIN ord \ {taker}
              /\ tape[i].quantity \in Nat \ {0}
              /\ Abstract!OwnFillOf(tape[i].maker) = tape[i].quantity
              /\ OwnTrade(i)
         /\ \A i, j \in Abstract!OwnFills : tape[i].maker = tape[j].maker => i = j
         /\ \A m : (\A i \in Abstract!OwnFills : tape[i].maker # m)
                     => Abstract!OwnFillOf(m) = 0
<1> DEFINE Own == Abstract!OwnFills
<1>1. \A i \in DOMAIN tape : i \in Own <=> tape[i].taker = taker
  BY DEF Abstract!OwnFills
<1>2. Own \subseteq DOMAIN tape /\ \A i \in Own : i \in Nat
  BY BookFacts DEF Abstract!OwnFills
<1>3. Matching
  BY DEF MatchInv
<1>4. \A i \in Own : OwnTrade(i) /\ tape[i].maker # taker
  BY <1>1, <1>2, <1>3 DEF Matching
<1>5. \A i \in DOMAIN tape : tape[i].quantity \in Nat \ {0} /\ tape[i].maker \in DOMAIN ord
  <2>1. \A i \in DOMAIN tape : tape[i] \in Trade
    BY BookFacts
  <2>2. QED
    BY <2>1 DEF FillsInv, Trade
<1>6. \A i, j \in Own : i < j => Better(ord[tape[i].maker], ord[tape[j].maker])
  <2>1. ASSUME NEW i \in Own, NEW j \in Own, i < j
        PROVE  Better(ord[tape[i].maker], ord[tape[j].maker])
    BY <1>2, <1>4, <2>1 DEF OwnTrade
  <2>2. QED
    BY <2>1
<1>7. \A i, j \in Own : tape[i].maker = tape[j].maker => i = j
  <2>1. SUFFICES ASSUME NEW i \in Own, NEW j \in Own, tape[i].maker = tape[j].maker
                 PROVE  i = j
    OBVIOUS
  <2>2. ord[tape[i].maker] \in OrderRec
    BY <1>2, <1>5, BookFacts
  <2>3. ~Better(ord[tape[i].maker], ord[tape[i].maker])
    BY <2>2, PriorityOrders
  <2>4. ~(i < j) /\ ~(j < i)
    BY <1>6, <2>1, <2>3
  <2>5. QED
    BY <1>2, <2>4
<1> HIDE DEF Own
<1>8. \A m : Abstract!OwnFillOf(m) =
        IF {i \in Own : tape[i].maker = m} = {} THEN 0
        ELSE tape[CHOOSE i \in {i \in Own : tape[i].maker = m} : TRUE].quantity
  BY DEF Abstract!OwnFillOf, Own
<1>9. ASSUME NEW i \in Own
      PROVE  Abstract!OwnFillOf(tape[i].maker) = tape[i].quantity
  <2>1. {j \in Own : tape[j].maker = tape[i].maker} = {i}
    BY <1>7
  <2>2. (CHOOSE j \in {i} : TRUE) = i
    OBVIOUS
  <2>3. QED
    BY <1>8, <2>1, <2>2
<1>10. \A m : (\A i \in Own : tape[i].maker # m) => Abstract!OwnFillOf(m) = 0
  BY <1>8
<1>11. QED
  BY <1>1, <1>2, <1>4, <1>5, <1>7, <1>9, <1>10 DEF Own

\* Taking from an order and giving it back.
LEMMA GivenBack ==
  ASSUME NEW r \in OrderRec, NEW x \in Nat,
         NEW s, s = [r EXCEPT !.quantity = r.quantity - x]
  PROVE  [s EXCEPT !.quantity = s.quantity + x] = [r EXCEPT !.quantity = r.quantity + 0]
<1>1. r.quantity \in Int /\ s.quantity = r.quantity - x
  BY DEF OrderRec
<1>2. s.quantity + x = r.quantity + 0
  BY <1>1
<1>3. [s EXCEPT !.quantity = s.quantity + x] = [r EXCEPT !.quantity = s.quantity + x]
  BY DEF OrderRec
<1>4. QED
  BY <1>2, <1>3

\* A fill changes nothing for the callers.
LEMMA FillUnseen ==
  ASSUME IInv, FillsInv, MatchInv, NEW m, NEW q, Trades(m, q)
  PROVE  AtomicUnchanged
<1> DEFINE Own == Abstract!OwnFills
<1>0. PICK k : k = Len(tape) + 1
  OBVIOUS
<1>1. /\ DOMAIN tape' = DOMAIN tape \cup {k} /\ k \notin DOMAIN tape
      /\ \A i \in DOMAIN tape : tape'[i] = tape[i] /\ i < k
      /\ tape'[k].maker = m /\ tape'[k].taker = taker /\ tape'[k].quantity = q
  BY <1>0, TapeGrows
<1>2. /\ taker # None /\ taker' = taker
      /\ m \in Resting /\ m \in DOMAIN ord /\ m # taker
      /\ ord[taker].quantity > 0 /\ q \in Nat
      /\ DOMAIN ord' = DOMAIN ord
      /\ \A n \in DOMAIN ord \ {taker, m} : ord'[n] = ord[n]
      /\ ord'[m] = [ord[m] EXCEPT !.quantity = ord[m].quantity - q]
      /\ Resting' = IF ord[m].quantity = q THEN Resting \ {m} ELSE Resting
      /\ clock' = clock
  BY DEF Trades
<1>3. Own' = Own \cup {k} /\ Own \subseteq DOMAIN tape
  BY <1>1, <1>2 DEF Abstract!OwnFills
<1>4. \A i \in Own : tape'[i] = tape[i] /\ tape[i].maker # m
  <2>1. \A i \in Own : OwnTrade(i)
    BY <1>2, OwnFillsKnown
  <2>2. \A i \in Own : tape[i].maker # m
    BY <1>2, <2>1 DEF OwnTrade
  <2>3. QED
    BY <1>1, <1>3, <2>2
<1> HIDE DEF Own
<1>5. /\ \A n : Abstract!OwnFillOf(n) =
          IF {i \in Own : tape[i].maker = n} = {} THEN 0
          ELSE tape[CHOOSE i \in {i \in Own : tape[i].maker = n} : TRUE].quantity
      /\ \A n : Abstract!OwnFillOf(n)' =
          IF {i \in Own' : tape'[i].maker = n} = {} THEN 0
          ELSE tape'[CHOOSE i \in {i \in Own' : tape'[i].maker = n} : TRUE].quantity
  BY DEF Abstract!OwnFillOf, Own
<1>6. ASSUME NEW n, n # m PROVE Abstract!OwnFillOf(n)' = Abstract!OwnFillOf(n)
  <2> DEFINE mine == {i \in Own : tape[i].maker = n}
  <2>1. {i \in Own' : tape'[i].maker = n} = mine
    BY <1>1, <1>3, <1>4, <1>6
  <2>2. mine # {} => (CHOOSE i \in mine : TRUE) \in Own
    OBVIOUS
  <2> HIDE DEF mine
  <2>3. mine # {} => tape'[CHOOSE i \in mine : TRUE] = tape[CHOOSE i \in mine : TRUE]
    BY <1>4, <2>2
  <2>4. Abstract!OwnFillOf(n) = IF mine = {} THEN 0
                                ELSE tape[CHOOSE i \in mine : TRUE].quantity
    BY <1>5 DEF mine
  <2>5. Abstract!OwnFillOf(n)' = IF mine = {} THEN 0
                                 ELSE tape'[CHOOSE i \in mine : TRUE].quantity
    <3>1. Abstract!OwnFillOf(n)' =
            IF {i \in Own' : tape'[i].maker = n} = {} THEN 0
            ELSE tape'[CHOOSE i \in {i \in Own' : tape'[i].maker = n} : TRUE].quantity
      BY <1>5
    <3>2. QED
      BY <2>1, <3>1
  <2>6. QED
    BY <2>3, <2>4, <2>5
<1>7. Abstract!OwnFillOf(m) = 0 /\ Abstract!OwnFillOf(m)' = q
  <2>1. {i \in Own : tape[i].maker = m} = {}
    BY <1>4
  <2>2. {i \in Own' : tape'[i].maker = m} = {k}
    BY <1>1, <1>3, <1>4
  <2>3. (CHOOSE i \in {k} : TRUE) = k
    OBVIOUS
  <2>4. Abstract!OwnFillOf(m) = 0
    BY <1>5, <2>1
  <2>5. Abstract!OwnFillOf(m)' = tape'[CHOOSE i \in {k} : TRUE].quantity
    BY <1>5, <2>2
  <2>6. QED
    BY <1>1, <2>3, <2>4, <2>5
<1>8. \A n \in DOMAIN ord \ {taker} :
        [ord'[n] EXCEPT !.quantity = ord'[n].quantity + Abstract!OwnFillOf(n)']
          = [ord[n] EXCEPT !.quantity = ord[n].quantity + Abstract!OwnFillOf(n)]
  <2>1. SUFFICES ASSUME NEW n \in DOMAIN ord \ {taker}
        PROVE [ord'[n] EXCEPT !.quantity = ord'[n].quantity + Abstract!OwnFillOf(n)']
                = [ord[n] EXCEPT !.quantity = ord[n].quantity + Abstract!OwnFillOf(n)]
    OBVIOUS
  <2>2. CASE n # m
    BY <1>2, <1>6, <2>2
  <2>3. CASE n = m
    <3>1. ord[m] \in OrderRec
      BY <1>2, BookFacts
    <3>2. [ord'[m] EXCEPT !.quantity = ord'[m].quantity + q]
            = [ord[m] EXCEPT !.quantity = ord[m].quantity + 0]
      BY <1>2, <3>1, GivenBack
    <3>3. QED
      BY <1>7, <2>3, <3>2
  <2>4. QED
    BY <2>2, <2>3
<1>9. Abstract!OrdBefore' = Abstract!OrdBefore
  <2>1. Abstract!OrdBefore' =
          [n \in DOMAIN ord \ {taker} |->
            [ord'[n] EXCEPT !.quantity = ord'[n].quantity + Abstract!OwnFillOf(n)']]
    BY <1>2 DEF Abstract!OrdBefore
  <2>2. Abstract!OrdBefore =
          [n \in DOMAIN ord \ {taker} |->
            [ord[n] EXCEPT !.quantity = ord[n].quantity + Abstract!OwnFillOf(n)]]
    BY DEF Abstract!OrdBefore
  <2>3. QED
    BY <1>8, <2>1, <2>2
<1>10. Abstract!RestingBefore' = Abstract!RestingBefore
  <2>1. {tape'[i].maker : i \in Own'} = {tape[i].maker : i \in Own} \cup {m}
    BY <1>1, <1>3, <1>4
  <2>2. Resting' \cup {m} = Resting
    BY <1>2
  <2>3. /\ Abstract!RestingBefore' = Resting' \cup {tape'[i].maker : i \in Own'}
        /\ Abstract!RestingBefore = Resting \cup {tape[i].maker : i \in Own}
    BY DEF Abstract!RestingBefore, Own
  <2>4. QED
    BY <1>2, <2>1, <2>2, <2>3
<1>11. Abstract!TapeBefore' = Abstract!TapeBefore
  <2>1. DOMAIN tape' \ Own' = DOMAIN tape \ Own
    BY <1>1, <1>3
  <2>2. /\ Abstract!TapeBefore' = [i \in DOMAIN tape' \ Own' |-> tape'[i]]
        /\ Abstract!TapeBefore = [i \in DOMAIN tape \ Own |-> tape[i]]
    BY DEF Abstract!TapeBefore, Own
  <2>3. QED
    BY <1>1, <2>1, <2>2
<1>12. Abstract!ClockBefore' = Abstract!ClockBefore
  BY <1>2 DEF Abstract!ClockBefore
<1>13. QED
  BY <1>9, <1>10, <1>11, <1>12 DEF AtomicUnchanged

\* Neither does taking the lock.
LEMMA AcceptUnseen ==
  ASSUME IInv, FillsInv, NEW o \in Order, NEW r \in Request, Accept(o, r)
  PROVE  AtomicUnchanged
<1>1. /\ o \notin DOMAIN ord /\ taker = None /\ taker' = o /\ tape' = tape
      /\ clock' = clock + 1 /\ orders' = orders /\ o # None
      /\ ord' = Put(ord, o, Accepted(r, clock + 1))
  BY OrdersAssumption DEF Accept, IsNew
<1>2. DOMAIN ord' = DOMAIN ord \cup {o} /\ \A n \in DOMAIN ord : ord'[n] = ord[n]
  BY <1>1 DEF Put
<1>3. IInv'
  BY AcceptIInv
<1>4. Abstract!OwnFills' = {}
  BY <1>1 DEF Abstract!OwnFills, FillsInv
<1>5. Undone' /\ Undone /\ Seen
  BY <1>1, <1>3, <1>4, UnfilledNext, BetweenCalls
<1>6. Abstract!OrdBefore' = ord
  <2>1. Abstract!OrdBefore' = [n \in DOMAIN ord' \ {taker'} |-> ord'[n]]
    BY <1>5 DEF Undone
  <2>2. DOMAIN ord' \ {taker'} = DOMAIN ord
    BY <1>1, <1>2
  <2>3. ord \in [DOMAIN ord -> OrderRec]
    BY DEF IInv, TypeOK
  <2>4. Abstract!OrdBefore' = [n \in DOMAIN ord |-> ord[n]]
    BY <1>2, <2>1, <2>2
  <2>5. QED
    BY <2>3, <2>4
<1>7. Abstract!RestingBefore' = Resting /\ Abstract!TapeBefore' = tape
  BY <1>1, <1>5 DEF Undone, Resting
<1>8. Abstract!ClockBefore' = clock
  <2>1. clock \in Nat
    BY BookFacts
  <2>2. QED
    BY <1>1, <2>1 DEF Abstract!ClockBefore
<1>9. QED
  BY <1>5, <1>6, <1>7, <1>8 DEF Seen, AtomicUnchanged

-----------------------------------------------------------------------------
(* The end of a call: what its fills come to. *)

\* The book as the callers see it when order taker is being matched.
LEMMA BeforeKnown ==
  ASSUME IInv, FillsInv, MatchInv, taker # None
  PROVE  /\ DOMAIN Abstract!OrdBefore = DOMAIN ord \ {taker}
         /\ \A o \in DOMAIN ord \ {taker} :
              /\ Abstract!OrdBefore[o] \in OrderRec
              /\ Same(Abstract!OrdBefore[o], ord[o])
              /\ Abstract!OrdBefore[o].quantity = ord[o].quantity + Abstract!OwnFillOf(o)
              /\ [Abstract!OrdBefore[o] EXCEPT
                    !.quantity = Abstract!OrdBefore[o].quantity - Abstract!OwnFillOf(o)]
                   = ord[o]
              /\ Abstract!OwnFillOf(o) \in Nat
              /\ o \notin Abstract!RestingBefore => Abstract!OrdBefore[o] = ord[o]
<1>1. \A o \in DOMAIN ord : ord[o] \in OrderRec
  BY BookFacts
<1>2. \A m : Abstract!OwnFillOf(m) \in Nat
  <2>1. SUFFICES ASSUME NEW m PROVE Abstract!OwnFillOf(m) \in Nat
    OBVIOUS
  <2>2. CASE \A i \in Abstract!OwnFills : tape[i].maker # m
    BY <2>2, OwnFillsKnown
  <2>3. ASSUME NEW i \in Abstract!OwnFills, tape[i].maker = m
        PROVE  Abstract!OwnFillOf(m) \in Nat
    BY <2>3, OwnFillsKnown
  <2>4. QED
    BY <2>2, <2>3
<1>3. Abstract!OrdBefore =
        [o \in DOMAIN ord \ {taker} |->
          [ord[o] EXCEPT !.quantity = ord[o].quantity + Abstract!OwnFillOf(o)]]
  BY DEF Abstract!OrdBefore
<1>4. ASSUME NEW o \in DOMAIN ord \ {taker}
      PROVE  /\ Abstract!OrdBefore[o] \in OrderRec
             /\ Same(Abstract!OrdBefore[o], ord[o])
             /\ Abstract!OrdBefore[o].quantity = ord[o].quantity + Abstract!OwnFillOf(o)
             /\ [Abstract!OrdBefore[o] EXCEPT
                   !.quantity = Abstract!OrdBefore[o].quantity - Abstract!OwnFillOf(o)]
                  = ord[o]
  <2>1. PICK b : b = Abstract!OrdBefore[o]
    OBVIOUS
  <2>2. PICK x \in Nat : x = Abstract!OwnFillOf(o)
    BY <1>2
  <2>3. PICK r \in OrderRec : r = ord[o]
    BY <1>1
  <2>4. b = [r EXCEPT !.quantity = r.quantity + x]
    BY <1>3, <2>1, <2>2, <2>3
  <2>5. b \in OrderRec /\ Same(b, r) /\ b.quantity = r.quantity + x
    BY <2>4 DEF OrderRec, Same
  <2>6. [b EXCEPT !.quantity = b.quantity - x] = r
    <3>1. r.quantity \in Int /\ b.quantity - x = r.quantity
      BY <2>5 DEF OrderRec
    <3>2. [b EXCEPT !.quantity = r.quantity] = r
      BY <2>4 DEF OrderRec
    <3>3. QED
      BY <3>1, <3>2
  <2>7. QED
    BY <2>1, <2>2, <2>3, <2>5, <2>6
<1>5. ASSUME NEW o \in DOMAIN ord \ {taker}, o \notin Abstract!RestingBefore
      PROVE  Abstract!OrdBefore[o] = ord[o]
  <2>1. \A i \in Abstract!OwnFills : tape[i].maker # o
    BY <1>5 DEF Abstract!RestingBefore
  <2>2. Abstract!OwnFillOf(o) = 0
    BY <2>1, OwnFillsKnown
  <2>3. Abstract!OrdBefore[o] = [ord[o] EXCEPT !.quantity = ord[o].quantity + 0]
    BY <1>3, <2>2
  <2>4. QED
    BY <1>1, <2>3 DEF OrderRec
<1>6. QED
  BY <1>2, <1>3, <1>4, <1>5

\* Who rests before the call: those who rest now and those it filled.
LEMMA RestingBeforeKnown ==
  ASSUME IInv, FillsInv, MatchInv, taker # None
  PROVE  /\ Abstract!RestingBefore \subseteq DOMAIN ord \ {taker}
         /\ IsFiniteSet(Abstract!RestingBefore)
         /\ Resting \subseteq Abstract!RestingBefore
         /\ \A m \in Abstract!RestingBefore :
              /\ m \notin Resting => ord[m].quantity = 0
              /\ m \notin Resting => Abstract!OwnFillOf(m) > 0
              /\ ord[m].id # ord[taker].id
         /\ \A m \in Abstract!RestingBefore : Abstract!OwnFillOf(m) > 0 =>
              /\ Crosses(ord[taker], ord[m])
              /\ \A n \in Resting \ {m} :
                   Crosses(ord[taker], ord[n]) => Better(ord[m], ord[n])
         /\ {m \in Abstract!RestingBefore : Abstract!OwnFillOf(m) > 0}
              = {tape[i].maker : i \in Abstract!OwnFills}
<1> DEFINE R == Abstract!RestingBefore
           Own == Abstract!OwnFills
           M == {tape[i].maker : i \in Own}
<1>1. R = Resting \cup M
  BY DEF Abstract!RestingBefore
<1>2. \A i \in Own : /\ i \in DOMAIN tape
                     /\ tape[i].maker \in DOMAIN ord \ {taker}
                     /\ tape[i].quantity \in Nat \ {0}
                     /\ Abstract!OwnFillOf(tape[i].maker) = tape[i].quantity
                     /\ OwnTrade(i)
  BY OwnFillsKnown
<1>3. \A m : m \notin M => Abstract!OwnFillOf(m) = 0
  <2>1. \A m : (\A i \in Own : tape[i].maker # m) => Abstract!OwnFillOf(m) = 0
    BY OwnFillsKnown
  <2>2. QED
    BY <2>1
<1>4. \A m \in Resting : m \in DOMAIN ord \ {taker} /\ ord[m].id # ord[taker].id
  BY BookFacts
<1>5. \A m \in M : /\ m \in DOMAIN ord \ {taker} /\ Abstract!OwnFillOf(m) > 0
                   /\ ord[m].id # ord[taker].id
                   /\ Crosses(ord[taker], ord[m])
                   /\ m \notin Resting => ord[m].quantity = 0
                   /\ \A n \in Resting \ {m} :
                        Crosses(ord[taker], ord[n]) => Better(ord[m], ord[n])
  <2>1. SUFFICES ASSUME NEW i \in Own, NEW m, m = tape[i].maker
                 PROVE /\ m \in DOMAIN ord \ {taker} /\ Abstract!OwnFillOf(m) > 0
                       /\ ord[m].id # ord[taker].id
                       /\ Crosses(ord[taker], ord[m])
                       /\ m \notin Resting => ord[m].quantity = 0
                       /\ \A n \in Resting \ {m} :
                            Crosses(ord[taker], ord[n]) => Better(ord[m], ord[n])
    OBVIOUS
  <2>2. OwnTrade(i) /\ m \in DOMAIN ord \ {taker} /\ Abstract!OwnFillOf(m) > 0
    BY <1>2, <2>1
  <2> HIDE DEF Own
  <2>3. QED
    BY <2>1, <2>2 DEF OwnTrade
<1>6. IsFiniteSet(R)
  <2>1. IsFiniteSet(Own)
    <3>1. DOMAIN tape = 1 .. Len(tape) /\ Len(tape) \in Nat
      BY BookFacts
    <3>2. IsFiniteSet(1 .. Len(tape))
      BY <3>1, FS_Interval
    <3>3. Own \subseteq 1 .. Len(tape)
      BY <1>2, <3>1
    <3> HIDE DEF Own
    <3>4. QED
      BY <3>2, <3>3, FS_Subset
  <2> HIDE DEF Own
  <2>2. IsFiniteSet(M)
    <3>1. [i \in Own |-> tape[i].maker] \in Surjection(Own, M)
      BY DEF Surjection
    <3>2. QED
      BY <2>1, <3>1, FS_Surjection
  <2>3. IsFiniteSet(Resting)
    BY DEF MatchInv
  <2> HIDE DEF M
  <2>4. QED
    BY <1>1, <2>2, <2>3, FS_Union
<1> HIDE DEF M, R, Own
<1>7. {m \in R : Abstract!OwnFillOf(m) > 0} = M
  BY <1>1, <1>3, <1>5
<1>8. R \subseteq DOMAIN ord \ {taker} /\ Resting \subseteq R
  BY <1>1, <1>4, <1>5
<1>9. \A m \in R : /\ m \notin Resting => ord[m].quantity = 0
                   /\ m \notin Resting => Abstract!OwnFillOf(m) > 0
                   /\ ord[m].id # ord[taker].id
  BY <1>1, <1>4, <1>5
<1>10. \A m \in R : Abstract!OwnFillOf(m) > 0 =>
              /\ Crosses(ord[taker], ord[m])
              /\ \A n \in Resting \ {m} :
                   Crosses(ord[taker], ord[n]) => Better(ord[m], ord[n])
  BY <1>5, <1>7
<1>11. QED
  BY <1>6, <1>7, <1>8, <1>9, <1>10 DEF R, M, Own

\* What the order took from all of them is what it no longer wants.
LEMMA OwnFillsSum ==
  ASSUME IInv, FillsInv, MatchInv, taker # None,
         NEW g, g = [m \in Abstract!RestingBefore |-> Abstract!OwnFillOf(m)]
  PROVE  /\ ord[taker].quantity \in Nat
         /\ SumFunctionOnSet(g, Abstract!RestingBefore) \in Nat
         /\ ord[taker].original =
              ord[taker].quantity + SumFunctionOnSet(g, Abstract!RestingBefore)
<1> DEFINE R == Abstract!RestingBefore
           Own == Abstract!OwnFills
           M == {tape[i].maker : i \in Own}
           h == [i \in Own |-> tape[i].maker]
           f == Quantities(tape)
<1>1. /\ \A i \in Own : /\ i \in DOMAIN tape
                        /\ tape[i].quantity \in Nat \ {0}
                        /\ Abstract!OwnFillOf(tape[i].maker) = tape[i].quantity
      /\ \A i, j \in Own : tape[i].maker = tape[j].maker => i = j
  BY OwnFillsKnown
<1>2. R \subseteq DOMAIN ord \ {taker} /\ IsFiniteSet(R)
      /\ {m \in R : Abstract!OwnFillOf(m) > 0} = M
  BY RestingBeforeKnown
<1>3. \A m \in R : Abstract!OwnFillOf(m) \in Nat
  BY <1>2, BeforeKnown
<1>4. \A i \in Own : f[i] = tape[i].quantity /\ f[i] \in Int
  <2>1. \A i \in DOMAIN tape : f[i] = tape[i].quantity
    BY DEF Quantities
  <2> HIDE DEF f, Own
  <2>2. QED
    BY <1>1, <2>1
<1>5. IsFiniteSet(Own)
  <2>1. Own \in SUBSET DOMAIN tape /\ tape \in Seq(Trade)
    BY BookFacts DEF Abstract!OwnFills
  <2> HIDE DEF Own
  <2>2. QED
    BY <2>1, TradesListed
<1>6. taker \in DOMAIN ord /\ ord[taker] \in OrderRec
  BY BookFacts
<1>7. ord[taker].original = ord[taker].quantity + SumFunctionOnSet(f, Own)
  <2>1. FillsOn(tape, taker) = Own
    <3>1. Matching
      BY DEF MatchInv
    <3>2. \A i \in DOMAIN tape : tape[i].maker # taker
      BY <3>1 DEF Matching
    <3>3. QED
      BY <3>2 DEF FillsOn, Abstract!OwnFills
  <2>2. QED
    BY <1>6, <2>1 DEF FillsInv
<1>8. Renames(h, Own, M) /\ \A i \in Own : h[i] \in M /\ h[i] = tape[i].maker
  BY <1>1 DEF Renames
<1> HIDE DEF Own, h, f
<1>9. \A i \in Own : g[h[i]] = f[i]
  <2>1. \A i \in Own : h[i] \in R
    BY <1>2, <1>8
  <2>2. QED
    BY <1>1, <1>4, <1>8, <2>1
<1>10. SumFunctionOnSet(f, Own) = SumFunctionOnSet(g, M)
  <2> HIDE DEF M
  <2>1. \A i \in Own : f[i] \in Int
    BY <1>4
  <2>2. QED
    BY <1>5, <1>8, <1>9, <2>1, SumRenamed
<1>11. \A m \in R : g[m] \in Nat /\ g[m] \in Int
  BY <1>3
<1>12. M \in SUBSET R /\ \A m \in R \ M : g[m] = 0
  BY <1>2, <1>3
<1> HIDE DEF M, R
<1>13. SumFunctionOnSet(g, M) = SumFunctionOnSet(g, R)
  BY <1>2, <1>11, <1>12, SumWithoutZeros
<1>14. SumFunctionOnSet(g, R) \in Nat
  BY <1>2, <1>11, SumIsNat
<1>15. ord[taker].quantity \in Nat
  BY <1>6 DEF OrderRec
<1>16. QED
  BY <1>7, <1>10, <1>13, <1>14, <1>15 DEF R

\* When the matching is over each fill is the one of the closed form.
LEMMA FillsAreClosedForm ==
  ASSUME IInv, FillsInv, MatchInv, taker # None,
         ord[taker].quantity = 0 \/ Abstract!Counterparties = {},
         NEW t, Same(t, ord[taker]), t.quantity = ord[taker].original,
         NEW m \in Abstract!RestingBefore
  PROVE  Abstract!Atomic!FillOf(t, m) = Abstract!OwnFillOf(m)
<1> DEFINE R == Abstract!RestingBefore
           B == Abstract!OrdBefore
           C == {x \in R : Crosses(ord[taker], ord[x])}
           ahead == [x \in R |-> {n \in C : Better(ord[n], ord[x])}]
           f == Abstract!Atomic!Remaining
           g == [x \in R |-> Abstract!OwnFillOf(x)]
<1>1. /\ R \subseteq DOMAIN ord \ {taker} /\ IsFiniteSet(R) /\ Resting \subseteq R
      /\ \A x \in R : x \notin Resting => ord[x].quantity = 0 /\ Abstract!OwnFillOf(x) > 0
      /\ \A x \in R : Abstract!OwnFillOf(x) > 0 =>
           /\ Crosses(ord[taker], ord[x])
           /\ \A n \in Resting \ {x} :
                Crosses(ord[taker], ord[n]) => Better(ord[x], ord[n])
  BY RestingBeforeKnown
<1>2. /\ DOMAIN B = DOMAIN ord \ {taker}
      /\ \A x \in DOMAIN ord \ {taker} :
           /\ Same(B[x], ord[x]) /\ Abstract!OwnFillOf(x) \in Nat
           /\ B[x].quantity = ord[x].quantity + Abstract!OwnFillOf(x)
  BY BeforeKnown
<1>3. /\ \A x \in DOMAIN ord : ord[x] \in OrderRec
      /\ \A x \in Resting : ord[x].quantity > 0
  BY BookFacts
<1>4. /\ ord[taker].quantity \in Nat
      /\ SumFunctionOnSet(g, R) \in Nat
      /\ ord[taker].original = ord[taker].quantity + SumFunctionOnSet(g, R)
  BY OwnFillsSum
<1>5. \A x \in R : Abstract!Atomic!Crosses(t, B[x]) <=> x \in C
  <2>1. SUFFICES ASSUME NEW x \in R
                 PROVE  Abstract!Atomic!Crosses(t, B[x]) <=> Crosses(ord[taker], ord[x])
    OBVIOUS
  <2>2. Same(B[x], ord[x])
    BY <1>1, <1>2
  <2> HIDE DEF B, R
  <2>3. Crosses(t, B[x]) <=> Crosses(ord[taker], ord[x])
    BY <2>2, SamePriority
  <2>4. QED
    BY <2>3, AtomicVocabulary
<1>6. \A x, y \in R : Abstract!Atomic!Better(B[x], B[y]) <=> Better(ord[x], ord[y])
  <2>1. SUFFICES ASSUME NEW x \in R, NEW y \in R
                 PROVE  Abstract!Atomic!Better(B[x], B[y]) <=> Better(ord[x], ord[y])
    OBVIOUS
  <2>2. Same(B[x], ord[x]) /\ Same(B[y], ord[y])
    BY <1>1, <1>2
  <2> HIDE DEF B, R
  <2>3. Better(B[x], B[y]) <=> Better(ord[x], ord[y])
    BY <2>2, SamePriority
  <2>4. QED
    BY <2>3, AtomicVocabulary
<1>7. Abstract!Atomic!Ahead(t, m) = ahead[m]
  <2>1. Abstract!Atomic!Ahead(t, m) =
          {n \in R : Abstract!Atomic!Crosses(t, B[n]) /\ Abstract!Atomic!Better(B[n], B[m])}
    BY DEF Abstract!Atomic!Ahead
  <2>2. ahead[m] = {n \in C : Better(ord[n], ord[m])}
    OBVIOUS
  <2> HIDE DEF B, ahead
  <2>3. QED
    BY <1>5, <1>6, <2>1, <2>2
<1>8. \A x \in R : f[x] = B[x].quantity
  BY <1>1, <1>2 DEF Abstract!Atomic!Remaining
<1>9. Abstract!Atomic!FillOf(t, m) =
        LET rest == t.quantity - SumFunctionOnSet(f, ahead[m])
        IN IF m \in C /\ rest > 0
             THEN IF rest < f[m] THEN rest ELSE f[m] ELSE 0
  <2>1. Abstract!Atomic!FillOf(t, m) =
          LET rest == t.quantity - Abstract!Atomic!SumFunctionOnSet(f, Abstract!Atomic!Ahead(t, m))
          IN IF Abstract!Atomic!Crosses(t, B[m]) /\ rest > 0
               THEN Abstract!Atomic!Lesser(rest, B[m].quantity) ELSE 0
    BY DEF Abstract!Atomic!FillOf
  <2>2. Abstract!Atomic!SumFunctionOnSet(f, Abstract!Atomic!Ahead(t, m))
          = SumFunctionOnSet(f, ahead[m])
    <3> HIDE DEF f, ahead
    <3>1. QED
      BY <1>7, AtomicVocabulary
  <2>3. Abstract!Atomic!Crosses(t, B[m]) <=> m \in C
    BY <1>5
  <2>4. B[m].quantity = f[m]
    BY <1>8
  <2>5. \A a, b : Abstract!Atomic!Lesser(a, b) = IF a < b THEN a ELSE b
    BY AtomicVocabulary DEF Lesser
  <2> HIDE DEF f, ahead, B, C
  <2>6. QED
    BY <2>1, <2>2, <2>3, <2>4, <2>5
<1>10. \A x \in R : f[x] \in Nat \ {0} /\ g[x] \in Nat /\ g[x] <= f[x]
       /\ f[x] = ord[x].quantity + g[x]
  <2>1. SUFFICES ASSUME NEW x \in R
                 PROVE  /\ f[x] \in Nat \ {0} /\ g[x] \in Nat /\ g[x] <= f[x]
                        /\ f[x] = ord[x].quantity + g[x]
    OBVIOUS
  <2>2. f[x] = ord[x].quantity + Abstract!OwnFillOf(x) /\ Abstract!OwnFillOf(x) \in Nat
    BY <1>1, <1>2, <1>8
  <2>3. ord[x].quantity \in Nat /\ (ord[x].quantity > 0 \/ Abstract!OwnFillOf(x) > 0)
    BY <1>1, <1>3 DEF OrderRec
  <2>4. g[x] = Abstract!OwnFillOf(x)
    OBVIOUS
  <2> HIDE DEF f, g
  <2>5. QED
    BY <2>2, <2>3, <2>4
<1>11. \A x \in R : g[x] = Abstract!OwnFillOf(x)
  OBVIOUS
<1>12. C \in SUBSET R /\ \A x \in R \ C : g[x] = 0
  <2>1. \A x \in R \ C : ~(g[x] > 0)
    BY <1>1
  <2>2. \A x \in R : g[x] \in Nat
    BY <1>10
  <2> HIDE DEF g
  <2>3. QED
    BY <2>1, <2>2
<1>13. \A x, y \in C : /\ ~Better(ord[x], ord[x])
                       /\ ~(Better(ord[x], ord[y]) /\ Better(ord[y], ord[x]))
  <2>1. \A x \in C : ord[x] \in OrderRec /\ ord[x].side = Opposite(ord[taker].side)
    BY <1>1, <1>3 DEF Crosses
  <2> HIDE DEF C
  <2>2. QED
    BY <2>1, PriorityOrders
<1>14. \A x \in C : \A y : y \in ahead[x] <=> y \in C /\ Better(ord[y], ord[x])
  BY <1>12
<1> HIDE DEF ahead, f, g
<1>15. /\ \A x \in C : ahead[x] \in SUBSET (C \ {x})
       /\ \A x, y \in C : y \in ahead[x] => x \notin ahead[y]
  BY <1>13, <1>14
<1>16. \A y \in C : g[y] # f[y] => y \in Resting /\ ord[y].quantity > 0
  <2>1. \A y \in R : ord[y].quantity = 0 => g[y] = f[y]
    BY <1>10
  <2>2. \A y \in R : y \notin Resting => ord[y].quantity = 0
    BY <1>1
  <2>3. QED
    BY <1>3, <1>12, <2>1, <2>2
<1>17. \A x, y \in C : x # y /\ g[x] > 0 /\ g[y] < f[y] => x \in ahead[y]
  <2>1. SUFFICES ASSUME NEW x \in C, NEW y \in C, x # y, g[x] > 0, g[y] < f[y]
                 PROVE  x \in ahead[y]
    OBVIOUS
  <2>2. g[y] # f[y]
    BY <1>10, <1>12, <2>1
  <2>3. y \in Resting \ {x} /\ x \in R /\ Abstract!OwnFillOf(x) > 0
    BY <1>11, <1>12, <1>16, <2>1, <2>2
  <2>4. Crosses(ord[taker], ord[y])
    BY <2>1
  <2>5. Better(ord[x], ord[y])
    BY <1>1, <2>3, <2>4
  <2>6. QED
    BY <1>14, <2>1, <2>5
<1>18. ord[taker].quantity = 0 \/ \A x \in C : g[x] = f[x]
  <2>1. ASSUME Abstract!Counterparties = {}, NEW x \in C, g[x] # f[x] PROVE FALSE
    <3>1. x \in Resting /\ Crosses(ord[taker], ord[x])
      BY <1>16, <2>1
    <3>2. x \in Abstract!Counterparties
      BY <3>1, SharedVocabulary DEF Abstract!Counterparties
    <3>3. QED
      BY <2>1, <3>2
  <2>2. QED
    BY <2>1
<1>19. m \in R /\ t.quantity = ord[taker].quantity + SumFunctionOnSet(g, R)
  BY <1>4
<1> HIDE DEF C, R
<1>20. \A x \in C : g[x] = Share(t.quantity - SumFunctionOnSet(f, ahead[x]), f[x])
  <2>1. PICK left \in Nat : left = ord[taker].quantity
    BY <1>4
  <2>2. \A x \in R : f[x] \in Nat \ {0} /\ g[x] \in Nat /\ g[x] <= f[x]
    BY <1>10
  <2>3. left = 0 \/ \A x \in C : g[x] = f[x]
    BY <1>18, <2>1
  <2>4. t.quantity = left + SumFunctionOnSet(g, R)
    BY <1>19, <2>1
  <2>5. TakesInTurn(R, C, ahead, f, g, t.quantity, left)
    BY <1>12, <1>15, <1>17, <2>2, <2>3, <2>4 DEF TakesInTurn
  <2>6. IsFiniteSet(R) /\ C \in SUBSET R
    BY <1>1, <1>12
  <2>7. QED
    BY <2>5, <2>6, ClosedForm
<1>21. CASE m \in C
  <2>1. g[m] = Share(t.quantity - SumFunctionOnSet(f, ahead[m]), f[m])
    BY <1>20, <1>21
  <2>2. QED
    BY <1>9, <1>11, <1>19, <1>21, <2>1 DEF Share
<1>22. CASE m \notin C
  <2>1. g[m] = 0
    BY <1>12, <1>19, <1>22
  <2>2. QED
    BY <1>9, <1>11, <1>19, <1>22, <2>1
<1>23. QED
  BY <1>21, <1>22

\* The trades of the order being matched are the last ones.
LEMMA OwnFillsLast ==
  ASSUME IInv, FillsInv, MatchInv, taker # None
  PROVE  \E k \in 0 .. Len(tape) : Abstract!OwnFills = k + 1 .. Len(tape)
<1>1. DOMAIN tape = 1 .. Len(tape) /\ Len(tape) \in Nat
  BY BookFacts
<1>2. Abstract!OwnFills \in SUBSET (1 .. Len(tape))
  BY <1>1 DEF Abstract!OwnFills
<1>3. \A i \in Abstract!OwnFills : \A j \in 1 .. Len(tape) :
        i < j => j \in Abstract!OwnFills
  <2>1. SUFFICES ASSUME NEW i \in Abstract!OwnFills, NEW j \in 1 .. Len(tape), i < j
                 PROVE  j \in Abstract!OwnFills
    OBVIOUS
  <2>2. OwnTrade(i)
    BY OwnFillsKnown
  <2>3. tape[j].taker = taker
    BY <1>1, <2>1, <2>2 DEF OwnTrade
  <2>4. QED
    BY <1>1, <2>3 DEF Abstract!OwnFills
<1>4. QED
  BY <1>1, <1>2, <1>3, LastPlaces

\* Its makers, in the order of the tape, are the closed form's.
LEMMA MakersKnown ==
  ASSUME IInv, FillsInv, MatchInv, taker # None,
         NEW t, \A m \in Abstract!RestingBefore :
                  Abstract!Atomic!FillOf(t, m) = Abstract!OwnFillOf(m),
         NEW k \in 0 .. Len(tape), Abstract!OwnFills = k + 1 .. Len(tape)
  PROVE  Abstract!Atomic!Makers(t) = [i \in 1 .. Len(tape) - k |-> tape[k + i].maker]
<1> DEFINE R == Abstract!RestingBefore
           B == Abstract!OrdBefore
           Own == Abstract!OwnFills
           M == {m \in R : Abstract!OwnFillOf(m) > 0}
           P == {p \in M \X M : Better(ord[p[1]], ord[p[2]])}
           n == Len(tape) - k
           q == [i \in 1 .. n |-> tape[k + i].maker]
<1>1. /\ \A i \in Own : i \in DOMAIN tape /\ OwnTrade(i)
      /\ \A i, j \in Own : tape[i].maker = tape[j].maker => i = j
  BY OwnFillsKnown
<1>2. /\ R \subseteq DOMAIN ord \ {taker} /\ IsFiniteSet(R)
      /\ M = {tape[i].maker : i \in Own}
      /\ \A m \in M : Crosses(ord[taker], ord[m])
  BY RestingBeforeKnown
<1>3. \A x \in DOMAIN ord \ {taker} : Same(B[x], ord[x])
  BY BeforeKnown
<1>4. \A x, y \in R : Abstract!Atomic!Better(B[x], B[y]) <=> Better(ord[x], ord[y])
  <2>1. SUFFICES ASSUME NEW x \in R, NEW y \in R
                 PROVE  Abstract!Atomic!Better(B[x], B[y]) <=> Better(ord[x], ord[y])
    OBVIOUS
  <2>2. Same(B[x], ord[x]) /\ Same(B[y], ord[y])
    BY <1>2, <1>3
  <2> HIDE DEF B, R
  <2>3. Better(B[x], B[y]) <=> Better(ord[x], ord[y])
    BY <2>2, SamePriority
  <2>4. QED
    BY <2>3, AtomicVocabulary
<1>5. /\ k \in Nat /\ n \in Nat /\ Len(tape) = k + n
      /\ \A i \in 1 .. n : k + i \in Own
      /\ \A i \in Own : i - k \in 1 .. n /\ k + (i - k) = i
  <2>1. Len(tape) \in Nat
    BY BookFacts
  <2>2. QED
    BY <2>1
<1>6. M \in SUBSET R /\ IsFiniteSet(M) /\ M \subseteq DOMAIN ord
  BY <1>2, FS_Subset
<1>7. Arranges(P, M)
  <2>1. \A x \in M : ord[x] \in OrderRec /\ ord[x].side = Opposite(ord[taker].side)
    BY <1>2, <1>6, BookFacts DEF Crosses
  <2>2. \A x, y \in M : x # y => ord[x].ts # ord[y].ts
    BY <1>6, BookFacts
  <2>3. \A x, y \in M : <<x, y>> \in P <=> Better(ord[x], ord[y])
    OBVIOUS
  <2> HIDE DEF P, M
  <2>4. \A x \in M : ~Better(ord[x], ord[x])
    BY <2>1, PriorityOrders
  <2>5. \A x, y \in M : x # y => Better(ord[x], ord[y]) \/ Better(ord[y], ord[x])
    <3>1. SUFFICES ASSUME NEW x \in M, NEW y \in M, x # y
                   PROVE  Better(ord[x], ord[y]) \/ Better(ord[y], ord[x])
      OBVIOUS
    <3>2. ord[x].ts # ord[y].ts /\ ord[x] \in OrderRec /\ ord[y] \in OrderRec
          /\ ord[x].side = ord[y].side
      BY <2>1, <2>2, <3>1
    <3>3. QED
      BY <3>2, PriorityOrders
  <2>6. \A x, y, z \in M : Better(ord[x], ord[y]) /\ Better(ord[y], ord[z])
                             => Better(ord[x], ord[z])
    <3>1. SUFFICES ASSUME NEW x \in M, NEW y \in M, NEW z \in M
                   PROVE  Better(ord[x], ord[y]) /\ Better(ord[y], ord[z])
                            => Better(ord[x], ord[z])
      OBVIOUS
    <3>2. /\ ord[x] \in OrderRec /\ ord[y] \in OrderRec /\ ord[z] \in OrderRec
          /\ ord[x].side = ord[y].side /\ ord[y].side = ord[z].side
      BY <2>1
    <3>3. QED
      BY <3>2, PriorityOrders
  <2>7. QED
    BY <2>3, <2>4, <2>5, <2>6 DEF Arranges
<1>8. /\ q \in [1 .. n -> M]
      /\ \A i \in 1 .. n : q[i] = tape[k + i].maker
      /\ \A i, j \in 1 .. n : i # j => q[i] # q[j]
      /\ \A x \in M : \E i \in 1 .. n : q[i] = x
  <2> HIDE DEF Own, n, M
  <2>1. \A i \in 1 .. n : tape[k + i].maker \in M
    BY <1>2, <1>5
  <2>2. q \in [1 .. n -> M] /\ \A i \in 1 .. n : q[i] = tape[k + i].maker
    BY <2>1
  <2> HIDE DEF q
  <2>3. ASSUME NEW i \in 1 .. n, NEW j \in 1 .. n, i # j PROVE q[i] # q[j]
    <3>1. k + i # k + j
      BY <1>5, <2>3
    <3>2. k + i \in Own /\ k + j \in Own
      BY <1>5
    <3>3. tape[k + i].maker # tape[k + j].maker
      BY <1>1, <3>1, <3>2
    <3>4. QED
      BY <2>2, <3>3
  <2>4. ASSUME NEW x \in M PROVE \E i \in 1 .. n : q[i] = x
    <3>1. PICK i \in Own : tape[i].maker = x
      BY <1>2
    <3>2. i - k \in 1 .. n /\ q[i - k] = x
      BY <1>5, <2>2, <3>1
    <3>3. QED
      BY <3>2
  <2>5. QED
    BY <2>2, <2>3, <2>4
<1>9. \A i, j \in 1 .. n : i < j => Better(ord[q[i]], ord[q[j]])
  <2> HIDE DEF Own, n
  <2>1. SUFFICES ASSUME NEW i \in 1 .. n, NEW j \in 1 .. n, i < j
                 PROVE  Better(ord[q[i]], ord[q[j]])
    OBVIOUS
  <2>2. k + i < k + j /\ k + i \in Own /\ k + j \in Own
    BY <1>5, <2>1
  <2>3. OwnTrade(k + i) /\ k + j \in DOMAIN tape
    BY <1>1, <2>2
  <2>4. Better(ord[tape[k + i].maker], ord[tape[k + j].maker])
    BY <2>2, <2>3 DEF OwnTrade
  <2>5. QED
    BY <1>8, <2>4
<1>10. {m \in R : Abstract!Atomic!FillOf(t, m) > 0} = M
  OBVIOUS
<1>11. Abstract!Atomic!Makers(t) =
         CHOOSE p \in SetToSeqs(M) :
           \A i, j \in DOMAIN p : i < j => Abstract!Atomic!Better(B[p[i]], B[p[j]])
  <2>1. Abstract!Atomic!Makers(t) =
         CHOOSE p \in Abstract!Atomic!SetToSeqs({m \in R : Abstract!Atomic!FillOf(t, m) > 0}) :
           \A i, j \in DOMAIN p : i < j => Abstract!Atomic!Better(B[p[i]], B[p[j]])
    BY DEF Abstract!Atomic!Makers
  <2>2. \A S : Abstract!Atomic!SetToSeqs(S) = SetToSeqs(S)
    BY AtomicVocabulary
  <2> HIDE DEF M, B, R
  <2>3. Abstract!Atomic!SetToSeqs(M) = SetToSeqs(M)
    BY <2>2
  <2>4. QED
    BY <1>10, <2>1, <2>3
<1> HIDE DEF R, B, Own, q, n
<1>12. Cardinality(M) = n
  <2>1. q \in Seq(M) /\ Len(q) = n /\ DOMAIN q = 1 .. n
    BY <1>5, <1>8
  <2> HIDE DEF M
  <2>2. Range(q) = M
    <3>1. \A i \in 1 .. n : q[i] \in M
      BY <1>8
    <3>2. QED
      BY <1>8, <2>1, <3>1 DEF Range
  <2>3. \A i, j \in DOMAIN q : i # j => q[i] # q[j]
    BY <1>8, <2>1
  <2>4. Cardinality(Range(q)) = Len(q)
    BY <2>1, <2>3, InjectiveCounts
  <2>5. QED
    BY <2>1, <2>2, <2>4
<1> HIDE DEF M
<1>13. q \in SetToSeqs(M) /\ DOMAIN q = 1 .. n
  BY <1>8, <1>12 DEF SetToSeqs
<1>14. \A p \in SetToSeqs(M) : \A i \in DOMAIN p : p[i] \in M
  BY DEF SetToSeqs
<1>15. \A x, y \in M : /\ <<x, y>> \in P <=> Better(ord[x], ord[y])
                       /\ <<x, y>> \in P <=> Abstract!Atomic!Better(B[x], B[y])
  BY <1>4, <1>6
<1> HIDE DEF P
<1>16. Listed(q, M, P)
  BY <1>9, <1>13, <1>14, <1>15 DEF Listed
<1>17. \A i, j \in DOMAIN q : i < j => Abstract!Atomic!Better(B[q[i]], B[q[j]])
  BY <1>9, <1>13, <1>14, <1>15
<1>18. PICK p : p = Abstract!Atomic!Makers(t)
  OBVIOUS
<1>19. /\ p \in SetToSeqs(M)
       /\ \A i, j \in DOMAIN p : i < j => Abstract!Atomic!Better(B[p[i]], B[p[j]])
  BY <1>11, <1>13, <1>17, <1>18
<1>20. Listed(p, M, P)
  BY <1>14, <1>15, <1>19 DEF Listed
<1>21. p = q
  BY <1>6, <1>7, <1>16, <1>20, OneListing
<1>22. QED
  BY <1>18, <1>21 DEF q, n

\* Its trades are the closed form's, and come after those of earlier calls.
LEMMA TradesKnown ==
  ASSUME IInv, FillsInv, MatchInv, taker # None,
         NEW t, \A m \in Abstract!RestingBefore :
                  Abstract!Atomic!FillOf(t, m) = Abstract!OwnFillOf(m)
  PROVE  tape = Abstract!TapeBefore \o Abstract!Atomic!TradesOf(taker, t)
<1> DEFINE Own == Abstract!OwnFills
           B == Abstract!OrdBefore
           before == Abstract!TapeBefore
           makers == Abstract!Atomic!Makers(t)
           trades == Abstract!Atomic!TradesOf(taker, t)
<1>1. PICK k \in 0 .. Len(tape) : Own = k + 1 .. Len(tape)
  BY OwnFillsLast
<1>2. PICK n \in Nat : n = Len(tape) - k
  <2>1. Len(tape) - k \in Nat
    BY BookFacts
  <2>2. QED
    BY <2>1
<1>3. /\ tape \in Seq(Trade) /\ DOMAIN tape = 1 .. Len(tape) /\ Len(tape) \in Nat
      /\ k \in Nat /\ Len(tape) = k + n
  BY <1>2, BookFacts
<1>4. makers = [i \in 1 .. n |-> tape[k + i].maker]
  BY <1>1, <1>2, MakersKnown
<1>5. \A i \in Own : /\ i \in DOMAIN tape /\ tape[i].taker = taker
                     /\ tape[i].maker \in DOMAIN ord \ {taker}
                     /\ Abstract!OwnFillOf(tape[i].maker) = tape[i].quantity
                     /\ tape[i].id = i /\ tape[i].price = ord[tape[i].maker].price
                     /\ tape[i].maker \in Abstract!RestingBefore
  <2>1. \A i \in Own : /\ i \in DOMAIN tape /\ tape[i].taker = taker
                       /\ tape[i].maker \in DOMAIN ord \ {taker}
                       /\ Abstract!OwnFillOf(tape[i].maker) = tape[i].quantity
                       /\ OwnTrade(i)
    BY OwnFillsKnown
  <2>2. \A i \in Own : tape[i].maker \in Abstract!RestingBefore
    BY DEF Abstract!RestingBefore
  <2> HIDE DEF Own
  <2>3. \A i \in Own : tape[i].id = i /\ tape[i].price = ord[tape[i].maker].price
    BY <2>1 DEF OwnTrade
  <2>4. QED
    BY <2>1, <2>2, <2>3
<1>6. before \in Seq(Trade) /\ Len(before) = k
      /\ \A i \in 1 .. k : before[i] = tape[i]
  <2>1. before = [i \in DOMAIN tape \ Own |-> tape[i]]
    BY DEF Abstract!TapeBefore
  <2> HIDE DEF before, Own
  <2>2. DOMAIN tape \ Own = 1 .. k
    BY <1>1, <1>3
  <2>3. \A i \in 1 .. k : tape[i] \in Trade
    BY <1>3
  <2>4. before = [i \in 1 .. k |-> tape[i]]
    BY <2>1, <2>2
  <2>5. /\ before \in [1 .. k -> Trade] /\ DOMAIN before = 1 .. k
        /\ \A i \in 1 .. k : before[i] = tape[i]
    BY <2>3, <2>4
  <2>6. before \in Seq(Trade)
    BY <1>3, <2>5
  <2>7. Len(before) = k
    <3>1. DOMAIN before = 1 .. Len(before) /\ Len(before) \in Nat
      BY <2>6, LenProperties
    <3>2. QED
      BY <1>3, <2>5, <3>1
  <2>8. QED
    BY <2>5, <2>6, <2>7
<1>7. \A i \in 1 .. n : k + i \in Own /\ makers[i] = tape[k + i].maker
  <2> HIDE DEF makers
  <2>1. \A i \in 1 .. n : k + i \in k + 1 .. Len(tape)
    BY <1>3
  <2>2. QED
    BY <1>1, <1>4, <2>1
<1>8. trades = [i \in 1 .. n |->
                  [id |-> k + i, maker |-> makers[i], taker |-> taker,
                   price |-> B[makers[i]].price,
                   quantity |-> Abstract!Atomic!FillOf(t, makers[i])]]
  <2>1. trades = [i \in DOMAIN makers |->
                    [id |-> Len(before) + i, maker |-> makers[i], taker |-> taker,
                     price |-> B[makers[i]].price,
                     quantity |-> Abstract!Atomic!FillOf(t, makers[i])]]
    BY DEF Abstract!Atomic!TradesOf
  <2>2. DOMAIN makers = 1 .. n
    BY <1>4
  <2> HIDE DEF before, makers, B, trades
  <2>3. QED
    BY <1>6, <2>1, <2>2
<1>9. \A m \in DOMAIN ord \ {taker} : B[m].price = ord[m].price
  BY BeforeKnown DEF Same
<1> HIDE DEF Own, B, before, makers, trades
<1>10. ASSUME NEW i \in 1 .. n PROVE trades[i] = tape[k + i]
  <2>1. k + i \in Own /\ makers[i] = tape[k + i].maker
    BY <1>7
  <2>2. PICK m : m = makers[i]
    OBVIOUS
  <2>3. PICK e : e = tape[k + i]
    OBVIOUS
  <2>4. /\ e \in Trade /\ e.maker = m /\ e.taker = taker /\ e.id = k + i
        /\ e.price = ord[m].price /\ e.quantity = Abstract!OwnFillOf(m)
        /\ m \in DOMAIN ord \ {taker} /\ m \in Abstract!RestingBefore
    BY <1>3, <1>5, <2>1, <2>2, <2>3
  <2>5. trades[i] = [id |-> k + i, maker |-> m, taker |-> taker, price |-> B[m].price,
                     quantity |-> Abstract!Atomic!FillOf(t, m)]
    BY <1>8, <2>2
  <2>6. B[m].price = ord[m].price /\ Abstract!Atomic!FillOf(t, m) = Abstract!OwnFillOf(m)
    BY <1>9, <2>4
  <2>7. e = [id |-> k + i, maker |-> m, taker |-> taker, price |-> B[m].price,
             quantity |-> Abstract!Atomic!FillOf(t, m)]
    BY <2>4, <2>6 DEF Trade
  <2>8. QED
    BY <2>3, <2>5, <2>7
<1>11. trades \in Seq(Trade) /\ Len(trades) = n
  <2>1. \A i \in 1 .. n : tape[k + i] \in Trade
    BY <1>3, <1>5, <1>7
  <2>2. \A i \in 1 .. n : trades[i] \in Trade
    BY <1>10, <2>1
  <2>3. DOMAIN trades = 1 .. n /\ trades = [i \in 1 .. n |-> trades[i]]
    BY <1>8
  <2>4. trades \in [1 .. n -> Trade]
    BY <2>2, <2>3
  <2>5. QED
    BY <2>3, <2>4
<1>12. /\ before \o trades \in Seq(Trade)
       /\ Len(before \o trades) = Len(before) + Len(trades)
       /\ \A i \in 1 .. Len(before) + Len(trades) :
            (before \o trades)[i] =
              IF i <= Len(before) THEN before[i] ELSE trades[i - Len(before)]
  BY <1>6, <1>11, ConcatProperties
<1>13. ASSUME NEW i \in 1 .. Len(tape) PROVE tape[i] = (before \o trades)[i]
  <2>1. (before \o trades)[i] = IF i <= k THEN before[i] ELSE trades[i - k]
    BY <1>3, <1>6, <1>11, <1>12
  <2>2. CASE i <= k
    <3>1. i \in 1 .. k
      BY <1>3, <2>2
    <3>2. QED
      BY <1>6, <2>1, <2>2, <3>1
  <2>3. CASE ~(i <= k)
    <3>1. i - k \in 1 .. n /\ k + (i - k) = i
      BY <1>3, <2>3
    <3>2. trades[i - k] = tape[k + (i - k)]
      BY <1>10, <3>1
    <3>3. QED
      BY <2>1, <2>3, <3>1, <3>2
  <2>4. QED
    BY <2>2, <2>3
<1>14. tape = before \o trades
  <2>1. Len(tape) = Len(before \o trades)
    BY <1>3, <1>6, <1>11, <1>12
  <2>2. QED
    BY <1>3, <1>12, <1>13, <2>1, SeqEqual
<1>15. QED
  BY <1>14 DEF before, trades

\* The empty book maps to the empty book.
LEMMA InitAtomic == Init => Abstract!Atomic!Init
<1> SUFFICES ASSUME Init PROVE Abstract!Atomic!Init
  OBVIOUS
<1>1. taker = None /\ IInv
  BY InitIInv DEF Init
<1>2. Seen
  BY <1>1, BetweenCalls
<1>3. Resting = {}
  BY DEF Init, Resting, Range, EmptyMap
<1>4. QED
  BY <1>2, <1>3, AtomicVocabulary DEF Seen, Init, Abstract!Atomic!Init

\* What the callers see is made of these.
LEMMA Still ==
  ASSUME UNCHANGED <<ord, orders, taker, tape, clock>>
  PROVE  AtomicUnchanged
<1>1. ord' = ord /\ taker' = taker /\ tape' = tape /\ clock' = clock /\ Resting' = Resting
  BY DEF Resting
<1>2. Abstract!OwnFills' = Abstract!OwnFills
  BY <1>1 DEF Abstract!OwnFills
<1>3. \A m : Abstract!OwnFillOf(m)' = Abstract!OwnFillOf(m)
  BY <1>1, <1>2 DEF Abstract!OwnFillOf
<1>4. Abstract!OrdBefore' = Abstract!OrdBefore
  BY <1>1, <1>3 DEF Abstract!OrdBefore
<1>5. QED
  BY <1>1, <1>2, <1>4
  DEF AtomicUnchanged, Abstract!RestingBefore, Abstract!TapeBefore, Abstract!ClockBefore

\* A refusal maps to a refusal.  While an order is being matched only requests
\* that are not valid are refused.
LEMMA RefuseIsAtomic ==
  ASSUME IInv, FillsInv, MatchInv, NEW o \in Order, NEW r \in Request, Refuse(o, r)
  PROVE  Abstract!Atomic!Refuse(o, r)
<1>1. /\ o \notin DOMAIN ord \cup refused /\ refused' = refused \cup {o}
      /\ ~Valid(r) \/ (taker = None /\ r.id \in DOMAIN orders)
      /\ UNCHANGED <<ord, orders, taker, tape, clock>>
  BY DEF Refuse, IsNew
<1>2. AtomicUnchanged
  BY <1>1, Still
<1>3. Abstract!Atomic!IsNew(o)
  <2>1. DOMAIN Abstract!OrdBefore \subseteq DOMAIN ord
    BY DEF Abstract!OrdBefore
  <2>2. QED
    BY <1>1, <2>1 DEF Abstract!Atomic!IsNew
<1>4. ~Abstract!Atomic!Valid(r) \/ Abstract!Atomic!IdResting(r.id)
  <2>1. CASE ~Valid(r)
    BY <2>1, AtomicVocabulary
  <2>2. CASE taker = None /\ r.id \in DOMAIN orders
    <3>1. Abstract!IdResting(r.id)
      BY <2>2, IdRests
    <3>2. Seen
      BY <2>2, BetweenCalls
    <3>3. QED
      BY <3>1, <3>2 DEF Seen, Abstract!IdResting, Abstract!Atomic!IdResting
  <2>3. QED
    BY <1>1, <2>1, <2>2
<1>5. QED
  BY <1>1, <1>2, <1>3, <1>4 DEF Abstract!Atomic!Refuse, AtomicUnchanged

\* A cancel maps to a cancel, or to no step.
LEMMA CancelIsAtomic ==
  ASSUME IInv, IInv', NEW id \in ID, CancelOrder(id)
  PROVE  \/ \E m \in Order : Abstract!Atomic!Cancel(m)
         \/ AtomicUnchanged /\ refused' = refused
<1>1. taker = None /\ taker' = None
  BY DEF CancelOrder, vars
<1>2. Seen /\ Seen'
  BY <1>1, BetweenCalls, BetweenCallsNext
<1>3. (\E m \in Order : Abstract!Cancel(m)) \/ UNCHANGED Abstract!vars
  BY CancelRefines
<1>4. ASSUME NEW m \in Order, Abstract!Cancel(m) PROVE Abstract!Atomic!Cancel(m)
  BY <1>2, <1>4 DEF Seen, Abstract!Cancel, Abstract!Atomic!Cancel
<1>5. ASSUME UNCHANGED Abstract!vars PROVE AtomicUnchanged /\ refused' = refused
  BY <1>2, <1>5 DEF Seen, Abstract!vars, AtomicUnchanged
<1>6. QED
  BY <1>3, <1>4, <1>5

\* The end of the matching is the atomic ProcessOrder.
LEMMA FinishIsProcess ==
  ASSUME IInv, FillsInv, MatchInv, IInv', Finish
  PROVE  \E r \in Request : Abstract!Atomic!Process(taker, r)
<1> DEFINE R == Abstract!RestingBefore
           B == Abstract!OrdBefore
<1>1. /\ taker # None /\ taker' = None
      /\ ord[taker].quantity = 0 \/ Abstract!Counterparties = {}
      /\ Resting' = IF ord[taker].quantity > 0 /\ ord[taker].type = Limit
                    THEN Resting \cup {taker} ELSE Resting
      /\ ord' = ord /\ refused' = refused /\ tape' = tape /\ clock' = clock
  BY FinishRefines, SharedVocabulary DEF Abstract!Complete
<1>2. PICK r \in Request : /\ Valid(r)
                           /\ Same(ord[taker], Accepted(r, clock))
                           /\ ord[taker].original = r.quantity
  BY <1>1 DEF MatchInv, Matching
<1>3. Abstract!OrdBefore' = ord /\ Abstract!RestingBefore' = Resting'
      /\ Abstract!TapeBefore' = tape /\ Abstract!ClockBefore' = clock
  BY <1>1, BetweenCallsNext DEF Seen
<1>4. /\ taker \in DOMAIN ord /\ taker \notin refused /\ ord[taker] \in OrderRec
      /\ clock \in Nat
  BY <1>1, BookFacts
<1>5. Abstract!ClockBefore + 1 = clock
  BY <1>1, <1>4 DEF Abstract!ClockBefore
<1>6. PICK t : t = Accepted(r, clock)
  OBVIOUS
<1>7. /\ Same(t, ord[taker]) /\ t.quantity = ord[taker].original /\ t.type = r.type
      /\ t.id = r.id
      /\ t = Abstract!Atomic!Accepted(r, Abstract!ClockBefore + 1)
  <2>1. Abstract!Atomic!Accepted(r, clock) = Accepted(r, clock)
    BY AtomicVocabulary
  <2>2. QED
    BY <1>2, <1>5, <1>6, <2>1 DEF Same, Accepted
<1>8. \A m \in R : Abstract!Atomic!FillOf(t, m) = Abstract!OwnFillOf(m)
  BY <1>1, <1>7, FillsAreClosedForm
<1>9. tape = Abstract!TapeBefore \o Abstract!Atomic!TradesOf(taker, t)
  BY <1>1, <1>8, TradesKnown
<1>10. /\ DOMAIN B = DOMAIN ord \ {taker}
       /\ \A o \in DOMAIN ord \ {taker} :
            /\ Same(B[o], ord[o])
            /\ B[o].quantity = ord[o].quantity + Abstract!OwnFillOf(o)
            /\ [B[o] EXCEPT !.quantity = B[o].quantity - Abstract!OwnFillOf(o)] = ord[o]
            /\ Abstract!OwnFillOf(o) \in Nat
            /\ o \notin R => B[o] = ord[o]
  BY <1>1, BeforeKnown
<1>11. /\ R \subseteq DOMAIN ord \ {taker} /\ Resting \subseteq R
       /\ \A m \in R : /\ m \notin Resting => ord[m].quantity = 0
                       /\ ord[m].id # ord[taker].id
  BY <1>1, RestingBeforeKnown
<1> HIDE DEF R, B
<1>12. Abstract!Atomic!Remainder(t) = ord[taker].quantity
  <2>1. PICK g : g = [m \in R |-> Abstract!OwnFillOf(m)]
    OBVIOUS
  <2>2. /\ ord[taker].quantity \in Nat
        /\ SumFunctionOnSet(g, R) \in Nat
        /\ ord[taker].original = ord[taker].quantity + SumFunctionOnSet(g, R)
    BY <1>1, <2>1, OwnFillsSum DEF R
  <2>3. [m \in R |-> Abstract!Atomic!FillOf(t, m)] = g
    BY <1>8, <2>1
  <2>4. Abstract!Atomic!Remainder(t) =
          t.quantity - Abstract!Atomic!SumFunctionOnSet([m \in R |-> Abstract!Atomic!FillOf(t, m)], R)
    BY DEF Abstract!Atomic!Remainder, R
  <2>5. Abstract!Atomic!SumFunctionOnSet(g, R) = SumFunctionOnSet(g, R)
    BY AtomicVocabulary
  <2>6. Abstract!Atomic!Remainder(t) = t.quantity - SumFunctionOnSet(g, R)
    BY <2>3, <2>4, <2>5
  <2>7. QED
    BY <1>7, <2>2, <2>6
<1>13. [t EXCEPT !.quantity = Abstract!Atomic!Remainder(t)] = ord[taker]
  <2>1. t = [id |-> r.id, side |-> r.side, type |-> r.type, price |-> r.price,
             quantity |-> r.quantity, original |-> r.quantity, ts |-> clock]
    BY <1>6 DEF Accepted
  <2>2. PICK x \in OrderRec : x = ord[taker]
    BY <1>4
  <2>3. /\ x.id = r.id /\ x.side = r.side /\ x.type = r.type /\ x.price = r.price
        /\ x.original = r.quantity /\ x.ts = clock
    BY <1>2, <2>2 DEF Same, Accepted
  <2>4. [t EXCEPT !.quantity = x.quantity] = x
    BY <2>1, <2>3 DEF OrderRec
  <2>5. QED
    BY <1>12, <2>2, <2>4
<1>14. \A o \in DOMAIN B :
         (IF o \in R THEN [B[o] EXCEPT !.quantity = B[o].quantity - Abstract!Atomic!FillOf(t, o)]
          ELSE B[o]) = ord[o]
  BY <1>8, <1>10
<1>15. ord = Abstract!Atomic!Put([o \in DOMAIN B |->
               IF o \in R THEN [B[o] EXCEPT !.quantity = B[o].quantity - Abstract!Atomic!FillOf(t, o)]
               ELSE B[o]], taker, ord[taker])
  <2>1. [o \in DOMAIN B |->
           IF o \in R THEN [B[o] EXCEPT !.quantity = B[o].quantity - Abstract!Atomic!FillOf(t, o)]
           ELSE B[o]] = [o \in DOMAIN ord \ {taker} |-> ord[o]]
    BY <1>10, <1>14
  <2>2. ord = [o \in DOMAIN ord |-> ord[o]]
    BY DEF IInv, TypeOK
  <2>3. Put([o \in DOMAIN ord \ {taker} |-> ord[o]], taker, ord[taker])
          = [o \in DOMAIN ord |-> ord[o]]
    BY <1>4 DEF Put
  <2>4. QED
    BY <2>1, <2>2, <2>3, AtomicVocabulary
<1>16. {m \in R : Abstract!Atomic!FillOf(t, m) = B[m].quantity} = R \ Resting
  <2>1. SUFFICES ASSUME NEW m \in R
                 PROVE  Abstract!Atomic!FillOf(t, m) = B[m].quantity <=> m \notin Resting
    OBVIOUS
  <2>2. /\ B[m].quantity = ord[m].quantity + Abstract!OwnFillOf(m)
        /\ Abstract!OwnFillOf(m) \in Nat
        /\ Abstract!Atomic!FillOf(t, m) = Abstract!OwnFillOf(m)
        /\ m \notin Resting => ord[m].quantity = 0
        /\ m \in DOMAIN ord
    BY <1>8, <1>10, <1>11
  <2>3. ord[m].quantity \in Nat /\ (m \in Resting => ord[m].quantity > 0)
    BY <2>2, BookFacts DEF OrderRec
  <2>4. QED
    BY <2>2, <2>3
<1>17. Abstract!Atomic!IsNew(taker)
  BY <1>4, <1>10 DEF Abstract!Atomic!IsNew, B
<1>18. Abstract!Atomic!Valid(r) /\ Abstract!Atomic!Limit = Limit
  BY <1>2, AtomicVocabulary
<1>19. ~Abstract!Atomic!IdResting(r.id)
  <2>1. \A m \in R : B[m].id = ord[m].id
    BY <1>10, <1>11 DEF Same
  <2>2. ord[taker].id = r.id
    BY <1>2 DEF Same, Accepted
  <2>3. QED
    BY <1>11, <2>1, <2>2 DEF Abstract!Atomic!IdResting, B, R
<1>20. Resting' = (R \ {m \in R : Abstract!Atomic!FillOf(t, m) = B[m].quantity})
                    \cup (IF ord[taker].quantity > 0 /\ r.type = Limit THEN {taker} ELSE {})
  <2>1. ord[taker].type = r.type
    BY <1>2 DEF Same, Accepted
  <2>2. R \ (R \ Resting) = Resting
    BY <1>11
  <2>3. QED
    BY <1>1, <1>16, <2>1, <2>2
<1>21. Abstract!Atomic!Process(taker, r)
  BY <1>1, <1>3, <1>5, <1>7, <1>9, <1>12, <1>13, <1>15, <1>17, <1>18, <1>19, <1>20
  DEF Abstract!Atomic!Process, B, R
<1>22. QED
  BY <1>21

\* One step, by action.
LEMMA NextIsAtomic ==
  ASSUME IInv, FillsInv, MatchInv, IInv', [Next]_vars
  PROVE  [Abstract!Atomic!Next]_(Abstract!Atomic!bookVars)
<1>1. ASSUME AtomicUnchanged, refused' = refused
      PROVE  UNCHANGED Abstract!Atomic!bookVars
  BY <1>1 DEF AtomicUnchanged, Abstract!Atomic!bookVars
<1>2. ASSUME NEW o \in Order, NEW r \in Request, Refuse(o, r)
      PROVE  Abstract!Atomic!Next
  BY <1>2, RefuseIsAtomic DEF Abstract!Atomic!Next
<1>3. ASSUME NEW o \in Order, NEW r \in Request, Accept(o, r)
      PROVE  UNCHANGED Abstract!Atomic!bookVars
  <2>1. refused' = refused
    BY <1>3 DEF Accept
  <2>2. AtomicUnchanged
    BY <1>3, AcceptUnseen
  <2>3. QED
    BY <1>1, <2>1, <2>2
<1>4. CASE Fill
  <2>1. PICK m \in Order, q \in Nat : Trades(m, q)
    BY <1>4, FillTrades
  <2>2. refused' = refused
    BY <2>1 DEF Trades
  <2>3. AtomicUnchanged
    BY <2>1, FillUnseen
  <2>4. QED
    BY <1>1, <2>2, <2>3
<1>5. CASE Finish
  <2>1. PICK r \in Request : Abstract!Atomic!Process(taker, r)
    BY <1>5, FinishIsProcess
  <2>2. taker \in Order
    BY <1>5, BookFacts DEF Finish
  <2>3. QED
    BY <2>1, <2>2 DEF Abstract!Atomic!Next
<1>6. ASSUME NEW id \in ID, CancelOrder(id)
      PROVE  [Abstract!Atomic!Next]_(Abstract!Atomic!bookVars)
  <2>1. \/ \E m \in Order : Abstract!Atomic!Cancel(m)
        \/ AtomicUnchanged /\ refused' = refused
    BY <1>6, CancelIsAtomic
  <2>2. CASE \E m \in Order : Abstract!Atomic!Cancel(m)
    BY <2>2 DEF Abstract!Atomic!Next
  <2>3. CASE AtomicUnchanged /\ refused' = refused
    BY <1>1, <2>3
  <2>4. QED
    BY <2>1, <2>2, <2>3
<1>7. CASE UNCHANGED vars
  <2>1. UNCHANGED <<ord, orders, taker, tape, clock>> /\ refused' = refused
    BY <1>7 DEF vars
  <2>2. AtomicUnchanged
    BY <2>1, Still
  <2>3. QED
    BY <1>1, <2>1, <2>2
<1>8. QED
  BY <1>2, <1>3, <1>4, <1>5, <1>6, <1>7 DEF Next

\* The book implements AtomicBook: seen through the lock, every ProcessOrder
\* call, the loops of match and matchLevel included, is one change of the book
\* that takes from each resting order what the closed form says.
THEOREM AtomicRefinement == Spec => ImplementsAtomicBook
<1>1. Init => Abstract!Atomic!Init
  BY InitAtomic
<1>2. Init => MatchInv
  <2>1. ASSUME Init PROVE taker = None /\ Resting = {}
    BY <2>1 DEF Init, Resting, Range, EmptyMap
  <2>2. QED
    BY <2>1, FS_EmptySet DEF MatchInv
<1>3. IInv /\ FillsInv /\ MatchInv /\ [Next]_vars => MatchInv'
  BY NextMatchInv
<1>4. IInv /\ FillsInv /\ MatchInv /\ IInv' /\ [Next]_vars
        => [Abstract!Atomic!Next]_(Abstract!Atomic!bookVars)
  BY NextIsAtomic
<1>5. QED
  BY <1>1, <1>2, <1>3, <1>4, Invariance, FillsAlways, PTL
  DEF Spec, ImplementsAtomicBook, Abstract!ImplementsAtomicBook, Abstract!Atomic!Spec

-----------------------------------------------------------------------------
(* The running volumes. *)

\* Wrapping before an addition changes nothing: what overflowed comes back.
LEMMA WrapAdds ==
  ASSUME NEW a \in Int, NEW b \in Int
  PROVE  Wrap(a) \in Int /\ Wrap(Wrap(a) + b) = Wrap(a + b)
<1> DEFINE m == 2 * HalfWord
           j == (a + HalfWord) \div m
           r == (a + HalfWord) % m
<1>1. m \in Nat \ {0} /\ a + HalfWord \in Int /\ HalfWord \in Int
  BY BookAssumption
<1> HIDE DEF m
<1>2. a + HalfWord = m * j + r /\ j \in Int /\ r \in Int
  BY <1>1, Quotient
<1> HIDE DEF j, r
<1>3. Wrap(a) = r - HalfWord
  BY DEF Wrap, m, r
<1>4. (r + b + m * j) % m = (r + b) % m
  BY <1>1, <1>2, Multiples, r + b \in Int
<1>5. r + b + m * j = a + b + HalfWord /\ (Wrap(a) + b) + HalfWord = r + b
  BY <1>1, <1>2, <1>3
<1>6. Wrap(Wrap(a) + b) = ((r + b) % m) - HalfWord
  BY <1>5 DEF Wrap, m
<1>7. Wrap(a + b) = ((r + b + m * j) % m) - HalfWord
  BY <1>5 DEF Wrap, m
<1>8. QED
  BY <1>1, <1>2, <1>3, <1>4, <1>6, <1>7

\* A level queues finitely many accepted orders, and never the taker.
LEMMA QueueSet ==
  ASSUME IInv, NEW s \in Side, NEW p \in DOMAIN levels[s]
  PROVE  /\ IsFiniteSet(Range(Queue(s, p)))
         /\ \A n \in Range(Queue(s, p)) :
              /\ n \in Resting /\ n # taker
              /\ n \in DOMAIN ord /\ ord[n].side = s /\ ord[n].price = p
              /\ ord[n].quantity \in Nat /\ ord[n].quantity > 0
<1> DEFINE q == Queue(s, p)
<1>1. q \in Seq(Order) /\ Len(q) \in Nat /\ DOMAIN q = 1 .. Len(q)
  BY LevelShape DEF IInv
<1>2. \A n \in Range(q) : \E i \in DOMAIN q : n = q[i]
  BY DEF Range
<1>3. \A n \in Range(q) :
        /\ n \in Resting /\ n # taker
        /\ n \in DOMAIN ord /\ ord[n].side = s /\ ord[n].price = p
        /\ ord[n].quantity > 0
  <2> HIDE DEF q
  <2>1. \A i \in DOMAIN q : /\ q[i] \in Resting /\ q[i] # taker
                            /\ q[i] \in DOMAIN ord
                            /\ ord[q[i]].side = s /\ ord[q[i]].price = p
                            /\ ord[q[i]].quantity > 0
    BY Queued, QueuedRests DEF q
  <2>2. QED
    BY <1>2, <2>1
<1>4. \A n \in DOMAIN ord : ord[n].quantity \in Nat
  BY DEF IInv, TypeOK, OrderRec
<1>5. IsFiniteSet(Range(q))
  <2> HIDE DEF q
  <2>1. q \in Surjection(1 .. Len(q), Range(q))
    BY <1>1 DEF Surjection, Range
  <2>2. IsFiniteSet(1 .. Len(q))
    BY <1>1, FS_Interval
  <2>3. QED
    BY <2>1, <2>2, FS_Surjection
<1>6. QED
  BY <1>3, <1>4, <1>5

\* What remains of the orders of a level, and its sum, are numbers.
LEMMA LevelSum ==
  ASSUME IInv, VolumeIsSum, NEW s \in Side, NEW p \in DOMAIN levels[s]
  PROVE  /\ \A n \in Range(Queue(s, p)) :
              Remaining[n] = ord[n].quantity /\ Remaining[n] \in Int
         /\ SumFunctionOnSet(Remaining, Range(Queue(s, p))) \in Int
         /\ levels[s][p].volume = Wrap(SumFunctionOnSet(Remaining, Range(Queue(s, p))))
<1> DEFINE Q == Range(Queue(s, p))
<1>1. IsFiniteSet(Q) /\ \A n \in Q : n \in DOMAIN ord /\ ord[n].quantity \in Nat
  BY QueueSet
<1>2. levels[s][p].volume = Wrap(SumFunctionOnSet(Remaining, Q))
  BY DEF VolumeIsSum
<1> HIDE DEF Q
<1>3. \A n \in Q : Remaining[n] = ord[n].quantity /\ Remaining[n] \in Int
  BY <1>1 DEF Remaining
<1>4. SumFunctionOnSet(Remaining, Q) \in Int
  BY <1>1, <1>3, SumSplits
<1>5. QED
  BY <1>2, <1>3, <1>4 DEF Q

\* A level none of whose orders changes.
LEMMA LevelStays ==
  ASSUME IInv, VolumeIsSum, NEW s \in Side, NEW p \in DOMAIN levels[s],
         \A n \in Range(Queue(s, p)) : Remaining'[n] = Remaining[n]
  PROVE  levels[s][p].volume = Wrap(SumFunctionOnSet(Remaining', Range(Queue(s, p))))
<1> DEFINE Q == Range(Queue(s, p))
           R == Remaining
           N == Remaining'
<1>1. IsFiniteSet(Q) /\ levels[s][p].volume = Wrap(SumFunctionOnSet(R, Q))
  BY QueueSet, LevelSum
<1>2. \A n \in Q : R[n] = N[n]
  OBVIOUS
<1> HIDE DEF Q, R, N
<1>3. SumFunctionOnSet(R, Q) = SumFunctionOnSet(N, Q)
  BY <1>1, <1>2, SumOfSame
<1>4. QED
  BY <1>1, <1>3 DEF Q, N

\* A level with one order whose remainder shrinks by q.
LEMMA LevelReduced ==
  ASSUME IInv, VolumeIsSum, NEW s \in Side, NEW p \in DOMAIN levels[s],
         NEW m \in Range(Queue(s, p)), NEW q \in Int,
         Remaining'[m] = Remaining[m] - q,
         \A n \in Range(Queue(s, p)) \ {m} : Remaining'[n] = Remaining[n]
  PROVE  Wrap(levels[s][p].volume - q) =
           Wrap(SumFunctionOnSet(Remaining', Range(Queue(s, p))))
<1> DEFINE Q == Range(Queue(s, p))
           R == Remaining
           N == Remaining'
           was == SumFunctionOnSet(R, Q)
<1>1. /\ IsFiniteSet(Q) /\ levels[s][p].volume = Wrap(was) /\ was \in Int
      /\ \A n \in Q : R[n] \in Int
  BY QueueSet, LevelSum
<1>2. /\ \A n \in Q \ {m} : R[n] = N[n]
      /\ N[m] = R[m] - q /\ m \in Q
  OBVIOUS
<1> HIDE DEF Q, R, N, was
<1>3. IsFiniteSet(Q \ {m}) /\ \A n \in Q : N[n] \in Int
  BY <1>1, <1>2, FS_RemoveElement
<1>4. SumFunctionOnSet(R, Q \ {m}) = SumFunctionOnSet(N, Q \ {m})
  BY <1>2, <1>3, SumOfSame
<1>5. was = R[m] + SumFunctionOnSet(R, Q \ {m})
  BY <1>1, <1>2, SumSplits DEF was
<1>6. SumFunctionOnSet(N, Q) = N[m] + SumFunctionOnSet(N, Q \ {m})
  BY <1>1, <1>2, <1>3, SumSplits
<1>7. SumFunctionOnSet(N, Q \ {m}) \in Int
  <2>1. \A n \in Q \ {m} : N[n] \in Int
    BY <1>3
  <2>2. QED
    BY <1>3, <2>1, SumSplits
<1>8. SumFunctionOnSet(N, Q) = was + (-q) /\ -q \in Int
  BY <1>1, <1>2, <1>4, <1>5, <1>6, <1>7
<1>9. Wrap(Wrap(was) + (-q)) = Wrap(was + (-q)) /\ Wrap(was) \in Int
  BY <1>1, <1>8, WrapAdds
<1>10. Wrap(was) + (-q) = Wrap(was) - q
  BY <1>9
<1>11. QED
  BY <1>1, <1>8, <1>9, <1>10 DEF Q, N

\* A level one of whose orders leaves with all that remains of it.
LEMMA LevelShrinks ==
  ASSUME IInv, VolumeIsSum, NEW s \in Side, NEW p \in DOMAIN levels[s],
         NEW m \in Range(Queue(s, p)),
         \A n \in Range(Queue(s, p)) \ {m} : Remaining'[n] = Remaining[n]
  PROVE  Wrap(levels[s][p].volume - ord[m].quantity) =
           Wrap(SumFunctionOnSet(Remaining', Range(Queue(s, p)) \ {m}))
<1> DEFINE Q == Range(Queue(s, p))
           R == Remaining
           N == Remaining'
           was == SumFunctionOnSet(R, Q)
           q == ord[m].quantity
<1>1. /\ IsFiniteSet(Q) /\ levels[s][p].volume = Wrap(was) /\ was \in Int
      /\ (\A n \in Q : R[n] \in Int) /\ R[m] = q
  BY QueueSet, LevelSum
<1>2. (\A n \in Q \ {m} : R[n] = N[n]) /\ m \in Q
  OBVIOUS
<1> HIDE DEF Q, R, N, was, q
<1>3. IsFiniteSet(Q \ {m})
  BY <1>1, FS_RemoveElement
<1>4. SumFunctionOnSet(R, Q \ {m}) = SumFunctionOnSet(N, Q \ {m})
  BY <1>2, <1>3, SumOfSame
<1>5. was = R[m] + SumFunctionOnSet(R, Q \ {m})
  BY <1>1, <1>2, SumSplits DEF was
<1>6. SumFunctionOnSet(R, Q \ {m}) \in Int /\ q \in Int
  <2>1. \A n \in Q \ {m} : R[n] \in Int
    BY <1>1
  <2>2. QED
    BY <1>1, <1>2, <1>3, <2>1, SumSplits
<1>7. SumFunctionOnSet(N, Q \ {m}) = was + (-q) /\ -q \in Int
  BY <1>1, <1>4, <1>5, <1>6
<1>8. Wrap(Wrap(was) + (-q)) = Wrap(was + (-q)) /\ Wrap(was) \in Int
  BY <1>1, <1>7, WrapAdds
<1>9. Wrap(was) + (-q) = Wrap(was) - q
  BY <1>6, <1>8
<1>10. QED
  BY <1>1, <1>7, <1>8, <1>9 DEF Q, N, q

\* TakeOff with all that remains of o, by a fill or a cancel.
LEMMA TakeOffVolumes ==
  ASSUME IInv, VolumeIsSum, NEW o \in Resting, NEW shorter,
         Without(ord[o].side, ord[o].price, shorter),
         TakeOff(o, ord[o].quantity, shorter),
         \A n \in DOMAIN ord : n # o /\ n # taker => Remaining'[n] = Remaining[n]
  PROVE  VolumeIsSum'
<1> DEFINE s == ord[o].side
           p == ord[o].price
           l == Unlink(levels[s][p], o, ord[o].quantity)
<1>1. /\ o \in DOMAIN ord /\ s \in Side /\ p \in DOMAIN levels[s]
      /\ o \in Range(Queue(s, p)) /\ ord[o].quantity \in Int
  <2>1. /\ o \in DOMAIN ord /\ s \in Side /\ p \in DOMAIN levels[s]
        /\ \E i \in DOMAIN Queue(s, p) : Queue(s, p)[i] = o
    BY Indexed
  <2>2. o \in Range(Queue(s, p))
    BY <2>1 DEF Range
  <2>3. QED
    BY <2>1, <2>2 DEF IInv, TypeOK, OrderRec
<1>2. /\ DOMAIN levels' = Side
      /\ \A t \in Side \ {s} : levels'[t] = levels[t]
      /\ \A x \in DOMAIN levels'[s] \ {p} : levels'[s][x] = levels[s][x]
      /\ p \in DOMAIN levels'[s] => levels'[s][p] = l
  BY <1>1, TakeOffEffect
<1>3. \A t \in Side : \A x \in DOMAIN levels'[t] :
        /\ x \in DOMAIN levels[t]
        /\ Range(levels'[t][x].queue) = Range(Queue(t, x)) \ {o}
  BY <1>1, TakeOffQueues
<1>4. l.volume = Wrap(levels[s][p].volume - ord[o].quantity)
  BY DEF Unlink
<1> HIDE DEF s, p, l
<1>5. ASSUME NEW t \in Side, NEW x \in DOMAIN levels'[t]
      PROVE  levels'[t][x].volume =
               Wrap(SumFunctionOnSet(Remaining', Range(levels'[t][x].queue)))
  <2>1. x \in DOMAIN levels[t] /\ Range(levels'[t][x].queue) = Range(Queue(t, x)) \ {o}
    BY <1>3
  <2>2. \A n \in Range(Queue(t, x)) \ {o} : Remaining'[n] = Remaining[n]
    BY <2>1, QueueSet
  <2>3. CASE t = s /\ x = p
    <3>1. levels'[t][x].volume = Wrap(levels[s][p].volume - ord[o].quantity)
      BY <1>2, <1>4, <2>3
    <3>2. QED
      BY <1>1, <2>1, <2>2, <2>3, <3>1, LevelShrinks
  <2>4. CASE ~(t = s /\ x = p)
    <3>1. levels'[t][x] = levels[t][x]
      BY <1>2, <2>1, <2>4
    <3>2. o \notin Range(Queue(t, x))
      BY <2>1, <2>4, QueueSet DEF s, p
    <3>3. /\ Range(levels'[t][x].queue) = Range(Queue(t, x))
          /\ \A n \in Range(Queue(t, x)) : Remaining'[n] = Remaining[n]
      BY <2>1, <2>2, <3>2
    <3>4. levels[t][x].volume = Wrap(SumFunctionOnSet(Remaining', Range(Queue(t, x))))
      BY <2>1, <3>3, LevelStays
    <3>5. QED
      BY <3>1, <3>3, <3>4
  <2>5. QED
    BY <2>3, <2>4
<1>6. QED
  BY <1>5 DEF VolumeIsSum, Queue

\* A fill, whether or not the maker survives it.
LEMMA FillVolumes ==
  ASSUME IInv, VolumeIsSum, Fill
  PROVE  VolumeIsSum'
<1> DEFINE s == Opposite(ord[taker].side)
           p == Head(prices[s])
           m == Head(levels[s][p].queue)
           q == Lesser(ord[taker].quantity, ord[m].quantity)
<1>1. /\ taker # None /\ CanMatch
      /\ q \in Nat \ {0}
      /\ DOMAIN ord' = DOMAIN ord
      /\ ord' \in [DOMAIN ord -> OrderRec]
      /\ \A n \in DOMAIN ord \ {taker, m} : ord'[n] = ord[n]
      /\ ord'[m] = [ord[m] EXCEPT !.quantity = @ - q]
  BY FillOrders
<1>2. /\ s \in Side /\ prices[s] # <<>> /\ p \in DOMAIN levels[s]
      /\ m \in Resting /\ m # taker /\ m \in DOMAIN ord
      /\ ord[m] \in OrderRec /\ ord[m].side = s /\ ord[m].price = p
      /\ 1 \in DOMAIN Queue(s, p) /\ m = Queue(s, p)[1]
  BY <1>1, BestMaker
<1>3. \/ ord[m].quantity = q /\ TakeOff(m, q, Tail(prices[s]))
      \/ /\ ord[m].quantity # q
         /\ levels' = [levels EXCEPT ![s] = Put(@, p, Reduce(@[p], q))]
         /\ prices' = prices /\ orders' = orders
  BY DEF Fill
<1>4. Without(ord[m].side, ord[m].price, Tail(prices[s]))
  <2> HIDE DEF s, m
  <2>1. p = Head(prices[s])
    BY DEF p
  <2> HIDE DEF p
  <2>2. /\ Tail(prices[s]) \in Seq(PriceRange)
        /\ Sorted(s, Tail(prices[s]))
        /\ Range(Tail(prices[s])) = Range(prices[s]) \ {p}
    BY <1>2, <2>1, TailSorted, SlicesSorted
  <2>3. QED
    BY <1>2, <2>2 DEF Without
<1> HIDE DEF s, p, m, q
<1>5. \A n \in DOMAIN ord : n # m /\ n # taker => Remaining'[n] = Remaining[n]
  BY <1>1 DEF Remaining
<1>6. CASE ord[m].quantity = q /\ TakeOff(m, q, Tail(prices[s]))
  BY <1>2, <1>4, <1>5, <1>6, TakeOffVolumes
<1>7. CASE /\ ord[m].quantity # q
           /\ levels' = [levels EXCEPT ![s] = Put(@, p, Reduce(@[p], q))]
           /\ prices' = prices /\ orders' = orders
  <2>1. DOMAIN levels = Side /\ levels[s][p] \in PriceLevel
    BY <1>2 DEF IInv, TypeOK
  <2> DEFINE l == Reduce(levels[s][p], q)
  <2>2. l.queue = levels[s][p].queue /\ l.volume = Wrap(levels[s][p].volume - q)
    BY <2>1 DEF Reduce, PriceLevel
  <2>3. /\ DOMAIN levels' = Side
        /\ \A t \in Side \ {s} : levels'[t] = levels[t]
        /\ levels'[s] = Put(levels[s], p, l)
    <3>1. levels' = [levels EXCEPT ![s] = Put(levels[s], p, l)]
      BY <1>7
    <3> HIDE DEF l
    <3>2. QED
      BY <1>2, <2>1, <3>1
  <2> HIDE DEF l
  <2>4. /\ DOMAIN levels'[s] = DOMAIN levels[s]
        /\ levels'[s][p] = l
        /\ \A x \in DOMAIN levels[s] \ {p} : levels'[s][x] = levels[s][x]
    BY <1>2, <2>3 DEF Put
  <2>5. m \in Range(Queue(s, p))
    BY <1>2 DEF Range
  <2>6. Remaining'[m] = Remaining[m] - q
    <3>1. ord'[m].quantity = ord[m].quantity - q
      BY <1>1, <1>2 DEF OrderRec
    <3>2. QED
      BY <1>1, <1>2, <3>1 DEF Remaining
  <2>7. ASSUME NEW t \in Side, NEW x \in DOMAIN levels'[t]
        PROVE  levels'[t][x].volume =
                 Wrap(SumFunctionOnSet(Remaining', Range(levels'[t][x].queue)))
    <3>1. x \in DOMAIN levels[t] /\ levels'[t][x].queue = Queue(t, x)
      BY <1>2, <2>2, <2>3, <2>4 DEF Queue
    <3>2. \A n \in Range(Queue(t, x)) \ {m} : Remaining'[n] = Remaining[n]
      BY <1>5, <3>1, QueueSet
    <3>3. CASE t = s /\ x = p
      <4>1. levels'[t][x].volume = Wrap(levels[s][p].volume - q)
        BY <2>2, <2>4, <3>3
      <4>2. QED
        BY <1>1, <1>2, <2>5, <2>6, <3>1, <3>2, <3>3, <4>1, LevelReduced
    <3>4. CASE ~(t = s /\ x = p)
      <4>1. levels'[t][x] = levels[t][x]
        BY <2>3, <2>4, <3>1, <3>4
      <4>2. m \notin Range(Queue(t, x))
        BY <1>2, <3>1, <3>4, QueueSet
      <4>3. \A n \in Range(Queue(t, x)) : Remaining'[n] = Remaining[n]
        BY <3>2, <4>2
      <4>4. levels[t][x].volume = Wrap(SumFunctionOnSet(Remaining', Range(Queue(t, x))))
        BY <3>1, <4>3, LevelStays
      <4>5. QED
        BY <3>1, <4>1, <4>4
    <3>5. QED
      BY <3>3, <3>4
  <2>8. QED
    BY <2>7 DEF VolumeIsSum, Queue
<1>8. QED
  BY <1>3, <1>6, <1>7

\* Queues and volumes that stay, of orders that stay.
LEMMA VolumesStay ==
  ASSUME IInv, VolumeIsSum, levels' = levels,
         \A n \in DOMAIN ord : Remaining'[n] = Remaining[n]
  PROVE  VolumeIsSum'
<1>1. ASSUME NEW s \in Side, NEW p \in DOMAIN levels[s]
      PROVE  levels[s][p].volume =
               Wrap(SumFunctionOnSet(Remaining', Range(Queue(s, p))))
  <2>1. \A n \in Range(Queue(s, p)) : Remaining'[n] = Remaining[n]
    BY QueueSet
  <2>2. QED
    BY <2>1, LevelStays
<1>2. QED
  BY <1>1 DEF VolumeIsSum, Queue

\* A remainder joins its level.
LEMMA RestVolumes ==
  ASSUME IInv, VolumeIsSum, taker # None, ord[taker].quantity > 0,
         ord[taker].type = Limit, AddToBook(taker), ord' = ord
  PROVE  VolumeIsSum'
<1> DEFINE s == ord[taker].side
           p == ord[taker].price
           known == p \in DOMAIN levels[s]
           Q == Range(Joined(s, p))
           R == Remaining
           was == SumFunctionOnSet(R, Q)
           q == ord[taker].quantity
           before == IF known THEN levels[s][p].volume ELSE 0
<1>1. /\ s \in Side /\ p \in PriceRange
      /\ DOMAIN levels' = Side
      /\ \A t \in Side \ {s} : levels'[t] = levels[t]
      /\ DOMAIN levels'[s] = DOMAIN levels[s] \cup {p}
      /\ \A x \in DOMAIN levels[s] \ {p} : levels'[s][x] = levels[s][x]
      /\ levels'[s][p].queue = Append(Joined(s, p), taker)
  BY AddToBookEffect
<1>2. levels'[s][p].volume = Wrap(before + q)
  <2> DEFINE l == IF known THEN levels[s][p] ELSE NewPriceLevel
             n == PushBack(l, taker, q)
  <2>1. levels' = [levels EXCEPT ![s] = Put(@, p, n)]
    BY DEF AddToBook
  <2>2. l.volume = before /\ n.volume = Wrap(l.volume + q)
    BY DEF NewPriceLevel, PushBack
  <2> HIDE DEF n, l
  <2>3. levels'[s] = Put(levels[s], p, n)
    BY <1>1, <2>1 DEF IInv, TypeOK
  <2>4. levels'[s][p] = n
    BY <2>3 DEF Put
  <2>5. QED
    BY <2>2, <2>4
<1>3. taker \in DOMAIN ord /\ taker \in Order /\ q \in Int /\ R[taker] = q
  BY DEF IInv, TypeOK, OrderRec, Remaining
<1>4. IsFiniteSet(Q) /\ (\A n \in Q : R[n] \in Int) /\ taker \notin Q
  <2>1. CASE known
    <3>1. Q = Range(Queue(s, p))
      BY <2>1 DEF Joined
    <3>2. s \in Side /\ p \in DOMAIN levels[s]
      BY <1>1, <2>1
    <3> HIDE DEF Q, R, s, p
    <3>3. IsFiniteSet(Range(Queue(s, p))) /\ \A n \in Range(Queue(s, p)) : n # taker
      BY <3>2, QueueSet
    <3>4. \A n \in Range(Queue(s, p)) : R[n] \in Int
      BY <3>2, LevelSum DEF R
    <3>5. QED
      BY <3>1, <3>3, <3>4
  <2>2. CASE ~known
    <3>1. Q = {}
      BY <2>2 DEF Joined, Range
    <3>2. QED
      BY <3>1, FS_EmptySet
  <2>3. QED
    BY <2>1, <2>2
<1>5. before = Wrap(was)
  <2>1. CASE known
    BY <1>1, <2>1, LevelSum DEF Joined
  <2>2. CASE ~known
    <3>1. Q = {} /\ before = 0
      BY <2>2 DEF Joined, Range
    <3>2. was = 0
      BY <3>1, SumOfNone
    <3>3. Wrap(0) = 0
      <4>1. HalfWord \in Nat \ {0}
        BY BookAssumption
      <4>2. (0 + HalfWord) % (2 * HalfWord) = HalfWord
        BY <4>1
      <4>3. QED
        BY <4>1, <4>2 DEF Wrap
    <3>4. QED
      BY <3>1, <3>2, <3>3
  <2>3. QED
    BY <2>1, <2>2
<1>6. Range(levels'[s][p].queue) = Q \cup {taker}
  <2> DEFINE j == Joined(s, p)
  <2>1. j \in Seq(Order)
    BY <1>1, JoinedShape
  <2>2. levels'[s][p].queue = Append(j, taker) /\ Q = Range(j)
    BY <1>1
  <2> HIDE DEF j, Q, s, p
  <2>3. /\ Append(j, taker) \in Seq(Order) /\ Len(j) \in Nat
        /\ DOMAIN j = 1 .. Len(j)
        /\ DOMAIN Append(j, taker) = DOMAIN j \cup {Len(j) + 1}
        /\ \A i \in DOMAIN j : Append(j, taker)[i] = j[i]
        /\ Append(j, taker)[Len(j) + 1] = taker
    BY <1>3, <2>1, AppendProperties
  <2>4. Range(Append(j, taker)) = Range(j) \cup {taker}
    BY <2>3, ZenonT(30) DEF Range
  <2>5. QED
    BY <2>2, <2>4
<1> HIDE DEF s, p, known, Q, R, q, before
<1>7. SumFunctionOnSet(R, Q \cup {taker}) = q + was /\ was \in Int
  BY <1>3, <1>4, SumJoins
<1>8. levels'[s][p].volume = Wrap(SumFunctionOnSet(R, Q \cup {taker}))
  <2>1. Wrap(Wrap(was) + q) = Wrap(was + q)
    BY <1>3, <1>7, WrapAdds
  <2>2. was + q = q + was
    BY <1>3, <1>7
  <2>3. QED
    BY <1>2, <1>5, <1>7, <2>1, <2>2
<1>9. Remaining' = R
  BY DEF Remaining, R
<1>10. ASSUME NEW t \in Side, NEW x \in DOMAIN levels'[t]
       PROVE  levels'[t][x].volume =
                Wrap(SumFunctionOnSet(R, Range(levels'[t][x].queue)))
  <2>1. CASE t = s /\ x = p
    BY <1>6, <1>8, <2>1
  <2>2. CASE ~(t = s /\ x = p)
    <3>1. x \in DOMAIN levels[t] /\ levels'[t][x] = levels[t][x]
      BY <1>1, <2>2
    <3>2. QED
      BY <3>1 DEF VolumeIsSum, Queue, R
  <2>3. QED
    BY <2>1, <2>2
<1>11. QED
  BY <1>9, <1>10 DEF VolumeIsSum, Queue

\* Every step keeps the running volumes.
LEMMA NextVolumes ==
  ASSUME IInv, VolumeIsSum, [Next]_vars
  PROVE  VolumeIsSum'
<1>1. ASSUME levels' = levels, ord' = ord
      PROVE  VolumeIsSum'
  BY <1>1, VolumesStay DEF Remaining
<1>2. ASSUME NEW o \in Order, NEW r \in Request, Accept(o, r)
      PROVE  VolumeIsSum'
  <2>1. o \notin DOMAIN ord /\ levels' = levels /\ ord' = Put(ord, o, Accepted(r, clock + 1))
    BY <1>2 DEF Accept, IsNew
  <2>2. \A n \in DOMAIN ord : Remaining'[n] = Remaining[n]
    BY <2>1 DEF Remaining, Put
  <2>3. QED
    BY <2>1, <2>2, VolumesStay
<1>3. ASSUME NEW o \in Order, NEW r \in Request, Refuse(o, r)
      PROVE  VolumeIsSum'
  BY <1>1, <1>3 DEF Refuse
<1>4. CASE Fill
  BY <1>4, FillVolumes
<1>5. CASE Finish
  <2>1. taker # None /\ ord' = ord
    BY <1>5 DEF Finish
  <2>2. CASE ord[taker].quantity > 0 /\ ord[taker].type = Limit /\ AddToBook(taker)
    BY <2>1, <2>2, RestVolumes
  <2>3. CASE UNCHANGED <<levels, prices, orders>>
    BY <1>1, <2>1, <2>3
  <2>4. QED
    BY <1>5, <2>2, <2>3 DEF Finish
<1>6. ASSUME NEW id \in ID, CancelOrder(id)
      PROVE  VolumeIsSum'
  <2>1. CASE id \notin DOMAIN orders
    BY <1>1, <1>6, <2>1 DEF CancelOrder, vars
  <2>2. CASE id \in DOMAIN orders
    <3> DEFINE o == orders[id]
               s == ord[o].side
               p == ord[o].price
               shorter == RemoveSorted(s, prices[s], p)
    <3>1. TakeOff(o, ord[o].quantity, shorter) /\ ord' = ord
      BY <1>6, <2>2 DEF CancelOrder
    <3>2. o \in Resting
      BY <2>2 DEF Resting, Range
    <3>3. Without(s, p, shorter)
      BY <3>2, CancelledSlice
    <3>4. \A n \in DOMAIN ord : Remaining'[n] = Remaining[n]
      BY <3>1 DEF Remaining
    <3> HIDE DEF o, shorter
    <3>5. QED
      BY <3>1, <3>2, <3>3, <3>4, TakeOffVolumes
  <2>3. QED
    BY <2>1, <2>2
<1>7. CASE UNCHANGED vars
  BY <1>1, <1>7 DEF vars
<1>8. QED
  BY <1>2, <1>3, <1>4, <1>5, <1>6, <1>7 DEF Next

\* VolumeIsSum holds in every reachable state: the deltas of fills, cancels and
\* rests add up, past the end of an int64 too.
THEOREM VolumesAddUp == Spec => []VolumeIsSum
<1>1. Init => VolumeIsSum
  BY DEF Init, VolumeIsSum, EmptyMap
<1>2. IInv /\ VolumeIsSum /\ [Next]_vars => VolumeIsSum'
  BY NextVolumes
<1>3. QED
  BY <1>1, <1>2, Invariance, PTL DEF Spec

-----------------------------------------------------------------------------
(* What a depth snapshot says. *)

\* The resting orders of a side, and those of a price.
Mine(s) == {o \in Resting : ord[o].side = s}
At(s, p) == {o \in Mine(s) : ord[o].price = p}
Quoted(s) == {ord[o].price : o \in Mine(s)}

\* The levels of a side are the prices its resting orders quote, and the queue
\* of a level holds the orders that quote its price, once each.
LEMMA LevelsAreQuotes ==
  ASSUME IInv, NEW s \in Side
  PROVE  /\ \A p \in DOMAIN levels[s] :
              /\ At(s, p) = Range(Queue(s, p))
              /\ Cardinality(At(s, p)) = Len(Queue(s, p))
         /\ Quoted(s) = DOMAIN levels[s]
<1>1. ASSUME NEW o \in Mine(s)
      PROVE  /\ ord[o].price \in DOMAIN levels[s]
             /\ o \in Range(Queue(s, ord[o].price))
  <2>1. o \in Resting /\ ord[o].side = s
    BY DEF Mine
  <2>2. /\ ord[o].price \in DOMAIN levels[s]
        /\ \E i \in DOMAIN Queue(s, ord[o].price) : Queue(s, ord[o].price)[i] = o
    BY <2>1, Indexed
  <2>3. QED
    BY <2>2 DEF Range
<1>2. ASSUME NEW p \in DOMAIN levels[s], NEW o \in Range(Queue(s, p))
      PROVE  o \in Mine(s) /\ ord[o].price = p
  BY QueueSet DEF Mine
<1>3. ASSUME NEW p \in DOMAIN levels[s]
      PROVE  At(s, p) = Range(Queue(s, p))
  BY <1>1, <1>2 DEF At
<1>4. ASSUME NEW p \in DOMAIN levels[s]
      PROVE  Cardinality(Range(Queue(s, p))) = Len(Queue(s, p))
  <2>1. Queue(s, p) \in Seq(Order)
    BY LevelShape DEF IInv
  <2>2. \A i, j \in DOMAIN Queue(s, p) : i # j => Queue(s, p)[i] # Queue(s, p)[j]
    BY QueuedOnce
  <2>3. QED
    BY <2>1, <2>2, InjectiveCounts
<1>5. ASSUME NEW p \in DOMAIN levels[s]
      PROVE  p \in Quoted(s)
  <2>1. 1 \in DOMAIN Queue(s, p)
    <3>1. Queue(s, p) \in Seq(Order) /\ Queue(s, p) # <<>>
      BY LevelShape DEF IInv, BookConsistent, QueuesHoldLiveOrders
    <3>2. QED
      BY <3>1
  <2>2. Queue(s, p)[1] \in Range(Queue(s, p))
    BY <2>1 DEF Range
  <2>3. QED
    BY <1>2, <2>2 DEF Quoted
<1>6. Quoted(s) = DOMAIN levels[s]
  BY <1>1, <1>5 DEF Quoted
<1>7. QED
  BY <1>3, <1>4, <1>6

\* In a sorted slice the i-th price is the one with i - 1 better ones.
LEMMA SliceRanks ==
  ASSUME NEW s \in Side, NEW ps \in Seq(PriceRange), Sorted(s, ps)
  PROVE  /\ Cardinality(Range(ps)) = Len(ps)
         /\ \A i \in DOMAIN ps :
              Cardinality({p \in Range(ps) : Precedes(s, p, ps[i])}) = i - 1
<1>1. Len(ps) \in Nat /\ DOMAIN ps = 1 .. Len(ps) /\ \A i \in DOMAIN ps : ps[i] \in Int
  BY DEF PriceRange
<1>2. \A i, j \in DOMAIN ps : i < j <=> Precedes(s, ps[i], ps[j])
  <2>1. SUFFICES ASSUME NEW i \in DOMAIN ps, NEW j \in DOMAIN ps
                 PROVE  i < j <=> Precedes(s, ps[i], ps[j])
    OBVIOUS
  <2>2. i \in Nat /\ j \in Nat /\ ps[i] \in Int /\ ps[j] \in Int
    BY <1>1
  <2>3. (i < j => Precedes(s, ps[i], ps[j])) /\ (j < i => Precedes(s, ps[j], ps[i]))
    BY DEF Sorted
  <2>4. QED
    BY <2>2, <2>3 DEF Precedes
<1>3. \A i, j \in DOMAIN ps : i # j => ps[i] # ps[j]
  <2>1. SUFFICES ASSUME NEW i \in DOMAIN ps, NEW j \in DOMAIN ps, i # j
                 PROVE  ps[i] # ps[j]
    OBVIOUS
  <2>2. i \in Nat /\ j \in Nat /\ ps[i] \in Int /\ ps[j] \in Int
    BY <1>1
  <2>3. ~Precedes(s, ps[i], ps[i])
    BY <2>2 DEF Precedes
  <2>4. QED
    BY <1>2, <2>1, <2>2, <2>3
<1>4. ASSUME NEW i \in DOMAIN ps
      PROVE  Cardinality({p \in Range(ps) : Precedes(s, p, ps[i])}) = i - 1
  <2> DEFINE q == [j \in 1 .. i - 1 |-> ps[j]]
  <2>1. i \in Nat /\ i - 1 \in Nat /\ \A j \in 1 .. i - 1 : j \in DOMAIN ps /\ j < i
    BY <1>1
  <2>2. q \in Seq(PriceRange) /\ DOMAIN q = 1 .. i - 1
    BY <2>1
  <2>3. Len(q) = i - 1
    BY <2>1, <2>2
  <2>4. \A j, k \in DOMAIN q : j # k => q[j] # q[k]
    BY <1>3, <2>1, <2>2
  <2>5. Range(q) = {p \in Range(ps) : Precedes(s, p, ps[i])}
    <3>1. ASSUME NEW p \in Range(q)
          PROVE  p \in Range(ps) /\ Precedes(s, p, ps[i])
      <4>1. PICK j \in 1 .. i - 1 : p = ps[j]
        BY DEF Range
      <4>2. QED
        BY <1>2, <2>1, <4>1 DEF Range
    <3>2. ASSUME NEW p \in Range(ps), Precedes(s, p, ps[i])
          PROVE  p \in Range(q)
      <4>1. PICK j \in DOMAIN ps : p = ps[j]
        BY DEF Range
      <4>2. j < i
        BY <1>2, <3>2, <4>1
      <4>3. j \in 1 .. i - 1
        BY <1>1, <2>1, <4>2
      <4>4. QED
        BY <4>1, <4>3 DEF Range
    <3> HIDE DEF q
    <3>3. QED
      BY <3>1, <3>2
  <2> HIDE DEF q
  <2>6. Cardinality(Range(q)) = Len(q)
    BY <2>2, <2>4, InjectiveCounts
  <2>7. QED
    BY <2>3, <2>5, <2>6
<1>5. Cardinality(Range(ps)) = Len(ps)
  BY <1>3, InjectiveCounts
<1>6. QED
  BY <1>4, <1>5

\* The resting orders at the first k prices of a side.
Upto(s, k) == {o \in Mine(s) : \E i \in 1 .. k : ord[o].price = prices[s][i]}

\* One more price adds the orders of its level.
LEMMA UptoGrows ==
  ASSUME IInv, NEW s \in Side, NEW k \in 1 .. Len(prices[s])
  PROVE  LET Q == Range(Queue(s, prices[s][k]))
         IN /\ prices[s][k] \in DOMAIN levels[s]
            /\ Upto(s, k) = Upto(s, k - 1) \cup Q
            /\ Upto(s, k - 1) \cap Q = {}
<1> DEFINE p == prices[s][k]
           Q == Range(Queue(s, p))
<1>1. /\ prices[s] \in Seq(PriceRange) /\ DOMAIN levels[s] = Range(prices[s])
      /\ Sorted(s, prices[s])
  BY SlicesSorted DEF IInv, BookConsistent, SlicesMatchMaps
<1>2. Len(prices[s]) \in Nat /\ DOMAIN prices[s] = 1 .. Len(prices[s]) /\ k \in Nat
  BY <1>1
<1>3. p \in DOMAIN levels[s]
  BY <1>1, <1>2 DEF Range
<1>4. Q = {o \in Mine(s) : ord[o].price = p}
  BY <1>3, LevelsAreQuotes DEF At
<1>5. 1 .. k = (1 .. k - 1) \cup {k}
  BY <1>2
<1>6. \A i \in 1 .. k - 1 : prices[s][i] # p
  <2>1. SUFFICES ASSUME NEW i \in 1 .. k - 1 PROVE prices[s][i] # p
    OBVIOUS
  <2>2. i \in DOMAIN prices[s] /\ k \in DOMAIN prices[s] /\ i < k
    BY <1>2
  <2>3. Precedes(s, prices[s][i], p) /\ p \in Int
    BY <1>1, <2>2 DEF Sorted, PriceRange
  <2>4. QED
    BY <2>3 DEF Precedes
<1> HIDE DEF p, Q
<1>7. Upto(s, k) = Upto(s, k - 1) \cup Q
  BY <1>4, <1>5 DEF Upto, p
<1>8. Upto(s, k - 1) \cap Q = {}
  BY <1>4, <1>6 DEF Upto
<1>9. QED
  BY <1>3, <1>7, <1>8 DEF p, Q

\* Adding wrapped volumes up and wrapping the total wraps the sum of it all.
LEMMA VolumesTotal ==
  ASSUME IInv, VolumeIsSum, NEW s \in Side, NEW k \in 0 .. Len(prices[s])
  PROVE  /\ IsFiniteSet(Upto(s, k))
         /\ SumFunctionOnSet(Remaining, Upto(s, k)) \in Int
         /\ Wrap(SumFunctionOnSet(Volumes(s), 1 .. k)) =
              Wrap(SumFunctionOnSet(Remaining, Upto(s, k)))
<1> DEFINE n == Len(prices[s])
           R == Remaining
           V == Volumes(s)
           Good(j) == /\ IsFiniteSet(Upto(s, j))
                      /\ \A o \in Upto(s, j) : R[o] \in Int
                      /\ Wrap(SumFunctionOnSet(V, 1 .. j)) =
                           Wrap(SumFunctionOnSet(R, Upto(s, j)))
           T == {j \in 0 .. n : ~Good(j)}
<1>1. prices[s] \in Seq(PriceRange) /\ n \in Nat /\ DOMAIN prices[s] = 1 .. n
  BY SlicesSorted
<1>2. Good(0)
  <2>1. 1 .. 0 = {} /\ Upto(s, 0) = {}
    BY DEF Upto
  <2>2. SumFunctionOnSet(V, {}) = 0 /\ SumFunctionOnSet(R, {}) = 0
    BY SumOfNone
  <2> HIDE DEF V, R
  <2>3. QED
    BY <2>1, <2>2, FS_EmptySet
<1>3. ASSUME NEW j \in 1 .. n
      PROVE  V[j] = levels[s][prices[s][j]].volume /\ V[j] \in Int
  <2>1. V[j] = levels[s][prices[s][j]].volume
    BY <1>1 DEF Volumes
  <2>2. prices[s][j] \in DOMAIN levels[s]
    BY UptoGrows
  <2>3. levels[s][prices[s][j]].volume \in Int
    BY <2>2, LevelShape DEF IInv
  <2>4. QED
    BY <2>1, <2>3
<1>4. ASSUME NEW j \in 1 .. n, Good(j - 1)
      PROVE  Good(j)
  <2> DEFINE p == prices[s][j]
             Q == Range(Queue(s, p))
             U == Upto(s, j - 1)
             J == 1 .. j - 1
             a == SumFunctionOnSet(V, J)
             b == SumFunctionOnSet(R, U)
             c == SumFunctionOnSet(R, Q)
  <2>1. p \in DOMAIN levels[s] /\ Upto(s, j) = U \cup Q /\ U \cap Q = {}
    BY UptoGrows
  <2>2. /\ IsFiniteSet(Q) /\ (\A o \in Q : R[o] \in Int) /\ c \in Int
        /\ V[j] = Wrap(c)
    <3>1. V[j] = levels[s][p].volume
      BY <1>3
    <3>2. QED
      BY <2>1, <3>1, QueueSet, LevelSum
  <2>3. IsFiniteSet(U) /\ (\A o \in U : R[o] \in Int) /\ Wrap(a) = Wrap(b)
    BY <1>4
  <2>4. /\ IsFiniteSet(J) /\ j \notin J /\ 1 .. j = J \cup {j}
        /\ \A i \in J : V[i] \in Int
    <3>1. \A i \in J : i \in 1 .. n
      BY <1>1
    <3>2. j \notin J /\ 1 .. j = J \cup {j} /\ j - 1 \in Int
      BY <1>1
    <3>3. IsFiniteSet(J)
      BY <3>2, FS_Interval
    <3>4. QED
      BY <1>3, <3>1, <3>2, <3>3
  <2>5. V[j] \in Int
    BY <1>3
  <2> HIDE DEF V, R, Q, U, J, p
  <2>6. a \in Int /\ SumFunctionOnSet(V, J \cup {j}) = V[j] + a
    BY <2>4, <2>5, SumJoins
  <2>7. b \in Int /\ SumFunctionOnSet(R, U \cup Q) = b + c
    BY <2>1, <2>2, <2>3, SumOfUnion, SumSplits
  <2> HIDE DEF a, b, c
  <2>8. Wrap(Wrap(c) + a) = Wrap(c + a) /\ Wrap(Wrap(a) + c) = Wrap(a + c)
        /\ Wrap(Wrap(b) + c) = Wrap(b + c)
    BY <2>2, <2>6, <2>7, WrapAdds
  <2>9. c + a = a + c
    BY <2>2, <2>6
  <2>10. Wrap(V[j] + a) = Wrap(b + c)
    BY <2>2, <2>3, <2>8, <2>9
  <2>11. IsFiniteSet(U \cup Q) /\ \A o \in U \cup Q : R[o] \in Int
    BY <2>2, <2>3, FS_Union
  <2>12. QED
    BY <2>1, <2>4, <2>6, <2>7, <2>10, <2>11
<1> HIDE DEF Good, n
<1>5. T = {}
  <2>1. SUFFICES ASSUME T # {} PROVE FALSE
    OBVIOUS
  <2>2. T \subseteq Nat
    OBVIOUS
  <2>3. PICK j \in T : \A i \in T : j <= i
    BY <2>1, <2>2, LeastNat
  <2>4. j \in 0 .. n /\ ~Good(j)
    BY <2>3
  <2>5. j \in 1 .. n /\ j - 1 \in 0 .. n
    <3>1. j # 0
      BY <1>2, <2>4
    <3>2. QED
      BY <1>1, <2>4, <3>1
  <2>6. Good(j - 1)
    <3>1. j - 1 \notin T
      BY <2>2, <2>3, <2>5
    <3>2. QED
      BY <2>5, <3>1
  <2>7. QED
    BY <1>4, <2>4, <2>5, <2>6
<1>6. Good(k)
  <2>1. k \in 0 .. n
    BY DEF n
  <2>2. QED
    BY <1>5, <2>1
<1>7. QED
  BY <1>6, SumSplits DEF Good

\* A snapshot of a side.
LEMMA DepthOfSide ==
  ASSUME IInv, VolumeIsSum, NEW s \in Side
  PROVE  LET sumOf(S) == Wrap(SumFunctionOnSet(Remaining, S))
             top      == DepthLevels(s)
         IN /\ Len(top) = Lesser(MaxDepthLevels, Cardinality(Quoted(s)))
            /\ \A i \in DOMAIN top :
                 /\ Cardinality({p \in Quoted(s) : Precedes(s, p, top[i].price)}) = i - 1
                 /\ top[i].volume = sumOf(At(s, top[i].price))
                 /\ top[i].count = Cardinality(At(s, top[i].price))
            /\ TotalVolume(s) = sumOf(Mine(s))
            /\ IF Mine(s) = {} THEN BestPrice(s) = None
               ELSE /\ BestPrice(s) \in Quoted(s)
                    /\ \A p \in Quoted(s) : ~Precedes(s, p, BestPrice(s))
<1> DEFINE ps == prices[s]
           n == Lesser(MaxDepthLevels, Len(ps))
           top == DepthLevels(s)
<1>1. /\ ps \in Seq(PriceRange) /\ Sorted(s, ps) /\ Range(ps) = DOMAIN levels[s]
      /\ Len(ps) \in Nat /\ DOMAIN ps = 1 .. Len(ps)
  BY SlicesSorted DEF IInv, BookConsistent, SlicesMatchMaps
<1>2. Quoted(s) = Range(ps)
  BY <1>1, LevelsAreQuotes
<1>3. /\ Cardinality(Range(ps)) = Len(ps)
      /\ \A i \in DOMAIN ps :
           Cardinality({p \in Range(ps) : Precedes(s, p, ps[i])}) = i - 1
  BY <1>1, SliceRanks
<1>4. n \in 0 .. Len(ps) /\ n \in Nat
  BY <1>1, BookAssumption DEF Lesser
<1>5. /\ DOMAIN top = 1 .. n
      /\ \A i \in 1 .. n :
           /\ top[i].price = ps[i]
           /\ top[i].volume = levels[s][ps[i]].volume
           /\ top[i].count = Len(Queue(s, ps[i]))
  BY DEF DepthLevels, Queue
<1>6. Len(top) = n
  BY <1>4 DEF DepthLevels
<1> HIDE DEF ps, n, top
<1>7. ASSUME NEW i \in DOMAIN top
      PROVE  /\ Cardinality({p \in Quoted(s) : Precedes(s, p, top[i].price)}) = i - 1
             /\ top[i].volume = Wrap(SumFunctionOnSet(Remaining, At(s, top[i].price)))
             /\ top[i].count = Cardinality(At(s, top[i].price))
  <2>1. /\ i \in 1 .. n /\ i \in DOMAIN ps /\ ps[i] \in DOMAIN levels[s]
        /\ top[i].price = ps[i]
        /\ top[i].volume = levels[s][ps[i]].volume
        /\ top[i].count = Len(Queue(s, ps[i]))
    <3>1. i \in 1 .. n /\ i \in DOMAIN ps
      BY <1>1, <1>4, <1>5
    <3>2. ps[i] \in Range(ps)
      BY <3>1 DEF Range
    <3>3. QED
      BY <1>1, <1>5, <3>1, <3>2
  <2>2. At(s, ps[i]) = Range(Queue(s, ps[i]))
        /\ Cardinality(At(s, ps[i])) = Len(Queue(s, ps[i]))
    BY <2>1, LevelsAreQuotes
  <2>3. levels[s][ps[i]].volume = Wrap(SumFunctionOnSet(Remaining, Range(Queue(s, ps[i]))))
    BY <2>1, LevelSum
  <2>4. QED
    BY <1>2, <1>3, <2>1, <2>2, <2>3
<1>8. TotalVolume(s) = Wrap(SumFunctionOnSet(Remaining, Mine(s)))
  <2>1. Upto(s, Len(ps)) = Mine(s)
    <3>1. \A o \in Mine(s) : ord[o].price \in Range(ps)
      BY <1>2 DEF Quoted
    <3>2. QED
      BY <1>1, <3>1 DEF Upto, Range, ps
  <2>2. Wrap(SumFunctionOnSet(Volumes(s), 1 .. Len(ps))) =
          Wrap(SumFunctionOnSet(Remaining, Upto(s, Len(ps))))
    BY <1>1, VolumesTotal DEF ps
  <2>3. QED
    BY <1>1, <2>1, <2>2 DEF TotalVolume, ps
<1>9. IF Mine(s) = {} THEN BestPrice(s) = None
      ELSE /\ BestPrice(s) \in Quoted(s)
           /\ \A p \in Quoted(s) : ~Precedes(s, p, BestPrice(s))
  <2>1. CASE Mine(s) = {}
    <3>1. Range(ps) = {}
      BY <1>2, <2>1 DEF Quoted
    <3>2. ps = <<>>
      <4>1. \A i \in DOMAIN ps : ps[i] \in Range(ps)
        BY DEF Range
      <4>2. DOMAIN ps = {}
        BY <3>1, <4>1
      <4>3. QED
        BY <1>1, <4>2
    <3>3. QED
      BY <2>1, <3>2 DEF BestPrice, ps
  <2>2. CASE Mine(s) # {}
    <3>1. PICK o \in Mine(s) : TRUE
      BY <2>2
    <3>2. ord[o].price \in Range(ps)
      BY <1>2 DEF Quoted
    <3>3. ps # <<>> /\ 1 \in DOMAIN ps
      <4>1. DOMAIN ps # {}
        BY <3>2 DEF Range
      <4>2. QED
        BY <1>1, <4>1
    <3>4. BestPrice(s) = ps[1]
      BY <1>1, <3>3 DEF BestPrice, ps
    <3>5. ps[1] \in Range(ps)
      BY <3>3 DEF Range
    <3>6. ASSUME NEW p \in Range(ps) PROVE ~Precedes(s, p, ps[1])
      <4>1. PICK i \in DOMAIN ps : p = ps[i]
        BY DEF Range
      <4>2. i = 1 \/ Precedes(s, ps[1], ps[i])
        BY <1>1, <3>3 DEF Sorted
      <4>3. ps[1] \in Int /\ ps[i] \in Int
        BY <1>1, <3>3 DEF PriceRange
      <4>4. QED
        BY <4>1, <4>2, <4>3 DEF Precedes
    <3>7. QED
      BY <1>2, <2>2, <3>4, <3>5, <3>6
  <2>3. QED
    BY <2>1, <2>2
<1>10. QED
  BY <1>2, <1>3, <1>6, <1>7, <1>8, <1>9 DEF top, n

\* DepthFaithful holds in every reachable state: what a snapshot reads from the
\* slices and the running volumes is what the resting orders add up to.
THEOREM DepthIsFaithful == Spec => []DepthFaithful
<1>1. IInv /\ VolumeIsSum => DepthFaithful
  BY DepthOfSide DEF DepthFaithful, Mine, At, Quoted
<1>2. QED
  BY <1>1, Invariance, VolumesAddUp, PTL

-----------------------------------------------------------------------------
(* The pointers of LinkedLevels spell the queues of OrderBook.             *)

(* One queue. *)

\* The ends e and the links k spell queue q of the level of side s and price p.
Spells(k, e, s, p, q) ==
  /\ e = [head |-> q[1], tail |-> q[Len(q)], count |-> Len(q)]
  /\ \A i \in DOMAIN q :
       k[q[i]] = [prev |-> Before(q, i), next |-> After(q, i), level |-> <<s, p>>]

\* A struct with one of its pointers changed.
LEMMA NodeExcept ==
  ASSUME NEW a, NEW b, NEW c, NEW v, NEW x,
         x = [prev |-> a, next |-> b, level |-> c]
  PROVE  /\ [x EXCEPT !.next = v] = [prev |-> a, next |-> v, level |-> c]
         /\ [x EXCEPT !.prev = v] = [prev |-> v, next |-> b, level |-> c]
OBVIOUS

\* Taking the n-th order out of a queue: its neighbours are linked to each
\* other, the ends move when it was at one, and nothing else changes.
LEMMA UnlinkSpells ==
  ASSUME NEW s, NEW p, NEW e, NEW q \in Seq(Order), NEW n \in 1 .. Len(q),
         \A i, j \in 1 .. Len(q) : q[i] = q[j] => i = j,
         Spells(link, e, s, p, q)
  PROVE  LET o == q[n]
             r == RemoveAt(q, n)
         IN /\ Shortened(e, o).head = None <=> r = <<>>
            /\ r # <<>> => Spells(Relink(o), Shortened(e, o), s, p, r)
            /\ Relink(o)[o] = Unlinked
            /\ \A x \in Order : x \notin Range(q) => Relink(o)[x] = link[x]
<1> DEFINE o == q[n]
           r == RemoveAt(q, n)
           L == Len(q)
<1>1. /\ L \in Nat /\ DOMAIN q = 1 .. L
      /\ \A i \in 1 .. L : q[i] \in Order /\ q[i] # None
  BY LenProperties, ElementOfSeq, OrdersAssumption
<1>2. /\ r \in Seq(Order) /\ Len(r) = L - 1
      /\ \A i \in 1 .. L - 1 : r[i] = IF i < n THEN q[i] ELSE q[i + 1]
  BY RemoveAtProperties
<1>3. DOMAIN r = 1 .. L - 1
  BY <1>1, <1>2, LenProperties
<1>4. r = <<>> <=> L = 1
  BY <1>1, <1>2, EmptySeq
<1>5. /\ e.head = q[1] /\ e.tail = q[L] /\ e.count = L
      /\ \A i \in 1 .. L :
           link[q[i]] = [prev |-> IF i = 1 THEN None ELSE q[i - 1],
                         next |-> IF i = L THEN None ELSE q[i + 1], level |-> <<s, p>>]
  BY <1>1 DEF Spells, Before, After
<1>9. o = q[n] /\ n \in 1 .. L /\ o \in Order
      /\ \A i, j \in 1 .. L : q[i] = q[j] => i = j
  BY <1>1
<1>8. Relink(o) =
        [x \in Order |->
           CASE x = o -> Unlinked
             [] x # o /\ x = link[o].prev -> [link[x] EXCEPT !.next = link[o].next]
             [] x # o /\ x = link[o].next -> [link[x] EXCEPT !.prev = link[o].prev]
             [] OTHER -> link[x]]
  BY DEF Relink
<1> HIDE DEF o, r, L
<1>6. /\ link[o].prev = IF n = 1 THEN None ELSE q[n - 1]
      /\ link[o].next = IF n = L THEN None ELSE q[n + 1]
  <2>1. link[o] = [prev |-> IF n = 1 THEN None ELSE q[n - 1],
                   next |-> IF n = L THEN None ELSE q[n + 1], level |-> <<s, p>>]
    BY <1>5, <1>9
  <2> QED BY <2>1
<1>7. Shortened(e, o) =
        [head |-> IF n = 1 THEN (IF L = 1 THEN None ELSE q[2]) ELSE q[1],
         tail |-> IF n = L THEN (IF L = 1 THEN None ELSE q[L - 1]) ELSE q[L],
         count |-> L - 1]
  <2>1. link[o].prev = None <=> n = 1
    BY <1>1, <1>6, <1>9
  <2>2. link[o].next = None <=> n = L
    BY <1>1, <1>6, <1>9
  <2>3. n = 1 => link[o].next = IF L = 1 THEN None ELSE q[2]
    BY <1>1, <1>6, <1>9
  <2>4. n = L => link[o].prev = IF L = 1 THEN None ELSE q[L - 1]
    BY <1>1, <1>6, <1>9
  <2> QED BY <1>5, <2>1, <2>2, <2>3, <2>4 DEF Shortened
<1>10. Relink(o)[o] = Unlinked
  BY <1>8, <1>9
<1>11. ASSUME NEW x \in Order, x \notin Range(q) PROVE Relink(o)[x] = link[x]
  <2>1. x # o /\ x # link[o].prev /\ x # link[o].next
    BY <1>1, <1>6, <1>9, <1>11, OrdersAssumption DEF Range
  <2> QED BY <1>8, <2>1
<1>12. Shortened(e, o).head = None <=> r = <<>>
  BY <1>1, <1>4, <1>7, <1>9
<1>13. ASSUME L # 1 PROVE Spells(Relink(o), Shortened(e, o), s, p, r)
  <2>1. Shortened(e, o) = [head |-> r[1], tail |-> r[Len(r)], count |-> Len(r)]
    BY <1>1, <1>2, <1>7, <1>9, <1>13
  <2>2. ASSUME NEW i \in 1 .. L - 1
        PROVE  Relink(o)[r[i]] = [prev |-> Before(r, i), next |-> After(r, i),
                                  level |-> <<s, p>>]
    <3>1. /\ Before(r, i) = IF i = 1 THEN None ELSE r[i - 1]
          /\ After(r, i) = IF i = L - 1 THEN None ELSE r[i + 1]
      BY <1>2 DEF Before, After
    <3>2. CASE i < n - 1
      <4>1. r[i] = q[i] /\ (i # 1 => r[i - 1] = q[i - 1]) /\ r[i + 1] = q[i + 1]
            /\ i # L - 1 /\ i # L /\ i \in 1 .. L
        BY <1>1, <1>2, <1>9, <3>2
      <4>2. q[i] # o /\ q[i] # link[o].prev /\ q[i] # link[o].next
        BY <1>1, <1>6, <1>9, <3>2, <4>1
      <4>3. Relink(o)[q[i]] = link[q[i]]
        BY <1>1, <1>8, <4>1, <4>2
      <4> QED BY <1>5, <3>1, <4>1, <4>3
    <3>3. CASE i = n - 1
      <4>0. /\ i < n /\ i \in 1 .. L /\ i # L /\ (i = L - 1 <=> n = L)
            /\ i # 1 => i - 1 \in 1 .. L - 1 /\ i - 1 < n
            /\ i # L - 1 => i + 1 \in 1 .. L - 1 /\ ~(i + 1 < n) /\ i + 2 = n + 1
        BY <1>1, <1>9, <3>3
      <4>1. r[i] = q[i] /\ (i # 1 => r[i - 1] = q[i - 1])
            /\ (i # L - 1 => r[i + 1] = q[n + 1]) /\ i \in 1 .. L /\ i # L
            /\ (i = L - 1 <=> n = L)
        BY <1>2, <4>0
      <4>2. q[i] # o /\ q[i] = link[o].prev /\ q[i] # link[o].next
        BY <1>1, <1>6, <1>9, <3>3, <4>1
      <4>3. Relink(o)[q[i]] = [link[q[i]] EXCEPT !.next = link[o].next]
        BY <1>1, <1>8, <4>1, <4>2
      <4>4. link[q[i]] = [prev |-> IF i = 1 THEN None ELSE q[i - 1],
                          next |-> o, level |-> <<s, p>>]
        BY <1>1, <1>5, <1>9, <3>3, <4>1
      <4>5. Relink(o)[q[i]] = [prev |-> IF i = 1 THEN None ELSE q[i - 1],
                               next |-> link[o].next, level |-> <<s, p>>]
        BY <4>3, <4>4, NodeExcept, SMTT(30)
      <4> QED BY <1>6, <3>1, <4>1, <4>5
    <3>4. CASE i = n
      <4>0. /\ ~(i < n) /\ i + 1 \in 1 .. L /\ i + 1 # 1 /\ (i = L - 1 <=> i + 1 = L) /\ n # L
            /\ i # 1 => i - 1 \in 1 .. L - 1 /\ i - 1 < n /\ i - 1 = n - 1
            /\ i # L - 1 => i + 1 \in 1 .. L - 1 /\ ~(i + 1 < n)
        BY <1>1, <1>9, <3>4
      <4>1. r[i] = q[i + 1] /\ (i # 1 => r[i - 1] = q[n - 1])
            /\ (i # L - 1 => r[i + 1] = q[i + 2]) /\ i + 1 \in 1 .. L /\ i + 1 # 1
            /\ (i = L - 1 <=> i + 1 = L) /\ n # L
        BY <1>2, <4>0
      <4>2. q[i + 1] # o /\ q[i + 1] # link[o].prev /\ q[i + 1] = link[o].next
        BY <1>1, <1>6, <1>9, <3>4, <4>1
      <4>3. Relink(o)[q[i + 1]] = [link[q[i + 1]] EXCEPT !.prev = link[o].prev]
        BY <1>1, <1>8, <4>1, <4>2
      <4>4. link[q[i + 1]] = [prev |-> o, next |-> IF i + 1 = L THEN None ELSE q[i + 2],
                              level |-> <<s, p>>]
        BY <1>1, <1>5, <1>9, <3>4, <4>1
      <4>5. Relink(o)[q[i + 1]] = [prev |-> link[o].prev,
                                   next |-> IF i + 1 = L THEN None ELSE q[i + 2],
                                   level |-> <<s, p>>]
        <5>1. [link[q[i + 1]] EXCEPT !.prev = link[o].prev]
              = [prev |-> link[o].prev, next |-> IF i + 1 = L THEN None ELSE q[i + 2],
                 level |-> <<s, p>>]
          <6> DEFINE b == IF i + 1 = L THEN None ELSE q[i + 2]
          <6>1. link[q[i + 1]] = [prev |-> o, next |-> b, level |-> <<s, p>>]
            BY <4>4
          <6> HIDE DEF b
          <6>2. [link[q[i + 1]] EXCEPT !.prev = link[o].prev]
                = [prev |-> link[o].prev, next |-> b, level |-> <<s, p>>]
            BY <6>1, NodeExcept
          <6> QED BY <6>2 DEF b
        <5> QED BY <4>3, <5>1
      <4> QED BY <1>6, <3>1, <3>4, <4>1, <4>5
    <3>5. CASE i > n
      <4>0. i + 1 \in 1 .. L /\ i - 1 \in 1 .. L - 1 /\ ~(i - 1 < n)
            /\ (i # L - 1 => i + 1 \in 1 .. L - 1)
        BY <1>1, <1>9, <3>5
      <4>1. r[i] = q[i + 1] /\ r[i - 1] = q[i] /\ i # 1
            /\ (i # L - 1 => r[i + 1] = q[i + 2]) /\ i + 1 \in 1 .. L /\ i + 1 # 1
            /\ (i = L - 1 <=> i + 1 = L)
        BY <1>1, <1>2, <1>9, <3>5, <4>0
      <4>2. q[i + 1] # o /\ q[i + 1] # link[o].prev /\ q[i + 1] # link[o].next
        BY <1>1, <1>6, <1>9, <3>5, <4>1
      <4>3. Relink(o)[q[i + 1]] = link[q[i + 1]]
        BY <1>1, <1>8, <4>1, <4>2
      <4> QED BY <1>5, <3>1, <4>1, <4>3
    <3> QED BY <1>9, <3>2, <3>3, <3>4, <3>5
  <2> QED BY <1>3, <2>1, <2>2 DEF Spells
<1> QED BY <1>4, <1>10, <1>11, <1>12, <1>13 DEF o, r

-----------------------------------------------------------------------------
(* All queues. *)

\* LinksFaithful, level by level, with what it rests on.
LInv == IInv /\ DOMAIN ends = Side /\ LinksFaithful

\* LinksFaithful by Spells.
LEMMA LinksSpell ==
  LinksFaithful <=>
    /\ \A s \in Side :
         /\ DOMAIN ends[s] = DOMAIN levels[s]
         /\ \A p \in DOMAIN levels[s] : Spells(link, ends[s][p], s, p, Queue(s, p))
    /\ \A o \in Order \ Resting : link[o] = Unlinked
BY DEF LinksFaithful, Spells

\* The queues of different levels share no order.
LEMMA QueuesApart ==
  ASSUME IInv, NEW s \in Side, NEW p \in DOMAIN levels[s],
         NEW t \in Side, NEW x \in DOMAIN levels[t], s # t \/ p # x,
         NEW o \in Range(Queue(t, x))
  PROVE  o \notin Range(Queue(s, p))
<1>1. ord[o].side = t /\ ord[o].price = x
  BY Queued DEF Range
<1>2. \A n \in Range(Queue(s, p)) : ord[n].side = s /\ ord[n].price = p
  BY Queued DEF Range
<1> QED BY <1>1, <1>2

\* When the links of a queue stay, it is still spelled.
LEMMA SpellsStill ==
  ASSUME NEW k, NEW l, NEW e, NEW s, NEW p, NEW q, Spells(k, e, s, p, q),
         \A o \in Range(q) : l[o] = k[o]
  PROVE  Spells(l, e, s, p, q)
BY DEF Spells, Range

\* An order leaves the book, by a fill or a cancel.
LEMMA UnlinkOrderKeeps ==
  ASSUME LInv, NEW o \in Resting, NEW quantity \in Int, NEW shorter,
         Without(ord[o].side, ord[o].price, shorter),
         TakeOff(o, quantity, shorter), UnlinkOrder(o),
         Resting' = Resting \ {o}
  PROVE  DOMAIN ends' = Side /\ LinksFaithful'
<1> DEFINE s == ord[o].side
           p == ord[o].price
           q == Queue(s, p)
           l == Unlink(levels[s][p], o, quantity)
           e == Shortened(ends[s][p], o)
<1>1. s \in Side /\ p \in DOMAIN levels[s] /\ \E i \in DOMAIN q : q[i] = o
  BY Indexed DEF LInv
<1>2. q \in Seq(Order) /\ DOMAIN q = 1 .. Len(q)
  BY <1>1, LevelShape DEF LInv, IInv
<1>3. \A i, j \in 1 .. Len(q) : q[i] = q[j] => i = j
  BY <1>1, <1>2, QueuedOnce DEF LInv
<1>4. PICK n \in 1 .. Len(q) : q[n] = o
  BY <1>1, <1>2
<1>5. l.queue = RemoveAt(q, n)
  <2>1. l.queue = RemoveFirst(q, o)
    BY DEF Unlink, Queue
  <2> HIDE DEF q, l
  <2>2. \E k \in 1 .. Len(q) : q[k] = o /\ RemoveFirst(q, o) = RemoveAt(q, k)
    BY <1>2, <1>4, RemoveFirstProperties
  <2> QED BY <1>3, <1>4, <2>1, <2>2
<1>6. /\ DOMAIN levels' = Side
      /\ \A t \in Side \ {s} : levels'[t] = levels[t]
      /\ \A x \in DOMAIN levels'[s] \ {p} : levels'[s][x] = levels[s][x]
      /\ DOMAIN levels'[s] = IF l.queue = <<>> THEN DOMAIN levels[s] \ {p}
                             ELSE DOMAIN levels[s]
      /\ p \in DOMAIN levels'[s] => levels'[s][p] = l
  BY TakeOffEffect DEF LInv
<1>7. /\ \A t \in Side :
           /\ DOMAIN ends[t] = DOMAIN levels[t]
           /\ \A x \in DOMAIN levels[t] : Spells(link, ends[t][x], t, x, Queue(t, x))
      /\ \A x \in Order \ Resting : link[x] = Unlinked
      /\ DOMAIN ends = Side
  BY LinksSpell DEF LInv
<1>8. link[o].level = <<s, p>>
  <2>1. Spells(link, ends[s][p], s, p, q)
    BY <1>1, <1>7
  <2> HIDE DEF q, s, p
  <2>2. link[o] = [prev |-> Before(q, n), next |-> After(q, n), level |-> <<s, p>>]
    BY <1>2, <1>4, <2>1 DEF Spells
  <2> QED BY <2>2
<1>9. /\ link' = Relink(o)
      /\ ends' = [ends EXCEPT ![s] = IF e.head = None THEN Delete(@, p) ELSE Put(@, p, e)]
  BY <1>8 DEF UnlinkOrder
<1>10. o \in Order /\ \A x \in Range(q) : x \in Resting
  BY <1>1, <1>2, <1>4, QueuedRests DEF Range, LInv
<1> HIDE DEF s, p, q, l, e
<1>11. /\ e.head = None <=> l.queue = <<>>
       /\ l.queue # <<>> => Spells(link', e, s, p, l.queue)
       /\ link'[o] = Unlinked
       /\ \A x \in Order : x \notin Range(q) => link'[x] = link[x]
  <2>1. Spells(link, ends[s][p], s, p, q)
    BY <1>1, <1>7 DEF q
  <2> QED BY <1>2, <1>3, <1>4, <1>5, <1>9, <2>1, UnlinkSpells DEF e
<1>12. /\ DOMAIN ends' = Side
       /\ \A t \in Side \ {s} : ends'[t] = ends[t]
       /\ ends'[s] = IF l.queue = <<>> THEN Delete(ends[s], p) ELSE Put(ends[s], p, e)
  BY <1>1, <1>7, <1>9, <1>11
<1>13. /\ DOMAIN ends'[s] = DOMAIN levels'[s]
       /\ \A x \in DOMAIN levels'[s] \ {p} : ends'[s][x] = ends[s][x]
       /\ p \in DOMAIN levels'[s] => ends'[s][p] = e
  <2>1. CASE l.queue = <<>>
    BY <1>1, <1>6, <1>7, <1>12, <2>1 DEF Delete
  <2>2. CASE l.queue # <<>>
    BY <1>1, <1>6, <1>7, <1>12, <2>2 DEF Put
  <2> QED BY <2>1, <2>2
<1>14. ASSUME NEW t \in Side
       PROVE  /\ DOMAIN ends'[t] = DOMAIN levels'[t]
              /\ \A x \in DOMAIN levels'[t] : Spells(link', ends'[t][x], t, x, Queue(t, x)')
  <2>1. DOMAIN ends'[t] = DOMAIN levels'[t]
    BY <1>6, <1>7, <1>12, <1>13
  <2>2. ASSUME NEW x \in DOMAIN levels'[t]
        PROVE  Spells(link', ends'[t][x], t, x, Queue(t, x)')
    <3>1. CASE t = s /\ x = p
      <4>1. levels'[s][p] = l /\ l.queue # <<>> /\ ends'[s][p] = e
        BY <1>6, <1>13, <2>2, <3>1
      <4> QED BY <1>11, <3>1, <4>1 DEF Queue
    <3>2. CASE t # s \/ x # p
      <4>1. x \in DOMAIN levels[t] /\ levels'[t][x] = levels[t][x] /\ ends'[t][x] = ends[t][x]
        BY <1>6, <1>12, <1>13, <2>2, <3>2
      <4>2. Range(Queue(t, x)) \subseteq Order
        BY <4>1, LevelShape, ElementOfSeq DEF LInv, IInv, Range
      <4>3. \A y \in Range(Queue(t, x)) : y \notin Range(q)
        BY <1>1, <3>2, <4>1, QueuesApart DEF LInv, q
      <4>4. Spells(link', ends[t][x], t, x, Queue(t, x))
        BY <1>7, <1>11, <4>1, <4>2, <4>3, SpellsStill
      <4> QED BY <4>1, <4>4 DEF Queue
    <3> QED BY <3>1, <3>2
  <2> QED BY <2>1, <2>2
<1>15. ASSUME NEW x \in Order \ Resting' PROVE link'[x] = Unlinked
  BY <1>7, <1>10, <1>11, <1>15
<1> QED BY <1>12, <1>14, <1>15 DEF LinksFaithful, Spells

\* An order joins a queue at its end: the last one is linked to it, and nothing
\* else changes.
LEMMA LinkBackSpells ==
  ASSUME NEW q \in Seq(Order), NEW o \in Order, o \notin Range(q), NEW e,
         q # <<>> => Spells(link, e, ord[o].side, ord[o].price, q),
         q = <<>> => e = NoOrders
  PROVE  /\ Spells(Attach(o, e), Lengthened(e, o), ord[o].side, ord[o].price, Append(q, o))
         /\ \A x \in Order \ {o} : x \notin Range(q) => Attach(o, e)[x] = link[x]
<1> DEFINE s == ord[o].side
           p == ord[o].price
           r == Append(q, o)
           L == Len(q)
           f == Lengthened(e, o)
           k == Attach(o, e)
<1>0. k = [x \in Order |->
             CASE x = o -> [prev |-> e.tail, next |-> None, level |-> <<s, p>>]
               [] x # o /\ x = e.tail -> [link[x] EXCEPT !.next = o]
               [] OTHER -> link[x]]
  BY DEF Attach
<1> HIDE DEF s, p, k
<1>1. /\ L \in Nat /\ DOMAIN q = 1 .. L /\ (q = <<>> <=> L = 0)
      /\ \A i \in 1 .. L : q[i] \in Order /\ q[i] # None /\ q[i] # o
  BY LenProperties, ElementOfSeq, EmptySeq, OrdersAssumption DEF Range
<1>2. /\ r \in Seq(Order) /\ Len(r) = L + 1 /\ DOMAIN r = 1 .. L + 1
      /\ \A i \in 1 .. L : r[i] = q[i]
      /\ r[L + 1] = o
  BY <1>1, AppendProperties
<1> HIDE DEF r, L
<1>3. IF L = 0 THEN e.head = None /\ e.tail = None /\ e.count = 0
      ELSE /\ e.head = q[1] /\ e.tail = q[L] /\ e.count = L
           /\ \A i \in 1 .. L : link[q[i]] = [prev |-> Before(q, i), next |-> After(q, i),
                                              level |-> <<s, p>>]
  BY <1>1 DEF NoOrders, Spells, L, s, p
<1>4. f = [head |-> r[1], tail |-> r[Len(r)], count |-> Len(r)]
  BY <1>1, <1>2, <1>3 DEF Lengthened
<1> HIDE DEF f
<1>5. k[o] = [prev |-> e.tail, next |-> None, level |-> <<s, p>>]
  BY <1>0
<1>6. ASSUME NEW i \in DOMAIN r
      PROVE  k[r[i]] = [prev |-> Before(r, i), next |-> After(r, i), level |-> <<s, p>>]
  <2>1. CASE i = L + 1
    <3>1. After(r, i) = None /\ Before(r, i) = e.tail
      BY <1>1, <1>2, <1>3, <2>1 DEF Before, After
    <3> QED BY <1>2, <1>5, <2>1, <3>1
  <2>2. CASE i = L /\ L # 0
    <3>1. /\ After(r, i) = o /\ Before(r, i) = Before(q, i)
          /\ r[i] = q[i] /\ q[i] = e.tail /\ q[i] # o /\ q[i] \in Order
      BY <1>1, <1>2, <1>3, <2>2 DEF Before, After
    <3>2. link[q[i]] = [prev |-> Before(q, i), next |-> After(q, i), level |-> <<s, p>>]
      BY <1>1, <1>3, <2>2
    <3>3. k[q[i]] = [link[q[i]] EXCEPT !.next = o]
      BY <1>0, <3>1
    <3> QED BY <3>1, <3>2, <3>3, NodeExcept
  <2>3. CASE i < L
    <3>1. /\ After(r, i) = After(q, i) /\ Before(r, i) = Before(q, i)
          /\ r[i] = q[i] /\ q[i] # o /\ q[i] \in Order /\ i \in 1 .. L /\ L # 0
      BY <1>1, <1>2, <2>3 DEF Before, After, L
    <3>2. CASE q[i] # e.tail
      <4>1. k[q[i]] = link[q[i]]
        BY <1>0, <3>1, <3>2
      <4> QED BY <1>3, <3>1, <4>1
    <3>3. CASE q[i] = e.tail
      <4>1. link[q[i]] = [prev |-> Before(q, i), next |-> After(q, i), level |-> <<s, p>>]
        BY <1>3, <3>1
      <4>2. link[q[L]] = [prev |-> Before(q, L), next |-> After(q, L), level |-> <<s, p>>]
        BY <1>1, <1>3, <3>1
      <4>3. After(q, i) = q[i + 1] /\ After(q, L) = None /\ q[i + 1] # None
        BY <1>1, <2>3, <3>1 DEF After, L
      <4> QED BY <1>3, <3>1, <3>3, <4>1, <4>2, <4>3
    <3> QED BY <3>2, <3>3
  <2> QED BY <1>1, <1>2, <2>1, <2>2, <2>3
<1>7. ASSUME NEW x \in Order \ {o}, x \notin Range(q) PROVE k[x] = link[x]
  <2>1. x # e.tail
    BY <1>1, <1>3, <1>7, OrdersAssumption DEF Range
  <2> QED BY <1>0, <2>1
<1> QED BY <1>4, <1>6, <1>7 DEF Spells, r, f, k, s, p

\* The rest of an order goes to the book.
LEMMA LinkBackKeeps ==
  ASSUME LInv, taker # None, ~CanMatch,
         ord[taker].quantity > 0, ord[taker].type = Limit, AddToBook(taker),
         taker' = None, UNCHANGED <<ord, refused, tape, clock>>, LinkBack(taker)
  PROVE  DOMAIN ends' = Side /\ LinksFaithful'
<1> DEFINE s == ord[taker].side
           p == ord[taker].price
           q == Joined(s, p)
           e == IF p \in DOMAIN ends[s] THEN ends[s][p] ELSE NoOrders
           f == Lengthened(e, taker)
<1>1. /\ s \in Side /\ p \in PriceRange
      /\ DOMAIN levels' = Side
      /\ \A t \in Side \ {s} : levels'[t] = levels[t]
      /\ DOMAIN levels'[s] = DOMAIN levels[s] \cup {p}
      /\ \A x \in DOMAIN levels[s] \ {p} : levels'[s][x] = levels[s][x]
      /\ levels'[s][p].queue = Append(q, taker)
  BY AddToBookEffect DEF LInv
<1>2. /\ \A t \in Side :
           /\ DOMAIN ends[t] = DOMAIN levels[t]
           /\ \A x \in DOMAIN levels[t] : Spells(link, ends[t][x], t, x, Queue(t, x))
      /\ \A x \in Order \ Resting : link[x] = Unlinked
      /\ DOMAIN ends = Side
  BY LinksSpell DEF LInv
<1>3. /\ q \in Seq(Order) /\ DOMAIN q = 1 .. Len(q)
      /\ \A i \in DOMAIN q : p \in DOMAIN levels[s] /\ i \in DOMAIN Queue(s, p)
  BY <1>1, JoinedShape DEF LInv
<1>4. taker \in Order /\ Resting' = Resting \cup {taker}
  BY RestIInv DEF LInv, IInv, TypeOK
<1>5. \A x \in Range(q) : x \in Resting /\ x # taker
  BY <1>1, <1>3, QueuedRests DEF Joined, Range, LInv
<1>6. /\ q # <<>> => Spells(link, e, s, p, q)
      /\ q = <<>> => e = NoOrders
  <2>1. CASE p \in DOMAIN levels[s]
    <3>1. q = Queue(s, p) /\ q # <<>> /\ e = ends[s][p]
      BY <1>1, <1>2, <2>1 DEF Joined, LInv, IInv, BookConsistent, QueuesHoldLiveOrders
    <3> HIDE DEF q, e, s, p
    <3> QED BY <1>1, <1>2, <2>1, <3>1
  <2>2. CASE p \notin DOMAIN levels[s]
    BY <1>1, <1>2, <2>2 DEF Joined
  <2> QED BY <2>1, <2>2
<1>7. /\ link' = Attach(taker, e)
      /\ ends' = [ends EXCEPT ![s] = Put(@, p, f)]
  BY DEF LinkBack
<1> HIDE DEF s, p, q, e, f
<1>8. /\ Spells(link', f, s, p, Append(q, taker))
      /\ \A x \in Order \ {taker} : x \notin Range(q) => link'[x] = link[x]
  <2>1. taker \notin Range(q)
    BY <1>5
  <2> QED BY <1>3, <1>4, <1>6, <1>7, <2>1, LinkBackSpells DEF f, s, p
<1>9. /\ DOMAIN ends' = Side
      /\ \A t \in Side \ {s} : ends'[t] = ends[t]
      /\ DOMAIN ends'[s] = DOMAIN levels'[s]
      /\ \A x \in DOMAIN levels[s] \ {p} : ends'[s][x] = ends[s][x]
      /\ ends'[s][p] = f
  <2>1. /\ DOMAIN ends' = Side
        /\ \A t \in Side \ {s} : ends'[t] = ends[t]
        /\ ends'[s] = Put(ends[s], p, f)
    BY <1>1, <1>2, <1>7
  <2> QED BY <1>1, <1>2, <2>1 DEF Put
<1>10. ASSUME NEW t \in Side
       PROVE  /\ DOMAIN ends'[t] = DOMAIN levels'[t]
              /\ \A x \in DOMAIN levels'[t] : Spells(link', ends'[t][x], t, x, Queue(t, x)')
  <2>1. DOMAIN ends'[t] = DOMAIN levels'[t]
    BY <1>1, <1>2, <1>9
  <2>2. ASSUME NEW x \in DOMAIN levels'[t]
        PROVE  Spells(link', ends'[t][x], t, x, Queue(t, x)')
    <3>1. CASE t = s /\ x = p
      BY <1>1, <1>8, <1>9, <3>1 DEF Queue
    <3>2. CASE t # s \/ x # p
      <4>1. x \in DOMAIN levels[t] /\ levels'[t][x] = levels[t][x] /\ ends'[t][x] = ends[t][x]
        BY <1>1, <1>9, <2>2, <3>2
      <4>2. \A y \in Range(Queue(t, x)) : y \in Order /\ y # taker
        BY <4>1, LevelShape, ElementOfSeq, QueuedRests DEF LInv, IInv, Range
      <4>3. \A y \in Range(Queue(t, x)) : y \notin Range(q)
        <5>1. CASE p \in DOMAIN levels[s]
          BY <1>1, <3>2, <4>1, <5>1, QueuesApart DEF LInv, q, Joined
        <5>2. CASE p \notin DOMAIN levels[s]
          BY <1>3, <5>2 DEF Range
        <5> QED BY <5>1, <5>2
      <4>4. Spells(link', ends[t][x], t, x, Queue(t, x))
        BY <1>2, <1>8, <4>1, <4>2, <4>3, SpellsStill
      <4> QED BY <4>1, <4>4 DEF Queue
    <3> QED BY <3>1, <3>2
  <2> QED BY <2>1, <2>2
<1>11. ASSUME NEW x \in Order \ Resting' PROVE link'[x] = Unlinked
  BY <1>2, <1>4, <1>5, <1>8, <1>11
<1> QED BY <1>9, <1>10, <1>11 DEF LinksFaithful, Spells

\* Where no queue changes, no pointer has to.
LEMMA SameQueuesKeep ==
  ASSUME LInv, UNCHANGED <<link, ends>>, Resting' = Resting,
         \A t \in Side : /\ DOMAIN levels'[t] = DOMAIN levels[t]
                         /\ \A x \in DOMAIN levels[t] :
                              levels'[t][x].queue = levels[t][x].queue
  PROVE  DOMAIN ends' = Side /\ LinksFaithful'
<1>1. \A t \in Side : \A x \in DOMAIN levels'[t] : Queue(t, x)' = Queue(t, x)
  BY DEF Queue
<1> QED BY <1>1 DEF LInv, LinksFaithful

-----------------------------------------------------------------------------
(* The steps. *)

\* The initial state.
LEMMA InitLInv == LInit => LInv
<1> SUFFICES ASSUME LInit PROVE LInv
  OBVIOUS
<1>1. IInv
  BY InitIInv DEF LInit
<1>2. DOMAIN EmptyMap = {}
  BY DEF EmptyMap
<1>3. DOMAIN ends = Side /\ \A s \in Side : DOMAIN ends[s] = {} /\ DOMAIN levels[s] = {}
  BY <1>2 DEF LInit, Init
<1>4. \A o \in Order : link[o] = Unlinked
  BY DEF LInit
<1> QED BY <1>1, <1>3, <1>4 DEF LInv, LinksFaithful

\* A fill: the maker is the head of its level in the pointers too.
LEMMA LFillKeeps ==
  ASSUME LInv, LFill
  PROVE  DOMAIN ends' = Side /\ LinksFaithful'
<1> DEFINE s == Opposite(ord[taker].side)
           p == Head(prices[s])
           m == Head(levels[s][p].queue)
           q == Lesser(ord[taker].quantity, ord[m].quantity)
<1>1. /\ Fill /\ taker # None /\ CanMatch /\ q \in Nat \ {0}
      /\ ord'[m] = [ord[m] EXCEPT !.quantity = @ - q]
  BY FillOrders DEF LFill, LInv
<1>2. /\ s \in Side /\ prices[s] # <<>> /\ p \in DOMAIN levels[s]
      /\ 1 \in DOMAIN Queue(s, p) /\ m = Queue(s, p)[1]
      /\ m \in Resting /\ ord[m] \in OrderRec /\ ord[m].side = s /\ ord[m].price = p
  BY <1>1, BestMaker DEF LInv
<1>3. Resting' = IF ord[m].quantity = q THEN Resting \ {m} ELSE Resting
  BY <1>1, FillResting DEF LInv
<1>4. \/ ord[m].quantity = q /\ TakeOff(m, q, Tail(prices[s]))
      \/ /\ ord[m].quantity # q
         /\ levels' = [levels EXCEPT ![s] = Put(@, p, Reduce(@[p], q))]
  BY <1>1 DEF Fill
<1>5. LET n == ends[s][p].head
      IN \/ ord'[n].quantity = 0 /\ UnlinkOrder(n)
         \/ ord'[n].quantity # 0 /\ UNCHANGED <<link, ends>>
  BY DEF LFill
<1>6. p = Head(prices[s])
  OBVIOUS
<1> HIDE DEF s, p, m, q
<1>7. ends[s][p].head = m
  <2>1. Spells(link, ends[s][p], s, p, Queue(s, p))
    BY <1>2, LinksSpell DEF LInv
  <2> QED BY <1>2, <2>1 DEF Spells
<1>8. ord'[m].quantity = 0 <=> ord[m].quantity = q
  BY <1>1, <1>2 DEF OrderRec
<1>9. CASE ord[m].quantity = q
  <2>1. TakeOff(m, q, Tail(prices[s])) /\ UnlinkOrder(m)
    BY <1>4, <1>5, <1>7, <1>8, <1>9
  <2>2. Without(ord[m].side, ord[m].price, Tail(prices[s]))
    <3>1. /\ Tail(prices[s]) \in Seq(PriceRange)
          /\ Sorted(s, Tail(prices[s]))
          /\ Range(Tail(prices[s])) = Range(prices[s]) \ {p}
      BY <1>2, <1>6, TailSorted, SlicesSorted DEF LInv
    <3> QED BY <1>2, <3>1 DEF Without
  <2> QED BY <1>1, <1>2, <1>3, <1>9, <2>1, <2>2, UnlinkOrderKeeps
<1>10. CASE ord[m].quantity # q
  <2>1. UNCHANGED <<link, ends>> /\ Resting' = Resting
    BY <1>3, <1>5, <1>7, <1>8, <1>10
  <2>2. levels' = [levels EXCEPT ![s] = Put(levels[s], p, Reduce(levels[s][p], q))]
    BY <1>4, <1>10
  <2>3. Reduce(levels[s][p], q).queue = levels[s][p].queue
    <3>1. levels[s][p] \in PriceLevel
      BY <1>2, LevelShape DEF LInv, IInv
    <3> QED BY <3>1 DEF Reduce, PriceLevel
  <2>4. \A t \in Side : /\ DOMAIN levels'[t] = DOMAIN levels[t]
                        /\ \A x \in DOMAIN levels[t] :
                             levels'[t][x].queue = levels[t][x].queue
    BY <1>2, <2>2, <2>3 DEF LInv, IInv, TypeOK, Put
  <2> QED BY <2>1, <2>4, SameQueuesKeep
<1> QED BY <1>9, <1>10

\* The end of a call: what is left of the order rests, or it does not.
LEMMA LFinishKeeps ==
  ASSUME LInv, LFinish
  PROVE  DOMAIN ends' = Side /\ LinksFaithful'
<1>1. /\ Finish /\ taker # None /\ ~CanMatch
      /\ taker' = None /\ UNCHANGED <<ord, refused, tape, clock>>
  BY DEF LFinish, Finish
<1>2. CASE ord[taker].quantity > 0 /\ ord[taker].type = Limit /\ AddToBook(taker)
  <2>1. Resting' = Resting \cup {taker}
    BY <1>1, <1>2, RestIInv DEF LInv
  <2>2. LinkBack(taker)
    BY <2>1 DEF LFinish, Resting
  <2> QED BY <1>1, <1>2, <2>2, LinkBackKeeps
<1>3. CASE UNCHANGED <<levels, prices, orders>>
  <2>1. Resting' = Resting
    BY <1>3 DEF Resting
  <2>2. taker \notin Resting
    <3>1. ord[taker].id \notin DOMAIN orders
      BY <1>1 DEF LInv, IInv, StampsOK
    <3> QED BY <3>1, Indexed DEF LInv
  <2>3. UNCHANGED <<link, ends>>
    BY <2>1, <2>2 DEF LFinish, Resting
  <2> QED BY <1>3, <2>1, <2>3, SameQueuesKeep
<1> QED BY <1>1, <1>2, <1>3 DEF Finish

\* A cancel, of an order that rests or of one that does not.
LEMMA LCancelKeeps ==
  ASSUME LInv, NEW id \in ID, LCancelOrder(id)
  PROVE  DOMAIN ends' = Side /\ LinksFaithful'
<1>1. CASE id \notin DOMAIN orders
  <2>1. UNCHANGED <<vars, link, ends>>
    BY <1>1 DEF LCancelOrder, CancelOrder
  <2>2. levels' = levels /\ Resting' = Resting
    BY <2>1 DEF vars, Resting
  <2> QED BY <2>1, <2>2, SameQueuesKeep
<1>2. CASE id \in DOMAIN orders
  <2> DEFINE o == orders[id]
             s == ord[o].side
             p == ord[o].price
             shorter == RemoveSorted(s, prices[s], p)
  <2>1. TakeOff(o, ord[o].quantity, shorter) /\ ord' = ord /\ UnlinkOrder(o)
    BY <1>2 DEF LCancelOrder, CancelOrder
  <2>2. o \in Resting
    BY <1>2 DEF Resting, Range
  <2>3. o \in DOMAIN ord /\ s \in Side /\ p \in DOMAIN levels[s]
    BY <2>2, Indexed DEF LInv
  <2>4. ord[o].quantity \in Int
    BY <2>3 DEF LInv, IInv, TypeOK, OrderRec
  <2>5. Without(s, p, shorter)
    <3>1. /\ prices[s] \in Seq(PriceRange) /\ Sorted(s, prices[s])
          /\ p \in PriceRange /\ p \in Range(prices[s])
      BY <2>3, SlicesSorted, LevelShape DEF LInv, IInv, BookConsistent, SlicesMatchMaps
    <3> HIDE DEF s, p
    <3> QED BY <2>3, <3>1, RemoveSortedProperties DEF Without
  <2> HIDE DEF o, shorter
  <2>6. Resting' = Resting \ {o}
    BY <2>1, <2>2, <2>4, <2>5, TakeOffPreserves DEF LInv
  <2> QED BY <2>1, <2>2, <2>4, <2>5, <2>6, UnlinkOrderKeeps
<1> QED BY <1>1, <1>2

\* Every step of the pointers is one of the book.
LEMMA LNextIsNext == [LNext]_lvars => [Next]_vars
BY DEF LNext, LProcess, LFill, LFinish, LCancelOrder, Next, lvars

\* One step, by action.
LEMMA StepLInv == LInv /\ [LNext]_lvars => LInv'
<1> SUFFICES ASSUME LInv, [LNext]_lvars PROVE LInv'
  OBVIOUS
<1>1. IInv'
  BY LNextIsNext, NextIInv DEF LInv
<1>2. ASSUME NEW o \in Order, NEW r \in Request, LProcess(o, r)
      PROVE  DOMAIN ends' = Side /\ LinksFaithful'
  <2>1. UNCHANGED <<link, ends>> /\ levels' = levels /\ Resting' = Resting
    BY <1>2 DEF LProcess, Refuse, Accept, Resting
  <2> QED BY <2>1, SameQueuesKeep
<1>3. ASSUME LFill PROVE DOMAIN ends' = Side /\ LinksFaithful'
  BY <1>3, LFillKeeps
<1>4. ASSUME LFinish PROVE DOMAIN ends' = Side /\ LinksFaithful'
  BY <1>4, LFinishKeeps
<1>5. ASSUME NEW id \in ID, LCancelOrder(id)
      PROVE  DOMAIN ends' = Side /\ LinksFaithful'
  BY <1>5, LCancelKeeps
<1>6. ASSUME UNCHANGED lvars PROVE DOMAIN ends' = Side /\ LinksFaithful'
  <2>1. UNCHANGED <<link, ends>> /\ levels' = levels /\ Resting' = Resting
    BY <1>6 DEF lvars, vars, Resting
  <2> QED BY <2>1, SameQueuesKeep
<1>7. DOMAIN ends' = Side /\ LinksFaithful'
  BY <1>2, <1>3, <1>4, <1>5, <1>6 DEF LNext
<1> QED BY <1>1, <1>7 DEF LInv

\* The linked lists of the levels always spell their queues.
THEOREM LinksAlwaysFaithful == LSpec => []LinksFaithful
<1>1. LInv => LinksFaithful
  BY DEF LInv
<1> QED BY InitLInv, StepLInv, <1>1, PTL DEF LSpec

\* The book with its pointers is the book: what the other theorems say of Spec
\* holds of LSpec.
THEOREM LinkedIsBook == LSpec => Spec
<1>1. LInit => Init
  BY DEF LInit
<1> QED BY <1>1, LNextIsNext, PTL DEF LSpec, Spec
=============================================================================
