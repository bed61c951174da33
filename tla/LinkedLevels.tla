----------------------------- MODULE LinkedLevels -----------------------------
(***************************************************************************)
(* The queue of a price level as engine/orderbook.go keeps it: a doubly    *)
(* linked list threaded through the Order structs themselves.  OrderBook   *)
(* calls it a sequence; here every step of OrderBook also does to the      *)
(* pointers what the code does, and LinksFaithful says that they spell the *)
(* sequence.                                                               *)
(*                                                                         *)
(* A level object is named by its side and price.  A level made anew at    *)
(* the place of one that was dropped is another object to the code; that   *)
(* nothing points to the old one is part of LinksFaithful.                 *)
(***************************************************************************)
EXTENDS OrderBook

VARIABLES
  link,  \* the fields prev, next and level of each struct
  ends   \* ends[s][p] has the fields head, tail and count of a level

lvars == <<vars, link, ends>>

Unlinked == [prev |-> None, next |-> None, level |-> None]

NoOrders == [head |-> None, tail |-> None, count |-> 0]

LInit ==
  /\ Init
  /\ link = [o \in Order |-> Unlinked]
  /\ ends = [s \in Side |-> EmptyMap]

\* Mutant of Relink: the successor keeps its prev.
RelinkForward(o) ==
  [x \in Order |->
     IF x = o THEN Unlinked
     ELSE IF x = link[o].prev THEN [link[x] EXCEPT !.next = link[o].next]
     ELSE link[x]]

\* unlink, seen from the structs.
Relink(o) ==
  [x \in Order |->
     CASE x = o -> Unlinked
       [] x # o /\ x = link[o].prev -> [link[x] EXCEPT !.next = link[o].next]
       [] x # o /\ x = link[o].next -> [link[x] EXCEPT !.prev = link[o].prev]
       [] OTHER -> link[x]]

\* unlink, seen from the level.
Shortened(e, o) ==
  [head |-> IF link[o].prev = None THEN link[o].next ELSE e.head,
   tail |-> IF link[o].next = None THEN link[o].prev ELSE e.tail,
   count |-> e.count - 1]

\* unlink; the level is then dropped from its map if it has no head.
UnlinkOrder(o) ==
  LET s == link[o].level[1]
      p == link[o].level[2]
      e == Shortened(ends[s][p], o)
  IN /\ link' = Relink(o)
     /\ ends' = [ends EXCEPT ![s] = IF e.head = None THEN Delete(@, p) ELSE Put(@, p, e)]

\* pushBack on a level with the ends e, seen from the structs.
Attach(o, e) ==
  [x \in Order |->
     CASE x = o -> [prev |-> e.tail, next |-> None, level |-> <<ord[o].side, ord[o].price>>]
       [] x # o /\ x = e.tail -> [link[x] EXCEPT !.next = o]
       [] OTHER -> link[x]]

\* pushBack, seen from the level.
Lengthened(e, o) ==
  [head |-> IF e.tail = None THEN o ELSE e.head, tail |-> o, count |-> e.count + 1]

\* pushBack, on the level at that price or a new one.
LinkBack(o) ==
  LET s == ord[o].side
      p == ord[o].price
      e == IF p \in DOMAIN ends[s] THEN ends[s][p] ELSE NoOrders
  IN /\ link' = Attach(o, e)
     /\ ends' = [ends EXCEPT ![s] = Put(@, p, Lengthened(e, o))]

LProcess(o, r) == (Refuse(o, r) \/ Accept(o, r)) /\ UNCHANGED <<link, ends>>

\* The maker is the head of the best level, and leaves it when it is filled.
LFill ==
  /\ Fill
  /\ LET s == Opposite(ord[taker].side)
         m == ends[s][Head(prices[s])].head
     IN \/ ord'[m].quantity = 0 /\ UnlinkOrder(m)
        \/ ord'[m].quantity # 0 /\ UNCHANGED <<link, ends>>

LFinish ==
  /\ Finish
  /\ \/ taker \in Range(orders') /\ LinkBack(taker)
     \/ taker \notin Range(orders') /\ UNCHANGED <<link, ends>>

LCancelOrder(id) ==
  /\ CancelOrder(id)
  /\ \/ id \in DOMAIN orders /\ UnlinkOrder(orders[id])
     \/ id \notin DOMAIN orders /\ UNCHANGED <<link, ends>>

LNext ==
  \/ \E o \in Order, r \in Request : LProcess(o, r)
  \/ LFill
  \/ LFinish
  \/ \E id \in ID : LCancelOrder(id)

LSpec == LInit /\ [][LNext]_lvars

-----------------------------------------------------------------------------
\* What stands before and after place i of a queue.
Before(q, i) == IF i = 1 THEN None ELSE q[i - 1]
After(q, i) == IF i = Len(q) THEN None ELSE q[i + 1]

\* The pointers spell the queues, read from either end: after any mix of fills
\* at the head, cancels in the middle and rests at the tail, each level has the
\* first and last order of its queue and their number, each queued order its
\* neighbours and its level, and a struct that left has no pointer left.
LinksFaithful ==
  /\ \A s \in Side :
       /\ DOMAIN ends[s] = DOMAIN levels[s]
       /\ \A p \in DOMAIN levels[s] :
            LET q == Queue(s, p)
            IN /\ ends[s][p] = [head |-> q[1], tail |-> q[Len(q)], count |-> Len(q)]
               /\ \A i \in DOMAIN q :
                    link[q[i]] = [prev |-> Before(q, i), next |-> After(q, i),
                                  level |-> <<s, p>>]
  /\ \A o \in Order \ Resting : link[o] = Unlinked
=============================================================================
