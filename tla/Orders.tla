------------------------------- MODULE Orders -------------------------------
(***************************************************************************)
(* The vocabulary of the matching engine (engine/orderbook.go): sides,     *)
(* order types, the requests callers make, the order structs the book      *)
(* works on, and the price-time order between them.  It has no state; the  *)
(* detailed book (OrderBook) and the two abstract books (PriceTimePriority *)
(* and AtomicBook) share it.                                               *)
(*                                                                         *)
(* An element of Order stands for one *Order struct, that is, for one call *)
(* of ProcessOrder: the server allocates a struct per request.  Two        *)
(* structs may carry the same order id, one after the other.               *)
(***************************************************************************)
EXTENDS Integers

CONSTANTS
  Order,     \* the *Order structs
  ID,        \* the non-empty order ids
  NoID,      \* the empty order id
  Request,   \* what callers may put in a struct before the call
  None       \* nil

Buy     == "BUY"
Sell    == "SELL"
Side    == {Buy, Sell}
Limit   == "LIMIT"
Market  == "MARKET"
OrderType == {Limit, Market}

(***************************************************************************)
(* The fields a caller fills in.  price and quantity are any int64, and    *)
(* side and type any int: only validateOrder restricts them.               *)
(***************************************************************************)
RawRequest ==
  [id : ID \cup {NoID}, side : Side \cup {"UNKNOWN"},
   type : OrderType \cup {"UNKNOWN"}, price : Int, quantity : Int]

ASSUME OrdersAssumption ==
  /\ None \notin Order
  /\ NoID \notin ID
  /\ Request \subseteq RawRequest

(***************************************************************************)
(* An accepted struct: quantity is what remains, original what was asked,  *)
(* ts the rank of its Timestamp among the accepted orders (taken under the *)
(* book's lock, so later acceptance means larger ts).                      *)
(***************************************************************************)
OrderRec ==
  [id : ID, side : Side, type : OrderType, price : Int,
   quantity : Nat, original : Nat \ {0}, ts : Nat \ {0}]

\* A fill.  maker and taker are structs; the ids in the code's BuyOrderID and
\* SellOrderID are those of the two structs, by the taker's side.
Trade ==
  [id : Nat \ {0}, maker : Order, taker : Order,
   price : Nat \ {0}, quantity : Nat \ {0}]

\* How much each trade of a list is for.
Quantities(trades) == [i \in DOMAIN trades |-> trades[i].quantity]

Opposite(s) == IF s = Buy THEN Sell ELSE Buy

\* Price p is better than price q for resting orders of side s: the order of
\* bidPrices (descending) and of askPrices (ascending).
Precedes(s, p, q) == IF s = Buy THEN p > q ELSE p < q

ValidPrice(r) == r.type = Limit => r.price > 0

\* validateOrder, the nil struct apart.
Valid(r) ==
  /\ r.id # NoID
  /\ r.side \in Side
  /\ r.type \in OrderType
  /\ r.quantity > 0
  /\ ValidPrice(r)

\* What ProcessOrder makes of an accepted struct before matching it.
Accepted(r, now) ==
  [id |-> r.id, side |-> r.side, type |-> r.type, price |-> r.price,
   quantity |-> r.quantity, original |-> r.quantity, ts |-> now]

\* Mutant of Accepts: a limit order does not trade at its own limit.
AcceptsInside(t, p) ==
  t.type = Market \/ Precedes(Opposite(t.side), p, t.price)

\* A taker t may trade at price p of the opposite side: no limit to respect,
\* or a limit the price does not go beyond.
Accepts(t, p) == t.type = Market \/ ~Precedes(Opposite(t.side), t.price, p)

Crosses(t, m) == m.side = Opposite(t.side) /\ Accepts(t, m.price)

\* Price-time priority between two resting orders of one side.
Better(m, n) ==
  \/ Precedes(m.side, m.price, n.price)
  \/ m.price = n.price /\ m.ts < n.ts

\* Mutant of Lesser: the second, whichever is less.
SecondOf(a, b) == b

Lesser(a, b) == IF a < b THEN a ELSE b

\* f with key k bound to v, and f without key k: a Go map after m[k] = v and
\* after delete(m, k).
Put(f, k, v) == [x \in DOMAIN f \cup {k} |-> IF x = k THEN v ELSE f[x]]
Delete(f, k) == [x \in DOMAIN f \ {k} |-> f[x]]

EmptyMap == [x \in {} |-> None]
=============================================================================
