----------------------------- MODULE AtomicBook -----------------------------
(***************************************************************************)
(* The book as its callers see it through the lock: every call is one      *)
(* step, and what an incoming order takes from each resting order is given *)
(* in closed form, with no loop.  OrderBook implements it                  *)
(* (AtomicRefinement); MarketServer and TradingFloor are built on it.      *)
(***************************************************************************)
EXTENDS Orders, Sequences, SequencesExt

VARIABLES
  ord,       \* [accepted structs -> OrderRec]
  refused,   \* structs ProcessOrder returned an error for
  resting,   \* structs resting on the book
  tape,      \* every trade so far, in execution order
  clock      \* number of accepted orders

bookVars == <<ord, refused, resting, tape, clock>>

Init ==
  /\ ord = EmptyMap
  /\ refused = {}
  /\ resting = {}
  /\ tape = <<>>
  /\ clock = 0

IsNew(o) == o \notin DOMAIN ord \cup refused

IdResting(id) == \E m \in resting : ord[m].id = id

\* What remains of each accepted order.
Remaining == [o \in DOMAIN ord |-> ord[o].quantity]

\* The resting orders that t fills before it reaches m.
Ahead(t, m) ==
  {n \in resting : Crosses(t, ord[n]) /\ Better(ord[n], ord[m])}

\* What t takes from m: whatever the orders ahead of m leave of t, at most
\* the whole of m.
FillOf(t, m) ==
  LET left == t.quantity - SumFunctionOnSet(Remaining, Ahead(t, m))
  IN IF Crosses(t, ord[m]) /\ left > 0 THEN Lesser(left, ord[m].quantity) ELSE 0

\* The makers t trades with, best first.
Makers(t) ==
  CHOOSE q \in SetToSeqs({m \in resting : FillOf(t, m) > 0}) :
    \A i, j \in DOMAIN q : i < j => Better(ord[q[i]], ord[q[j]])

TradesOf(o, t) ==
  [i \in DOMAIN Makers(t) |->
     LET m == Makers(t)[i]
     IN [id |-> Len(tape) + i, maker |-> m, taker |-> o,
         price |-> ord[m].price, quantity |-> FillOf(t, m)]]

Remainder(t) ==
  t.quantity - SumFunctionOnSet([m \in resting |-> FillOf(t, m)], resting)

Refuse(o, r) ==
  /\ IsNew(o)
  /\ ~Valid(r) \/ IdResting(r.id)
  /\ refused' = refused \cup {o}
  /\ UNCHANGED <<ord, resting, tape, clock>>

\* ProcessOrder, start to end.
Process(o, r) ==
  LET t == Accepted(r, clock + 1)
      rest == Remainder(t)
      gone == {m \in resting : FillOf(t, m) = ord[m].quantity}
  IN /\ IsNew(o)
     /\ Valid(r)
     /\ ~IdResting(r.id)
     /\ clock' = clock + 1
     /\ ord' = Put([m \in DOMAIN ord |->
                      IF m \in resting THEN [ord[m] EXCEPT !.quantity = @ - FillOf(t, m)]
                      ELSE ord[m]],
                   o, [t EXCEPT !.quantity = rest])
     /\ tape' = tape \o TradesOf(o, t)
     /\ resting' = (resting \ gone) \cup
                   (IF rest > 0 /\ r.type = Limit THEN {o} ELSE {})
     /\ UNCHANGED refused

\* CancelOrder on a resting order.
Cancel(m) ==
  /\ m \in resting
  /\ resting' = resting \ {m}
  /\ UNCHANGED <<ord, refused, tape, clock>>

Next ==
  \/ \E o \in Order, r \in Request : Refuse(o, r) \/ Process(o, r)
  \/ \E m \in Order : Cancel(m)

Spec == Init /\ [][Next]_bookVars
=============================================================================
