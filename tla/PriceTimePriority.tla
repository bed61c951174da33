------------------------- MODULE PriceTimePriority -------------------------
(***************************************************************************)
(* What a single-symbol price-time priority book promises, one fill at a   *)
(* time: the resting orders are a set, and every fill pairs the order      *)
(* being processed with the best resting order it crosses.  No price       *)
(* levels, queues, sorted slices or maps: OrderBook has those, and         *)
(* implements this specification.                                          *)
(***************************************************************************)
EXTENDS Orders, Sequences, SequencesExt

VARIABLES
  ord,       \* [accepted structs -> OrderRec]
  refused,   \* structs ProcessOrder returned an error for
  resting,   \* structs resting on the book
  taker,     \* the struct being processed, or None
  tape,      \* every trade so far, in execution order
  clock      \* number of accepted orders

vars == <<ord, refused, resting, taker, tape, clock>>

Init ==
  /\ ord = EmptyMap
  /\ refused = {}
  /\ resting = {}
  /\ taker = None
  /\ tape = <<>>
  /\ clock = 0

IsNew(o) == o \notin DOMAIN ord \cup refused

IdResting(id) == \E m \in resting : ord[m].id = id

\* ProcessOrder returns an error and leaves the book alone.
Refuse(o, r) ==
  /\ IsNew(o)
  /\ ~Valid(r) \/ (taker = None /\ IdResting(r.id))
  /\ refused' = refused \cup {o}
  /\ UNCHANGED <<ord, resting, taker, tape, clock>>

\* ProcessOrder accepts the order and starts matching it.
Accept(o, r) ==
  /\ IsNew(o)
  /\ Valid(r)
  /\ taker = None
  /\ ~IdResting(r.id)
  /\ clock' = clock + 1
  /\ ord' = Put(ord, o, Accepted(r, clock + 1))
  /\ taker' = o
  /\ UNCHANGED <<refused, resting, tape>>

Counterparties == {m \in resting : Crosses(ord[taker], ord[m])}

IsBest(m) == \A n \in Counterparties \ {m} : Better(ord[m], ord[n])

\* One fill, against the best counterparty and at its price.
TradeWith(m) ==
  LET q == Lesser(ord[taker].quantity, ord[m].quantity)
  IN /\ taker # None
     /\ ord[taker].quantity > 0
     /\ m \in Counterparties
     /\ IsBest(m)
     /\ ord' = [ord EXCEPT ![taker].quantity = @ - q, ![m].quantity = @ - q]
     /\ tape' = Append(tape, [id |-> Len(tape) + 1, maker |-> m, taker |-> taker,
                              price |-> ord[m].price, quantity |-> q])
     /\ resting' = IF ord[m].quantity = q THEN resting \ {m} ELSE resting
     /\ UNCHANGED <<refused, taker, clock>>

\* Nothing left to fill, or nobody left to fill it: a limit order rests with
\* what remains, the remainder of a market order is dropped.
Complete ==
  /\ taker # None
  /\ ord[taker].quantity = 0 \/ Counterparties = {}
  /\ resting' = IF ord[taker].quantity > 0 /\ ord[taker].type = Limit
                THEN resting \cup {taker} ELSE resting
  /\ taker' = None
  /\ UNCHANGED <<ord, refused, tape, clock>>

\* CancelOrder on a resting order.
Cancel(m) ==
  /\ taker = None
  /\ m \in resting
  /\ resting' = resting \ {m}
  /\ UNCHANGED <<ord, refused, taker, tape, clock>>

Next ==
  \/ \E o \in Order, r \in Request : Refuse(o, r) \/ Accept(o, r)
  \/ \E m \in Order : TradeWith(m) \/ Cancel(m)
  \/ Complete

Spec == Init /\ [][Next]_vars

-----------------------------------------------------------------------------
(***************************************************************************)
(* Seen from outside the book's lock a ProcessOrder call is one step.      *)
(* While a call is under way the atomic book still shows the state before  *)
(* it: its fills undone, its makers still resting, itself not accepted.    *)
(***************************************************************************)
OwnFills == {i \in DOMAIN tape : tape[i].taker = taker}

OwnFillOf(m) ==
  LET mine == {i \in OwnFills : tape[i].maker = m}
  IN IF mine = {} THEN 0 ELSE tape[CHOOSE i \in mine : TRUE].quantity

OrdBefore ==
  [o \in DOMAIN ord \ {taker} |->
     [ord[o] EXCEPT !.quantity = @ + OwnFillOf(o)]]

RestingBefore == resting \cup {tape[i].maker : i \in OwnFills}

TapeBefore == [i \in DOMAIN tape \ OwnFills |-> tape[i]]

ClockBefore == IF taker = None THEN clock ELSE clock - 1

Atomic == INSTANCE AtomicBook WITH
            ord <- OrdBefore, resting <- RestingBefore,
            tape <- TapeBefore, clock <- ClockBefore

\* Filling the best counterparty again and again amounts to the closed form
\* of AtomicBook: each ProcessOrder call, the loops of match and matchLevel
\* included, is one atomic change of the book.
ImplementsAtomicBook == Atomic!Spec

=============================================================================
