----------------------------- MODULE MCRequests -----------------------------
(* The requests callers make in the small instances of the book modules. *)
EXTENDS Orders, TLC

CONSTANTS
  MCPrices,      \* prices limit orders use
  MCQuantities   \* quantities orders ask for

MCLimits ==
  [id : ID, side : Side, type : {Limit}, price : MCPrices, quantity : MCQuantities]

\* Valid limit and market orders over the small sets, and requests that fail
\* each check of validateOrder.
MCRequest ==
  LET market == [id : ID, side : Side, type : {Market}, price : {0},
                 quantity : MCQuantities]
      unnamed == [id |-> NoID, side |-> Buy, type |-> Limit, price |-> 1, quantity |-> 1]
  IN MCLimits \cup market \cup {unnamed} \cup
     UNION {{[unnamed EXCEPT !.id = i, !.side = "UNKNOWN"],
             [unnamed EXCEPT !.id = i, !.type = "UNKNOWN"],
             [unnamed EXCEPT !.id = i, !.quantity = 0],
             [unnamed EXCEPT !.id = i, !.price = 0]} : i \in ID}

\* Structs and ids are only compared for equality.
Interchangeable == Permutations(Order) \cup Permutations(ID)
=============================================================================
