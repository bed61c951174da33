------------------------------ MODULE ServedBook ------------------------------
(***************************************************************************)
(* The book of a symbol as the server has it: AtomicBook, for the modules  *)
(* in which others act on it, handlers (MarketServer) and agents           *)
(* (TradingFloor).                                                         *)
(***************************************************************************)
EXTENDS Orders

VARIABLES ord, refused, resting, tape, clock

book == <<ord, refused, resting, tape, clock>>

Book == INSTANCE AtomicBook
=============================================================================
