---------------------------- MODULE MCOrderBook ----------------------------
(* OrderBook on small instances. *)
EXTENDS LinkedLevels, MCRequests
=============================================================================
