------------------------------ MODULE MCBridge ------------------------------
(* Bridge on small instances. *)
EXTENDS Bridge, TLC

Interchangeable == Permutations(Client)
=============================================================================
