-------------------------------- MODULE Relay --------------------------------
(***************************************************************************)
(* What a dashboard may count on when the bridge forwards messages to it.  *)
(* Messages are taken one after the other, in the order in which they were *)
(* published; some may be passed over.  While a message is the current one *)
(* each connection may be sent it, or not, or more than once.  Nothing is  *)
(* promised about who misses what.                                         *)
(*                                                                         *)
(* Bridge implements this module, and Dashboard takes the bridge's steps   *)
(* from it: that is how the two are composed.                              *)
(***************************************************************************)
EXTENDS Naturals, Sequences

CONSTANT Connection

VARIABLES
  at,       \* the message being forwarded, by its number; 0 before the first
  members,  \* the connections the bridge may send to
  wire      \* what was sent to each connection and not read yet

relayVars == <<at, members, wire>>

Init ==
  /\ at = 0
  /\ members = {}
  /\ wire = [c \in Connection |-> <<>>]

\* On to a later message.
Take ==
  /\ at' \in Nat /\ at' > at
  /\ UNCHANGED <<members, wire>>

Join(c) ==
  /\ c \notin members
  /\ members' = members \cup {c}
  /\ UNCHANGED <<at, wire>>

Leave(c) ==
  /\ members' = members \ {c}
  /\ UNCHANGED <<at, wire>>

\* The current message is sent to a connection.
Deliver(c) ==
  /\ c \in members /\ at # 0
  /\ wire' = [wire EXCEPT ![c] = Append(@, at)]
  /\ UNCHANGED <<at, members>>

\* The other end takes the oldest message off the wire.
Read(c) ==
  /\ wire[c] # <<>>
  /\ wire' = [wire EXCEPT ![c] = Tail(@)]
  /\ UNCHANGED <<at, members>>

\* The other end is closing, and reads no more of what is on the wire.
Discard(c) ==
  /\ wire' = [wire EXCEPT ![c] = <<>>]
  /\ UNCHANGED <<at, members>>

\* The connection is gone, with what was on it.
Lose(c) ==
  /\ wire' = [wire EXCEPT ![c] = <<>>]
  /\ members' = members \ {c}
  /\ UNCHANGED at

Next ==
  \/ Take
  \/ \E c \in Connection : \/ Join(c) \/ Leave(c) \/ Deliver(c)
                           \/ Read(c) \/ Discard(c) \/ Lose(c)

Spec == Init /\ [][Next]_relayVars

\* What follows for every connection: a message is never behind a later one,
\* and never ahead of the current one.
Ordered ==
  \A c \in Connection :
    /\ \A i \in DOMAIN wire[c] : wire[c][i] <= at
    /\ \A i, j \in DOMAIN wire[c] : i < j => wire[c][i] <= wire[c][j]
=============================================================================
