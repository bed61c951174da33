------------------------------- MODULE Bridge -------------------------------
(***************************************************************************)
(* bridge/main.py: one asyncio loop runs the Redis listener, which fans    *)
(* each message out to the set of dashboard connections, and one endpoint  *)
(* task per connection, which puts the connection in the set and takes it  *)
(* out.  A task runs alone from one await to the next: an action is such a *)
(* run.  broadcast awaits inside its loop over the set, so the set may     *)
(* change under it.                                                        *)
(*                                                                         *)
(* A Python set iteration compares the set's size with the size it had     *)
(* at the start, at every step, and raises RuntimeError if they differ.    *)
(* When a connection left and another came the sizes agree, but adding may *)
(* have rehashed the table: which members the rest of the loop meets,      *)
(* again or at all, is then open.                                          *)
(***************************************************************************)
EXTENDS Integers, Sequences, FiniteSets

CONSTANTS
  Client,        \* the WebSocket objects, one per connection
  None,          \* no connection
  MaxMessages,   \* bound: messages published on the three channels
  RedisMayFail   \* whether the Redis connection may break

ASSUME BridgeAssumption ==
  /\ None \notin Client
  /\ MaxMessages \in Nat
  /\ RedisMayFail \in BOOLEAN

VARIABLES
  conn,       \* each connection, as the browser and its endpoint know it
  clients,    \* ConnectionManager._clients
  listener,   \* the listener task
  app,        \* "running", or how the lifespan ended
  published,  \* messages published so far: 1 .. published
  inbox,      \* messages Redis has for the listener's subscription
  message,    \* the message being broadcast
  target,     \* the connection whose send_text is awaited, or None
  size,       \* the set's size when the loop over it began
  todo,       \* what the loop still meets
  dead,       \* the list of broadcast
  got,        \* the messages each browser received, in order
  calm,       \* history: the set has not changed since the loop began
  owed        \* history: the messages whose calm broadcast each connection was in for

loop == <<message, target, size, todo, dead>>
history == <<calm, owed>>
vars == <<conn, clients, listener, app, published, inbox, loop, got, history>>

Message == 1 .. MaxMessages

Init ==
  /\ conn = [c \in Client |-> "new"]
  /\ clients = {}
  /\ listener = "starting" /\ app = "running"
  /\ published = 0 /\ inbox = <<>>
  /\ message = 0 /\ target = None /\ size = 0 /\ todo = {} /\ dead = {}
  /\ got = [c \in Client |-> <<>>]
  /\ calm = TRUE
  /\ owed = [c \in Client |-> {}]

Alive == app = "running"

-----------------------------------------------------------------------------
(* The server's side of Redis: a message reaches whoever is subscribed. *)

Publish ==
  /\ published < MaxMessages
  /\ published' = published + 1
  /\ inbox' = IF listener \in {"waiting", "sending"}
              THEN Append(inbox, published + 1) ELSE inbox
  /\ UNCHANGED <<conn, clients, listener, app, loop, got, history>>

-----------------------------------------------------------------------------
(* websocket_endpoint. *)

\* connect: the handshake was awaited; the connection joins the set.
Connect(c) ==
  /\ Alive /\ conn[c] = "new"
  /\ conn' = [conn EXCEPT ![c] = "open"]
  /\ clients' = clients \cup {c}
  /\ IF listener = "sending"
     THEN todo' \in SUBSET clients' /\ calm' = FALSE
     ELSE UNCHANGED <<todo, calm>>
  /\ UNCHANGED <<listener, app, published, inbox, message, target, size, dead,
                 got, owed>>

\* The connection breaks; its endpoint does not know yet.
Break(c) ==
  /\ conn[c] = "open"
  /\ conn' = [conn EXCEPT ![c] = "broken"]
  /\ UNCHANGED <<clients, listener, app, published, inbox, loop, got, history>>

\* Mutant of Leave: the connection stays in the set.
LeaveNot(c) ==
  /\ Alive /\ conn[c] = "broken"
  /\ conn' = [conn EXCEPT ![c] = "closed"]
  /\ UNCHANGED <<clients, listener, app, published, inbox, loop, got, history>>

\* WebSocketDisconnect: disconnect, whether or not broadcast did it before.
Leave(c) ==
  /\ Alive /\ conn[c] = "broken"
  /\ conn' = [conn EXCEPT ![c] = "closed"]
  /\ clients' = clients \ {c}
  /\ todo' = todo \ {c}
  /\ calm' = (calm /\ ~(listener = "sending" /\ c \in clients))
  /\ UNCHANGED <<listener, app, published, inbox, message, target, size, dead,
                 got, owed>>

\* Any other exception (a binary frame, say) ends the endpoint: the connection
\* is closed, and still in the set.
Crash(c) ==
  /\ Alive /\ conn[c] = "open"
  /\ conn' = [conn EXCEPT ![c] = "orphan"]
  /\ UNCHANGED <<clients, listener, app, published, inbox, loop, got, history>>

-----------------------------------------------------------------------------
(* redis_listener and broadcast. *)

Subscribe ==
  /\ Alive /\ listener = "starting"
  /\ listener' = "waiting"
  /\ UNCHANGED <<conn, clients, app, published, inbox, loop, got, history>>

\* Mutant of Finish: the dead connections are not disconnected.
FinishKeeping(m, gone, quiet) ==
  /\ target' = None /\ todo' = {} /\ dead' = {}
  /\ listener' = "waiting"
  /\ owed' = [c \in Client |->
                IF c \in clients /\ quiet THEN owed[c] \cup {m} ELSE owed[c]]
  /\ UNCHANGED clients

\* The loop is over: the dead connections are disconnected.
Finish(m, gone, quiet) ==
  /\ target' = None /\ todo' = {} /\ dead' = {}
  /\ listener' = "waiting"
  /\ clients' = clients \ gone
  /\ owed' = [c \in Client |->
                IF c \in clients /\ quiet THEN owed[c] \cup {m} ELSE owed[c]]

\* The loop over a set that had n members: it goes on to one of rest, is over,
\* or finds the set resized, and the RuntimeError, which nothing catches, ends
\* the task.
Continue(m, n, rest, gone, quiet) ==
  \/ /\ Cardinality(clients) = n
     /\ \E c \in rest : target' = c /\ todo' = rest \ {c}
     /\ dead' = gone
     /\ listener' = "sending"
     /\ UNCHANGED <<clients, owed>>
  \/ /\ Cardinality(clients) = n /\ rest = {}
     /\ Finish(m, gone, quiet)
  \/ /\ Cardinality(clients) # n
     /\ target' = None /\ todo' = {} /\ dead' = {}
     /\ listener' = "failed"
     /\ UNCHANGED <<clients, owed>>

\* Mutant of Receive: the newest message first.
ReceiveLast ==
  /\ Alive /\ listener = "waiting" /\ inbox # <<>>
  /\ message' = inbox[Len(inbox)]
  /\ inbox' = SubSeq(inbox, 1, Len(inbox) - 1)
  /\ size' = Cardinality(clients) /\ calm' = TRUE
  /\ Continue(inbox[Len(inbox)], Cardinality(clients), clients, {}, TRUE)
  /\ UNCHANGED <<conn, app, published, got>>

\* listen yields the next message and broadcast begins.
Receive ==
  /\ Alive /\ listener = "waiting" /\ inbox # <<>>
  /\ message' = Head(inbox)
  /\ inbox' = Tail(inbox)
  /\ size' = Cardinality(clients) /\ calm' = TRUE
  /\ Continue(Head(inbox), Cardinality(clients), clients, {}, TRUE)
  /\ UNCHANGED <<conn, app, published, got>>

\* send_text returned.  What it sent to a broken connection is nowhere.
SendReturns ==
  /\ Alive /\ listener = "sending" /\ conn[target] \in {"open", "broken"}
  /\ got' = [got EXCEPT ![target] = IF conn[target] = "open" THEN Append(@, message) ELSE @]
  /\ Continue(message, size, todo, dead, calm)
  /\ UNCHANGED <<conn, app, published, inbox, message, size, calm>>

\* Mutant of SendFails: the wait for a broken connection has no end.
SendFailsNot == FALSE /\ UNCHANGED vars

\* send_text raised.
SendFails ==
  /\ Alive /\ listener = "sending" /\ conn[target] # "open"
  /\ Continue(message, size, todo, dead \cup {target}, calm)
  /\ UNCHANGED <<conn, app, published, inbox, message, size, got, calm>>

\* Redis is not there, or goes away: subscribe or listen raises.
RedisFails ==
  /\ RedisMayFail
  /\ Alive /\ listener \in {"starting", "waiting"}
  /\ listener' = "failed"
  /\ UNCHANGED <<conn, clients, app, published, inbox, loop, got, history>>

\* lifespan ends: cancel interrupts the listener at its await, and awaiting it
\* raises what ended it, if anything did.
Shutdown ==
  /\ Alive
  /\ IF listener = "failed"
     THEN app' = "error" /\ UNCHANGED listener
     ELSE app' = "stopped" /\ listener' = "cancelled"
  /\ UNCHANGED <<conn, clients, published, inbox, loop, got, history>>

Listen == Subscribe \/ Receive \/ SendReturns \/ SendFails

Next ==
  \/ Publish
  \/ \E c \in Client : Connect(c) \/ Break(c) \/ Leave(c) \/ Crash(c)
  \/ Listen \/ RedisFails \/ Shutdown

\* The event loop runs every ready task, and no send_text is awaited for ever:
\* uvicorn's keepalive breaks a connection that stops reading.
Spec == Init /\ [][Next]_vars /\ WF_vars(Listen) /\ \A c \in Client : WF_vars(Leave(c))

-----------------------------------------------------------------------------
\* The type invariant, with what the loop's variables may be outside it.
TypeOK ==
  /\ conn \in [Client -> {"new", "open", "broken", "orphan", "closed"}]
  /\ clients \subseteq Client /\ todo \subseteq clients /\ dead \subseteq Client
  /\ listener \in {"starting", "waiting", "sending", "failed", "cancelled"}
  /\ app \in {"running", "stopped", "error"}
  /\ published \in 0 .. MaxMessages /\ message \in 0 .. published
  /\ \A c \in clients : conn[c] \notin {"new", "closed"}
  /\ \A c \in Client : conn[c] = "open" => c \in clients

\* What Redis has for the listener is in order and later than what it took.
InOrder ==
  /\ inbox \in Seq(Nat)
  /\ \A i \in DOMAIN inbox : message < inbox[i] /\ inbox[i] <= published
  /\ \A i, j \in DOMAIN inbox : i < j => inbox[i] < inbox[j]
  /\ listener = "sending" => target \in Client /\ conn[target] # "new" /\ message # 0
  /\ got \in [Client -> Seq(Nat)]
  /\ \A c \in dead : conn[c] \notin {"new", "open"}

\* The inductive invariant: every connection that is up is in the set, and one
\* in the set is neither new nor closed, whatever broadcast and the endpoints
\* do to it; what is still to be sent is in order.
ForwardInv == TypeOK /\ InOrder

\* How often browser c received message m.
Receipts(c, m) == Cardinality({i \in DOMAIN got[c] : got[c][i] = m})

\* Every message whose broadcast no connection joined or left reaches each
\* connection of the set exactly once, or throws it out: a member that is not
\* (unknowingly) broken has all those messages, once.
CalmBroadcastsReachAll ==
  \A c \in clients : conn[c] # "broken" => \A m \in owed[c] : Receipts(c, m) = 1

\* redis_listener's "Runs for the lifetime of the FastAPI app", with a Redis
\* that is always there.
ListenerRuns == Alive => listener # "failed"

\* However slow or broken its clients, a listener that lives gets to the end of
\* what Redis has for it.
Drains == inbox # <<>> ~> inbox = <<>> \/ listener \in {"failed", "cancelled"}

-----------------------------------------------------------------------------
(* Refinement. *)

AbstractRelay == INSTANCE Relay WITH
  Connection <- Client,
  at <- message,
  members <- {c \in Client : conn[c] = "open"},
  wire <- got

\* Whoever connects, breaks, crashes or leaves in the middle of a broadcast, and
\* whatever the iteration over the changed set meets, each browser is only ever
\* sent the message of the moment, and messages are taken in order: what the
\* dashboards count on.
ImplementsRelay == AbstractRelay!Spec
=============================================================================
