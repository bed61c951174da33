----------------------------- MODULE BridgeProofs -----------------------------
(***************************************************************************)
(* The bridge implements Relay, for any number of connections and          *)
(* messages, whatever changes the set of clients during a broadcast; what  *)
(* Relay gives the other end; and a broadcast during which the set did not *)
(* change reaches every member once.                                       *)
(***************************************************************************)
EXTENDS Bridge, FiniteSetTheorems, TLAPS

\* The initial state.
LEMMA InitForwardInv == Init => ForwardInv
<1>1. SUFFICES ASSUME Init PROVE ForwardInv
  OBVIOUS
<1>2. TypeOK
  BY <1>1, BridgeAssumption DEF Init, TypeOK
<1>3. InOrder
  BY <1>1 DEF Init, InOrder
<1>4. QED
  BY <1>2, <1>3 DEF ForwardInv

\* The loop over the set takes the connections to come, and those to throw
\* out, from the set; the latter are not up.
LEMMA ContinueKeeps ==
  ASSUME ForwardInv, Alive, NEW m \in Nat \ {0}, NEW n, NEW rest, NEW gone, NEW quiet,
         rest \subseteq clients, gone \subseteq Client,
         \A c \in gone : conn[c] \notin {"new", "open"},
         Continue(m, n, rest, gone, quiet), conn' = conn
  PROVE  /\ clients' \subseteq Client /\ todo' \subseteq clients' /\ dead' \subseteq Client
         /\ listener' \in {"waiting", "sending", "failed"}
         /\ listener' = "sending" => target' \in Client /\ conn'[target'] # "new"
         /\ \A c \in clients' : conn'[c] \notin {"new", "closed"}
         /\ \A c \in Client : conn'[c] = "open" => c \in clients'
         /\ \A c \in dead' : conn'[c] \notin {"new", "open"}
<1> USE DEF ForwardInv, TypeOK
<1>1. CASE /\ \E c \in rest : target' = c /\ todo' = rest \ {c}
           /\ dead' = gone
           /\ listener' = "sending"
           /\ UNCHANGED <<clients, owed>>
  BY <1>1
<1>2. CASE Finish(m, gone, quiet)
  BY <1>2 DEF Finish
<1>3. CASE /\ target' = None /\ todo' = {} /\ dead' = {}
           /\ listener' = "failed"
           /\ UNCHANGED <<clients, owed>>
  BY <1>3
<1>4. QED
  BY <1>1, <1>2, <1>3 DEF Continue

\* One step, by action.
LEMMA StepForwardInv == ForwardInv /\ [Next]_vars => ForwardInv'
<1> SUFFICES ASSUME ForwardInv, [Next]_vars PROVE ForwardInv'
  OBVIOUS
<1> USE DEF ForwardInv
<1>0. /\ published \in Nat /\ message \in Nat /\ message <= published
      /\ published <= MaxMessages /\ MaxMessages \in Nat
  BY BridgeAssumption DEF TypeOK
<1>1. CASE Publish
  <2>1. TypeOK'
    BY <1>0, <1>1 DEF Publish, loop, history, TypeOK
  <2>2. InOrder'
    <3>1. CASE inbox' = inbox
      BY <1>0, <1>1, <3>1 DEF Publish, loop, history, InOrder
    <3>2. CASE inbox' = Append(inbox, published + 1)
      <4>1. inbox' \in Seq(Nat)
        BY <1>0, <3>2 DEF InOrder
      <4>2. \A i \in DOMAIN inbox' : message < inbox'[i] /\ inbox'[i] <= published + 1
        BY <1>0, <3>2 DEF InOrder
      <4>3. \A i, j \in DOMAIN inbox' : i < j => inbox'[i] < inbox'[j]
        BY <1>0, <3>2 DEF InOrder
      <4>4. QED
        BY <1>1, <4>1, <4>2, <4>3 DEF Publish, loop, history, InOrder
    <3>3. QED
      BY <1>1, <3>1, <3>2 DEF Publish
  <2>3. QED
    BY <2>1, <2>2
<1>2. ASSUME NEW c \in Client, Connect(c) PROVE ForwardInv'
  <2>1. TypeOK'
    BY <1>0, <1>2 DEF Connect, TypeOK
  <2>2. InOrder'
    BY <1>2 DEF Connect, InOrder, TypeOK
  <2>3. QED
    BY <2>1, <2>2
<1>3. ASSUME NEW c \in Client, Break(c) \/ Crash(c) PROVE ForwardInv'
  <2>1. TypeOK'
    BY <1>3 DEF Break, Crash, loop, history, TypeOK
  <2>2. InOrder'
    BY <1>3 DEF Break, Crash, loop, history, InOrder, TypeOK
  <2>3. QED
    BY <2>1, <2>2
<1>4. ASSUME NEW c \in Client, Leave(c) PROVE ForwardInv'
  <2>1. TypeOK'
    BY <1>4 DEF Leave, TypeOK
  <2>2. InOrder'
    BY <1>4 DEF Leave, InOrder, TypeOK
  <2>3. QED
    BY <2>1, <2>2
<1>5. CASE Subscribe \/ RedisFails \/ Shutdown
  <2>1. TypeOK'
    BY <1>5 DEF Subscribe, RedisFails, Shutdown, loop, history, TypeOK
  <2>2. InOrder'
    BY <1>5 DEF Subscribe, RedisFails, Shutdown, loop, history, InOrder, TypeOK
  <2>3. QED
    BY <2>1, <2>2
<1>6. CASE Receive
  <2>1. /\ Head(inbox) \in Nat \ {0} /\ message < Head(inbox) /\ Head(inbox) <= published
        /\ Tail(inbox) \in Seq(Nat)
        /\ \A i \in DOMAIN Tail(inbox) :
             i + 1 \in DOMAIN inbox /\ i + 1 > 1 /\ Tail(inbox)[i] = inbox[i + 1]
    BY <1>0, <1>6 DEF Receive, InOrder
  <2>2. Continue(Head(inbox), Cardinality(clients), clients, {}, TRUE) /\ conn' = conn /\ Alive
    BY <1>6 DEF Receive
  <2> HIDE DEF ForwardInv
  <2> DEFINE m == Head(inbox)
             n == Cardinality(clients)
             gone == {}
             quiet == TRUE
  <2>3. /\ clients' \subseteq Client /\ todo' \subseteq clients' /\ dead' \subseteq Client
        /\ listener' \in {"waiting", "sending", "failed"}
        /\ listener' = "sending" => target' \in Client /\ conn'[target'] # "new"
        /\ \A c \in clients' : conn'[c] \notin {"new", "closed"}
        /\ \A c \in Client : conn'[c] = "open" => c \in clients'
        /\ \A c \in dead' : conn'[c] \notin {"new", "open"}
    <3>1. m \in Nat \ {0} /\ Continue(m, n, clients, gone, quiet)
      BY <2>1, <2>2
    <3>2. gone \subseteq Client /\ clients \subseteq clients
      OBVIOUS
    <3>3. \A c \in gone : conn[c] \notin {"new", "open"}
      OBVIOUS
    <3> HIDE DEF m, n, gone, quiet
    <3>4. QED
      BY <2>2, <3>1, <3>2, <3>3, ContinueKeeps
  <2> USE DEF ForwardInv
  <2>4. TypeOK'
    BY <1>0, <1>6, <2>1, <2>3 DEF Receive, TypeOK
  <2>5. InOrder'
    <3>1. inbox' = Tail(inbox) /\ message' = Head(inbox) /\ got' = got /\ published' = published
      BY <1>6 DEF Receive
    <3>2. Head(inbox) = inbox[1] /\ 1 \in DOMAIN inbox
      BY <1>6 DEF Receive, InOrder
    <3>3. \A i \in DOMAIN inbox' : message' < inbox'[i] /\ inbox'[i] <= published'
      BY <2>1, <3>1, <3>2 DEF InOrder
    <3>4. \A i, j \in DOMAIN inbox' : i < j => inbox'[i] < inbox'[j]
      BY <2>1, <3>1 DEF InOrder
    <3>5. QED
      BY <2>1, <2>3, <3>1, <3>3, <3>4 DEF InOrder
  <2>6. QED
    BY <2>4, <2>5
<1>7. CASE SendReturns
  <2>1. message \in Nat \ {0} /\ target \in Client
    BY <1>0, <1>7 DEF SendReturns, InOrder
  <2>2. Continue(message, size, todo, dead, calm) /\ conn' = conn
    BY <1>7 DEF SendReturns
  <2>3. /\ clients' \subseteq Client /\ todo' \subseteq clients' /\ dead' \subseteq Client
        /\ listener' \in {"waiting", "sending", "failed"}
        /\ listener' = "sending" => target' \in Client /\ conn'[target'] # "new"
        /\ \A c \in clients' : conn'[c] \notin {"new", "closed"}
        /\ \A c \in Client : conn'[c] = "open" => c \in clients'
        /\ \A c \in dead' : conn'[c] \notin {"new", "open"}
    BY <2>1, <2>2, <1>7, ContinueKeeps DEF SendReturns, TypeOK, InOrder
  <2>4. TypeOK'
    BY <1>0, <1>7, <2>3 DEF SendReturns, TypeOK
  <2>5. got' \in [Client -> Seq(Nat)]
    BY <1>7, <2>1 DEF SendReturns, InOrder
  <2>6. InOrder'
    BY <1>7, <2>1, <2>3, <2>5 DEF SendReturns, InOrder
  <2>7. QED
    BY <2>4, <2>6
<1>8. CASE SendFails
  <2>1. message \in Nat \ {0} /\ target \in Client
    BY <1>0, <1>8 DEF SendFails, InOrder
  <2>2. /\ Continue(message, size, todo, dead \cup {target}, calm) /\ conn' = conn /\ Alive
        /\ todo \subseteq clients /\ dead \cup {target} \subseteq Client
        /\ \A c \in dead \cup {target} : conn[c] \notin {"new", "open"}
    <3>1. conn[target] \notin {"new", "open"}
      BY <1>8 DEF SendFails, InOrder
    <3>2. QED
      BY <1>8, <2>1, <3>1 DEF SendFails, TypeOK, InOrder
  <2> HIDE DEF ForwardInv
  <2>3. /\ clients' \subseteq Client /\ todo' \subseteq clients' /\ dead' \subseteq Client
        /\ listener' \in {"waiting", "sending", "failed"}
        /\ listener' = "sending" => target' \in Client /\ conn'[target'] # "new"
        /\ \A c \in clients' : conn'[c] \notin {"new", "closed"}
        /\ \A c \in Client : conn'[c] = "open" => c \in clients'
        /\ \A c \in dead' : conn'[c] \notin {"new", "open"}
    BY <2>1, <2>2, ContinueKeeps
  <2> USE DEF ForwardInv
  <2>4. TypeOK'
    BY <1>0, <1>8, <2>3 DEF SendFails, TypeOK
  <2>5. InOrder'
    BY <1>8, <2>1, <2>3 DEF SendFails, InOrder
  <2>6. QED
    BY <2>4, <2>5
<1>9. CASE UNCHANGED vars
  BY <1>9 DEF vars, loop, history, TypeOK, InOrder
<1>10. QED
  BY <1>1, <1>2, <1>3, <1>4, <1>5, <1>6, <1>7, <1>8, <1>9 DEF Next, Listen

\* A connection that is up is in the set of clients, the listener sends only to
\* connections it knows, and what it has still to send is in order.
THEOREM Forwards == Spec => []ForwardInv
  BY InitForwardInv, StepForwardInv, PTL DEF Spec

-----------------------------------------------------------------------------
(* Refinement. *)

\* The initial state.
LEMMA InitRelay == Init => AbstractRelay!Init
  BY DEF Init, AbstractRelay!Init

\* One step, by action.
LEMMA StepRelay ==
  ForwardInv /\ [Next]_vars => [AbstractRelay!Next]_(AbstractRelay!relayVars)
<1> DEFINE up == {c \in Client : conn[c] = "open"}
<1> SUFFICES ASSUME ForwardInv, [Next]_vars
             PROVE  AbstractRelay!Next \/ UNCHANGED <<message, up, got>>
  BY DEF AbstractRelay!relayVars
<1> USE DEF ForwardInv
<1>0. conn \in [Client -> {"new", "open", "broken", "orphan", "closed"}]
  BY DEF TypeOK
<1>1. CASE Publish \/ Subscribe \/ RedisFails \/ Shutdown
  BY <1>1 DEF Publish, Subscribe, RedisFails, Shutdown, loop
<1>2. ASSUME NEW c \in Client, Connect(c) PROVE AbstractRelay!Next
  <2>1. c \notin up /\ up' = up \cup {c}
    BY <1>0, <1>2 DEF Connect
  <2>2. AbstractRelay!Join(c)
    BY <1>2, <2>1 DEF Connect, AbstractRelay!Join
  <2>3. QED
    BY <2>2 DEF AbstractRelay!Next
<1>3. ASSUME NEW c \in Client, Break(c) \/ Crash(c) PROVE AbstractRelay!Next
  <2>1. up' = up \ {c}
    BY <1>0, <1>3 DEF Break, Crash
  <2>2. AbstractRelay!Leave(c)
    BY <1>3, <2>1 DEF Break, Crash, loop, AbstractRelay!Leave
  <2>3. QED
    BY <2>2 DEF AbstractRelay!Next
<1>4. ASSUME NEW c \in Client, Leave(c) PROVE UNCHANGED <<message, up, got>>
  <2>1. up' = up
    BY <1>0, <1>4 DEF Leave
  <2>2. QED
    BY <1>4, <2>1 DEF Leave
<1>5. CASE Receive
  <2>1. Head(inbox) \in Nat /\ Head(inbox) > message /\ message \in Nat
    BY <1>5, BridgeAssumption DEF Receive, InOrder, TypeOK
  <2>2. message' = Head(inbox) /\ up' = up /\ got' = got
    BY <1>5 DEF Receive
  <2>3. AbstractRelay!Take
    BY <2>1, <2>2 DEF AbstractRelay!Take
  <2>4. QED
    BY <2>3 DEF AbstractRelay!Next
<1>6. CASE SendReturns
  <2>1. message # 0 /\ target \in Client /\ UNCHANGED <<message, up>>
    BY <1>6 DEF SendReturns, InOrder
  <2>2. CASE conn[target] = "open"
    <3>1. target \in up /\ got' = [got EXCEPT ![target] = Append(got[target], message)]
      BY <1>6, <2>1, <2>2 DEF SendReturns
    <3>2. AbstractRelay!Deliver(target)
      BY <2>1, <3>1 DEF AbstractRelay!Deliver
    <3>3. QED
      BY <2>1, <3>2 DEF AbstractRelay!Next
  <2>3. CASE conn[target] # "open"
    <3>1. got' = [got EXCEPT ![target] = got[target]]
      BY <1>6, <2>3 DEF SendReturns
    <3>2. got' = got
      BY <3>1 DEF InOrder
    <3>3. QED
      BY <2>1, <3>2
  <2>4. QED
    BY <2>2, <2>3
<1>7. CASE SendFails
  BY <1>7 DEF SendFails
<1>8. CASE UNCHANGED vars
  BY <1>8 DEF vars, loop
<1>9. QED
  BY <1>1, <1>2, <1>3, <1>4, <1>5, <1>6, <1>7, <1>8 DEF Next, Listen

\* Each browser is sent only the message of the moment, and messages are taken
\* in order: the bridge does what Relay says, which Dashboard builds on.
THEOREM BridgeIsRelay == Spec => ImplementsRelay
  BY Forwards, InitRelay, StepRelay, PTL DEF Spec, ImplementsRelay, AbstractRelay!Spec
-----------------------------------------------------------------------------
(* What follows from Relay, here seen through the bridge: message is its   *)
(* at, the open connections its members and got its wire.                  *)

RelayInv ==
  /\ message \in Nat
  /\ got \in [Client -> Seq(Nat)]
  /\ AbstractRelay!Ordered

\* The initial state of Relay.
LEMMA InitRelayInv == AbstractRelay!Init => RelayInv
  BY DEF AbstractRelay!Init, RelayInv, AbstractRelay!Ordered

\* One step of Relay, by action.
LEMMA StepRelayInv ==
  RelayInv /\ [AbstractRelay!Next]_(AbstractRelay!relayVars) => RelayInv'
<1> SUFFICES ASSUME RelayInv, [AbstractRelay!Next]_(AbstractRelay!relayVars)
             PROVE  RelayInv'
  OBVIOUS
<1> USE DEF RelayInv
<1>1. CASE AbstractRelay!Take
  <2>1. got' = got /\ message' \in Nat /\ message' > message
    BY <1>1 DEF AbstractRelay!Take
  <2>2. \A c \in Client : \A i \in DOMAIN got[c] : got[c][i] \in Nat
    OBVIOUS
  <2>3. QED
    BY <2>1, <2>2 DEF AbstractRelay!Ordered
<1>2. ASSUME NEW c \in Client, AbstractRelay!Join(c) \/ AbstractRelay!Leave(c)
      PROVE  RelayInv'
  BY <1>2 DEF AbstractRelay!Join, AbstractRelay!Leave, AbstractRelay!Ordered
<1>3. ASSUME NEW c \in Client, AbstractRelay!Deliver(c) PROVE RelayInv'
  <2>1. got' = [got EXCEPT ![c] = Append(got[c], message)] /\ message' = message
    BY <1>3 DEF AbstractRelay!Deliver
  <2>2. got' \in [Client -> Seq(Nat)]
    BY <2>1
  <2>3. \A i \in DOMAIN got'[c] : got'[c][i] <= message
    BY <2>1 DEF AbstractRelay!Ordered
  <2>4. \A i, j \in DOMAIN got'[c] : i < j => got'[c][i] <= got'[c][j]
    BY <2>1 DEF AbstractRelay!Ordered
  <2>5. QED
    BY <2>1, <2>2, <2>3, <2>4 DEF AbstractRelay!Ordered
<1>4. ASSUME NEW c \in Client, AbstractRelay!Read(c) PROVE RelayInv'
  <2>1. got' = [got EXCEPT ![c] = Tail(got[c])] /\ message' = message /\ got[c] # <<>>
    BY <1>4 DEF AbstractRelay!Read
  <2>2. /\ Tail(got[c]) \in Seq(Nat)
        /\ \A i \in DOMAIN Tail(got[c]) :
             i + 1 \in DOMAIN got[c] /\ Tail(got[c])[i] = got[c][i + 1]
    BY <2>1
  <2>3. \A i \in DOMAIN got'[c] : got'[c][i] <= message
    BY <2>1, <2>2 DEF AbstractRelay!Ordered
  <2>4. \A i, j \in DOMAIN got'[c] : i < j => got'[c][i] <= got'[c][j]
    BY <2>1, <2>2 DEF AbstractRelay!Ordered
  <2>5. QED
    BY <2>1, <2>2, <2>3, <2>4 DEF AbstractRelay!Ordered
<1>5. ASSUME NEW c \in Client, AbstractRelay!Discard(c) \/ AbstractRelay!Lose(c)
      PROVE  RelayInv'
  <2>1. got' = [got EXCEPT ![c] = <<>>] /\ message' = message
    BY <1>5 DEF AbstractRelay!Discard, AbstractRelay!Lose
  <2>2. got' \in [Client -> Seq(Nat)]
    BY <2>1
  <2>3. QED
    BY <2>1, <2>2 DEF AbstractRelay!Ordered
<1>6. CASE UNCHANGED AbstractRelay!relayVars
  BY <1>6 DEF AbstractRelay!relayVars, AbstractRelay!Ordered
<1>7. QED
  BY <1>1, <1>2, <1>3, <1>4, <1>5, <1>6 DEF AbstractRelay!Next

\* Whatever does what Relay says never has an older message behind a newer one
\* on a connection, nor one that was not taken yet.
THEOREM RelayOrdered == AbstractRelay!Spec => []AbstractRelay!Ordered
<1>1. RelayInv => AbstractRelay!Ordered
  BY DEF RelayInv
<1>2. QED
  BY InitRelayInv, StepRelayInv, <1>1, PTL DEF AbstractRelay!Spec

\* So no browser is sent an older message after a newer one, though sends fail,
\* clients come and go and the set changes under the loop.
THEOREM BrowsersInOrder == Spec => []AbstractRelay!Ordered
  BY BridgeIsRelay, RelayOrdered, PTL DEF ImplementsRelay
-----------------------------------------------------------------------------
(* Every calm broadcast reaches all. *)

\* How often message m is in the list q.
Count(q, m) == Cardinality({i \in DOMAIN q : q[i] = m})

\* In the broadcast of message m to the members cl, of which it is still to meet
\* rest and found gone dead: the others have m once, those to come not yet.
Sent(cl, cn, g, m, rest, gone) ==
  \A c \in cl : cn[c] # "broken" =>
    IF c \in rest THEN Count(g[c], m) = 0 ELSE c \in gone \/ Count(g[c], m) = 1

\* The inductive invariant, with ForwardInv and the order of messages.
ReceiptInv ==
  /\ owed \in [Client -> SUBSET Nat]
  /\ \A c \in Client : conn[c] = "new" => owed[c] = {}
  /\ \A c \in Client : \A m \in owed[c] :
       m <= message /\ (listener = "sending" => m # message)
  /\ \A c \in clients : conn[c] # "broken" => \A m \in owed[c] : Count(got[c], m) = 1
  /\ listener = "sending" /\ calm =>
       target \notin todo /\ Sent(clients, conn, got, message, todo \cup {target}, dead)

\* The property is the part of the invariant that counts the messages on the wires.
LEMMA ReceiptsReach == ReceiptInv => CalmBroadcastsReachAll
  BY DEF ReceiptInv, CalmBroadcastsReachAll, Receipts, Count

\* One more message in a list.
LEMMA CountAppend ==
  ASSUME NEW q \in Seq(Nat), NEW n \in Nat, NEW m \in Nat
  PROVE  /\ Count(q, m) \in Nat
         /\ Count(Append(q, n), m) = IF n = m THEN Count(q, m) + 1 ELSE Count(q, m)
<1> DEFINE a == Append(q, n)
           l == Len(q) + 1
           S == {i \in DOMAIN q : q[i] = m}
           T == {i \in DOMAIN a : a[i] = m}
<1>1. /\ DOMAIN a = DOMAIN q \cup {l} /\ a[l] = n /\ l \notin DOMAIN q
      /\ \A i \in DOMAIN q : a[i] = q[i]
  OBVIOUS
<1>2. IsFiniteSet(S) /\ Cardinality(S) \in Nat
  <2>1. Len(q) \in Nat /\ DOMAIN q = 1 .. Len(q)
    OBVIOUS
  <2>2. IsFiniteSet(DOMAIN q)
    BY <2>1, FS_Interval
  <2>3. S \in SUBSET (DOMAIN q)
    OBVIOUS
  <2>4. QED
    BY <2>2, <2>3, FS_Subset, FS_CardinalityType
<1>3. T = IF n = m THEN S \cup {l} ELSE S
  <2> HIDE DEF a, l
  <2>1. QED
    BY <1>1
<1>4. l \notin S
  BY <1>1
<1>5. Count(a, m) = Cardinality(T) /\ Count(q, m) = Cardinality(S)
  BY DEF Count
<1> HIDE DEF S, T, a, l
<1>6. Cardinality(S \cup {l}) = Cardinality(S) + 1
  BY <1>2, <1>4, FS_AddElement
<1>7. QED
  BY <1>2, <1>3, <1>5, <1>6 DEF a

\* A message that is not in a list.
LEMMA CountNone ==
  ASSUME NEW q, NEW m, \A i \in DOMAIN q : q[i] # m
  PROVE  Count(q, m) = 0
<1>1. {i \in DOMAIN q : q[i] = m} = {}
  OBVIOUS
<1>2. QED
  BY <1>1, FS_EmptySet DEF Count

\* The loop goes on, or is over.
LEMMA ContinueReceipts ==
  ASSUME ForwardInv, NEW m \in Nat, NEW n, NEW rest, NEW gone, NEW quiet,
         Continue(m, n, rest, gone, quiet), conn' = conn, message' = m, calm' = quiet,
         owed \in [Client -> SUBSET Nat],
         \A c \in Client : conn[c] = "new" => owed[c] = {},
         \A c \in Client : \A x \in owed[c] : x < m,
         \A c \in clients : conn[c] # "broken" => \A x \in owed[c] : Count(got'[c], x) = 1,
         quiet => Sent(clients, conn, got', m, rest, gone)
  PROVE  ReceiptInv'
<1>1. /\ clients \subseteq Client /\ \A c \in clients : conn[c] # "new"
  BY DEF ForwardInv, TypeOK
<1>2. \A c \in Client : owed[c] \subseteq Nat
  OBVIOUS
<1>3. CASE /\ \E c \in rest : target' = c /\ todo' = rest \ {c}
           /\ dead' = gone
           /\ listener' = "sending"
           /\ UNCHANGED <<clients, owed>>
  <2>1. target' \in rest /\ todo' = rest \ {target'} /\ dead' = gone
    BY <1>3
  <2>2. todo' \cup {target'} = rest
    BY <2>1
  <2>3. quiet => Sent(clients', conn', got', message', todo' \cup {target'}, dead')
    BY <1>3, <2>1, <2>2
  <2>4. \A c \in Client : \A x \in owed'[c] : x <= message' /\ x # message'
    BY <1>2, <1>3
  <2>5. QED
    BY <1>3, <2>1, <2>3, <2>4 DEF ReceiptInv
<1>4. CASE rest = {} /\ Finish(m, gone, quiet)
  <2>1. /\ listener' = "waiting" /\ clients' = clients \ gone
        /\ owed' = [c \in Client |->
                     IF c \in clients /\ quiet THEN owed[c] \cup {m} ELSE owed[c]]
    BY <1>4 DEF Finish
  <2>2. owed' \in [Client -> SUBSET Nat]
    BY <2>1
  <2>3. \A c \in Client : conn'[c] = "new" => owed'[c] = {}
    BY <1>1, <2>1
  <2>4. \A c \in Client : \A x \in owed'[c] : x <= message'
    BY <1>2, <2>1
  <2>5. ASSUME NEW c \in clients', conn'[c] # "broken", NEW x \in owed'[c]
        PROVE  Count(got'[c], x) = 1
    <3>1. c \in clients /\ c \notin gone /\ c \in Client /\ conn[c] # "broken"
      BY <1>1, <2>1, <2>5
    <3>2. CASE x \in owed[c]
      BY <3>1, <3>2
    <3>3. CASE x = m /\ quiet
      BY <1>4, <3>1, <3>3 DEF Sent
    <3>4. QED
      BY <2>1, <2>5, <3>1, <3>2, <3>3
  <2>6. QED
    BY <2>1, <2>2, <2>3, <2>4, <2>5 DEF ReceiptInv
<1>5. CASE /\ target' = None /\ todo' = {} /\ dead' = {}
           /\ listener' = "failed"
           /\ UNCHANGED <<clients, owed>>
  <2>1. \A c \in Client : \A x \in owed'[c] : x <= message'
    BY <1>2, <1>5
  <2>2. QED
    BY <1>5, <2>1 DEF ReceiptInv
<1>6. QED
  BY <1>3, <1>4, <1>5 DEF Continue

\* A step that sends nothing, and after which a broadcast that is calm is as it
\* was.
LEMMA ReceiptsKept ==
  ASSUME ReceiptInv, UNCHANGED <<message, got, owed>>,
         \A c \in Client : conn'[c] = "new" => conn[c] = "new",
         \A c \in clients' : \/ conn'[c] = "broken" \/ owed[c] = {}
                             \/ c \in clients /\ conn[c] # "broken",
         listener' = "sending" => listener = "sending",
         listener' = "sending" /\ calm' =>
           /\ calm /\ UNCHANGED <<clients, target, todo, dead>>
           /\ \A c \in clients : conn[c] = "broken" => conn'[c] = "broken"
  PROVE  ReceiptInv'
<1>1. /\ owed' \in [Client -> SUBSET Nat]
      /\ \A c \in Client : conn'[c] = "new" => owed'[c] = {}
      /\ \A c \in Client : \A m \in owed'[c] :
           m <= message' /\ (listener' = "sending" => m # message')
  BY DEF ReceiptInv
<1>2. \A c \in clients' : conn'[c] # "broken" => \A m \in owed'[c] : Count(got'[c], m) = 1
  BY DEF ReceiptInv
<1>3. listener' = "sending" /\ calm' =>
        target' \notin todo' /\ Sent(clients', conn', got', message', todo' \cup {target'}, dead')
  BY DEF ReceiptInv, Sent
<1>4. QED
  BY <1>1, <1>2, <1>3 DEF ReceiptInv

\* One step, by action.
LEMMA StepReceipts ==
  ASSUME ForwardInv, AbstractRelay!Ordered, ReceiptInv, [Next]_vars
  PROVE  ReceiptInv'
<1>1. /\ conn \in [Client -> {"new", "open", "broken", "orphan", "closed"}]
      /\ clients \subseteq Client /\ todo \subseteq clients
      /\ \A c \in clients : conn[c] \notin {"new", "closed"}
      /\ message \in Nat /\ got \in [Client -> Seq(Nat)]
  BY BridgeAssumption DEF ForwardInv, TypeOK, InOrder
<1>2. /\ owed \in [Client -> SUBSET Nat]
      /\ \A c \in Client : conn[c] = "new" => owed[c] = {}
      /\ \A c \in Client : \A m \in owed[c] :
           m <= message /\ (listener = "sending" => m # message)
      /\ \A c \in clients : conn[c] # "broken" => \A m \in owed[c] : Count(got[c], m) = 1
      /\ listener = "sending" /\ calm =>
           target \notin todo /\ Sent(clients, conn, got, message, todo \cup {target}, dead)
  BY DEF ReceiptInv
<1>3. CASE Publish \/ RedisFails \/ Subscribe \/ Shutdown
  <2>1. UNCHANGED <<message, got, owed, conn, clients, target, todo, dead, calm>>
    BY <1>3 DEF Publish, RedisFails, Subscribe, Shutdown, loop, history
  <2>2. listener' = "sending" => listener = "sending"
    BY <1>3 DEF Publish, RedisFails, Subscribe, Shutdown
  <2>3. QED
    BY <2>1, <2>2, ReceiptsKept
<1>4. ASSUME NEW c \in Client, Connect(c) PROVE ReceiptInv'
  <2>1. /\ conn[c] = "new" /\ conn' = [conn EXCEPT ![c] = "open"]
        /\ clients' = clients \cup {c} /\ UNCHANGED <<message, got, owed, listener>>
        /\ listener = "sending" => calm' = FALSE
    BY <1>4 DEF Connect
  <2>2. owed[c] = {}
    BY <1>2, <2>1
  <2>3. \A d \in Client : d # c => conn'[d] = conn[d]
    BY <1>1, <2>1
  <2>4. \A d \in clients' : \/ conn'[d] = "broken" \/ owed[d] = {}
                            \/ d \in clients /\ conn[d] # "broken"
    BY <1>1, <2>1, <2>2, <2>3
  <2>5. \A d \in Client : conn'[d] = "new" => conn[d] = "new"
    BY <2>1, <2>3
  <2>6. QED
    BY <2>1, <2>4, <2>5, ReceiptsKept
<1>5. ASSUME NEW c \in Client, Break(c) \/ Crash(c) PROVE ReceiptInv'
  <2>1. /\ conn[c] = "open" /\ \E v \in {"broken", "orphan"} : conn' = [conn EXCEPT ![c] = v]
        /\ UNCHANGED <<message, got, owed, clients, target, todo, dead, calm, listener>>
    BY <1>5 DEF Break, Crash, loop, history
  <2>2. \A d \in Client : d # c => conn'[d] = conn[d]
    BY <1>1, <2>1
  <2>3. conn'[c] # "new"
    BY <1>1, <2>1
  <2>4. QED
    BY <1>1, <2>1, <2>2, <2>3, ReceiptsKept
<1>6. ASSUME NEW c \in Client, Leave(c) PROVE ReceiptInv'
  <2>1. /\ conn' = [conn EXCEPT ![c] = "closed"] /\ clients' = clients \ {c}
        /\ todo' = todo \ {c} /\ calm' = (calm /\ ~(listener = "sending" /\ c \in clients))
        /\ UNCHANGED <<message, got, owed, target, dead, listener>>
    BY <1>6 DEF Leave
  <2>2. \A d \in Client : d # c => conn'[d] = conn[d]
    BY <1>1, <2>1
  <2>3. conn'[c] # "new"
    BY <1>1, <2>1
  <2>4. \A d \in clients' : d \in clients /\ conn'[d] = conn[d]
    BY <1>1, <2>1, <2>2
  <2>5. listener = "sending" /\ calm' => calm /\ c \notin clients
    BY <2>1
  <2>6. c \notin clients => clients' = clients /\ todo' = todo
    BY <1>1, <2>1
  <2>7. c \notin clients => \A d \in clients : conn'[d] = conn[d]
    BY <2>4, <2>6
  <2>8. QED
    BY <2>1, <2>2, <2>3, <2>4, <2>5, <2>6, <2>7, ReceiptsKept
<1>7. CASE Receive
  <2> DEFINE m == Head(inbox)
             n == Cardinality(clients)
             none == {}
  <2>1. /\ Continue(m, n, clients, none, TRUE) /\ conn' = conn
        /\ message' = m /\ calm' = TRUE /\ got' = got
    BY <1>7 DEF Receive
  <2>2. m \in Nat /\ message < m
    BY <1>1, <1>7 DEF Receive, ForwardInv, InOrder
  <2> HIDE DEF m, n
  <2>3. \A c \in Client : \A x \in owed[c] : x < m
    BY <1>1, <1>2, <2>2
  <2>4. ASSUME NEW c \in clients PROVE Count(got'[c], m) = 0
    <3>1. \A i \in DOMAIN got[c] : got[c][i] <= message /\ got[c][i] \in Nat
      BY <1>1 DEF AbstractRelay!Ordered
    <3>2. \A i \in DOMAIN got[c] : got[c][i] # m
      BY <1>1, <2>2, <3>1
    <3>3. QED
      BY <2>1, <3>2, CountNone
  <2>5. Sent(clients, conn, got', m, clients, none)
    BY <2>4 DEF Sent
  <2> HIDE DEF none
  <2>6. QED
    BY <1>2, <2>1, <2>2, <2>3, <2>5, ContinueReceipts
<1>8. ASSUME listener = "sending"
      PROVE  /\ target \in Client
             /\ \A c \in Client : \A x \in owed[c] : x < message /\ x \in Nat
  BY <1>1, <1>2, <1>8 DEF ForwardInv, InOrder
<1>9. CASE SendReturns
  <2>1. /\ listener = "sending" /\ conn[target] \in {"open", "broken"}
        /\ got' = [got EXCEPT ![target] =
                     IF conn[target] = "open" THEN Append(got[target], message) ELSE got[target]]
        /\ Continue(message, size, todo, dead, calm)
        /\ UNCHANGED <<conn, message, calm>>
    BY <1>9 DEF SendReturns
  <2>2. \A c \in Client : c # target => got'[c] = got[c]
    BY <1>1, <1>8, <2>1
  <2>3. conn[target] = "open" => got'[target] = Append(got[target], message)
    BY <1>1, <1>8, <2>1
  <2>4. got[target] \in Seq(Nat)
    BY <1>1, <1>8, <2>1
  <2>5. \A x \in owed[target] : x < message /\ x \in Nat
    BY <1>8, <2>1
  <2>6. conn[target] = "open" =>
          /\ Count(got'[target], message) = Count(got[target], message) + 1
          /\ \A x \in owed[target] : Count(got'[target], x) = Count(got[target], x)
    <3>1. \A q \in Seq(Nat) : \A x \in Nat :
            Count(Append(q, message), x) = IF message = x THEN Count(q, x) + 1 ELSE Count(q, x)
      BY <1>1, CountAppend
    <3> DEFINE q == got[target]
    <3>2. q \in Seq(Nat)
      BY <2>4
    <3> HIDE DEF q
    <3>3. Count(Append(q, message), message) = Count(q, message) + 1
      BY <1>1, <3>1, <3>2
    <3>4. \A x \in owed[target] : Count(Append(q, message), x) = Count(q, x)
      BY <1>1, <2>5, <3>1, <3>2
    <3>5. QED
      BY <2>3, <3>3, <3>4 DEF q
  <2>7. \A c \in clients : conn[c] # "broken" => \A x \in owed[c] : Count(got'[c], x) = 1
    BY <1>1, <1>2, <2>1, <2>2, <2>6
  <2>8. calm => Sent(clients, conn, got', message, todo, dead)
    <3> SUFFICES ASSUME calm, NEW c \in clients, conn[c] # "broken"
                 PROVE  IF c \in todo THEN Count(got'[c], message) = 0
                        ELSE c \in dead \/ Count(got'[c], message) = 1
      BY DEF Sent
    <3>1. IF c \in todo \cup {target} THEN Count(got[c], message) = 0
          ELSE c \in dead \/ Count(got[c], message) = 1
      BY <1>2, <2>1 DEF Sent
    <3>2. CASE c = target
      BY <1>2, <2>1, <2>6, <3>1, <3>2
    <3>3. CASE c # target
      BY <1>1, <2>2, <3>1, <3>3
    <3>4. QED
      BY <3>2, <3>3
  <2>9. \A c \in Client : \A x \in owed[c] : x < message
    BY <1>8, <2>1
  <2>10. QED
    BY <1>1, <1>2, <2>1, <2>7, <2>8, <2>9, ContinueReceipts
<1>10. CASE SendFails
  <2> DEFINE gone == dead \cup {target}
  <2>1. /\ listener = "sending" /\ conn[target] # "open"
        /\ Continue(message, size, todo, gone, calm)
        /\ UNCHANGED <<conn, message, calm, got>>
    BY <1>10 DEF SendFails
  <2>2. calm => Sent(clients, conn, got', message, todo, gone)
    BY <1>2, <2>1 DEF Sent
  <2>3. \A c \in Client : \A x \in owed[c] : x < message
    BY <1>8, <2>1
  <2> HIDE DEF gone
  <2>4. QED
    BY <1>1, <1>2, <2>1, <2>2, <2>3, ContinueReceipts
<1>11. CASE UNCHANGED vars
  BY <1>11, ReceiptsKept DEF vars, loop, history
<1>12. QED
  BY <1>3, <1>4, <1>5, <1>6, <1>7, <1>9, <1>10, <1>11 DEF Next, Listen

\* At the start nothing is being sent.
LEMMA InitReceipts == Init => ReceiptInv
  BY DEF Init, ReceiptInv

\* CalmBroadcastsReachAll holds in every reachable state: whoever breaks, crashes
\* or leaves, a member of the set that is not unknowingly broken got every
\* message of a calm broadcast once.
THEOREM CalmReachesAll == Spec => []CalmBroadcastsReachAll
<1>1. ForwardInv /\ AbstractRelay!Ordered /\ ReceiptInv /\ [Next]_vars => ReceiptInv'
  BY StepReceipts
<1>2. QED
  BY <1>1, InitReceipts, ReceiptsReach, Forwards, BrowsersInOrder, PTL DEF Spec
=============================================================================
