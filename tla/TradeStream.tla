----------------------------- MODULE TradeStream -----------------------------
(***************************************************************************)
(* server/grpc_server.go, broadcastTrades and StreamMarketData: the trades *)
(* of each SubmitOrder are fanned out, under subMu, to a bounded channel   *)
(* per streaming client with sends that do not block; each client's RPC    *)
(* drains its channel until the client goes away.                          *)
(*                                                                         *)
(* subMu is the variable sender: the SubmitOrder that holds it.  The other *)
(* critical sections (one map insertion, one deletion) are one step.       *)
(***************************************************************************)
EXTENDS Naturals, Sequences, SequencesExt

CONSTANTS
  Call,              \* SubmitOrder calls that reach broadcastTrades
  Subscriber,        \* StreamMarketData calls
  MaxTrades,         \* most trades of one call
  SubscriberBuffer,  \* subscriberBuffer
  None

\* The i-th trade of a call.
Event == Call \X (1 .. MaxTrades)

ASSUME StreamAssumption ==
  /\ None \notin Call \cup Event
  /\ MaxTrades \in Nat
  /\ SubscriberBuffer \in Nat \ {0}

VARIABLES
  trades,       \* how many trades each call brings
  batch,        \* "ready", "sending" or "done", for each call
  sender,       \* the call that holds subMu, or None
  next,         \* which of its trades the sender is fanning out
  todo,         \* the subscribers it still has to offer that trade
  subscribers,  \* s.subscribers
  ch,           \* the channels
  stream,       \* where each StreamMarketData call is
  gone,         \* the clients whose stream context is done
  hand,         \* the event each stream is sending, or None
  sent,         \* what each client has received
  log,          \* every event fanned out, in order
  since,        \* Len(log) when each stream registered
  missed        \* the streams an event was dropped for

vars == <<trades, batch, sender, next, todo, subscribers, ch, stream, gone,
          hand, sent, log, since, missed>>

Init ==
  /\ trades \in [Call -> 0 .. MaxTrades]
  /\ batch = [c \in Call |-> "ready"]
  /\ sender = None /\ next = 0 /\ todo = {}
  /\ subscribers = {}
  /\ ch = [s \in Subscriber |-> <<>>]
  /\ stream = [s \in Subscriber |-> "new"]
  /\ gone = {}
  /\ hand = [s \in Subscriber |-> None]
  /\ sent = [s \in Subscriber |-> <<>>]
  /\ log = <<>>
  /\ since = [s \in Subscriber |-> 0]
  /\ missed = {}

-----------------------------------------------------------------------------
(* broadcastTrades. *)

\* Nothing to send: the call returns before it takes the lock.
Skip(c) ==
  /\ batch[c] = "ready" /\ trades[c] = 0
  /\ batch' = [batch EXCEPT ![c] = "done"]
  /\ UNCHANGED <<trades, sender, next, todo, subscribers, ch, stream, gone,
                 hand, sent, log, since, missed>>

\* The lock is taken and the first trade is up for every subscriber.
Begin(c) ==
  /\ batch[c] = "ready" /\ trades[c] > 0
  /\ sender = None
  /\ batch' = [batch EXCEPT ![c] = "sending"]
  /\ sender' = c /\ next' = 1 /\ todo' = subscribers
  /\ log' = Append(log, <<c, 1>>)
  /\ UNCHANGED <<trades, subscribers, ch, stream, gone, hand, sent, since, missed>>

\* Mutants of Offer: the send blocks on a full channel; a full channel loses
\* its oldest event; the event is put in front; the channel has one place more.
OfferBlocking(s) ==
  /\ s \in todo
  /\ Len(ch[s]) < SubscriberBuffer
  /\ ch' = [ch EXCEPT ![s] = Append(@, <<sender, next>>)]
  /\ todo' = todo \ {s}
  /\ UNCHANGED <<trades, batch, sender, next, subscribers, stream, gone, hand,
                 sent, log, since, missed>>

OfferOldest(s) ==
  /\ s \in todo
  /\ ch' = [ch EXCEPT ![s] = IF Len(@) < SubscriberBuffer THEN Append(@, <<sender, next>>)
                             ELSE Append(Tail(@), <<sender, next>>)]
  /\ todo' = todo \ {s}
  /\ UNCHANGED <<trades, batch, sender, next, subscribers, stream, gone, hand,
                 sent, log, since, missed>>

OfferInFront(s) ==
  /\ s \in todo
  /\ IF Len(ch[s]) < SubscriberBuffer
     THEN ch' = [ch EXCEPT ![s] = <<<<sender, next>>>> \o @] /\ UNCHANGED missed
     ELSE missed' = missed \cup {s} /\ UNCHANGED ch
  /\ todo' = todo \ {s}
  /\ UNCHANGED <<trades, batch, sender, next, subscribers, stream, gone, hand,
                 sent, log, since>>

OfferOneMore(s) ==
  /\ s \in todo
  /\ IF Len(ch[s]) <= SubscriberBuffer
     THEN ch' = [ch EXCEPT ![s] = Append(@, <<sender, next>>)] /\ UNCHANGED missed
     ELSE missed' = missed \cup {s} /\ UNCHANGED ch
  /\ todo' = todo \ {s}
  /\ UNCHANGED <<trades, batch, sender, next, subscribers, stream, gone, hand,
                 sent, log, since>>

\* One iteration of the inner loop: the event enters the channel of s if there
\* is room, and is dropped for s if not.
Offer(s) ==
  /\ s \in todo
  /\ \/ /\ Len(ch[s]) < SubscriberBuffer
        /\ ch' = [ch EXCEPT ![s] = Append(@, <<sender, next>>)]
        /\ UNCHANGED missed
     \/ /\ Len(ch[s]) >= SubscriberBuffer
        /\ missed' = missed \cup {s}
        /\ UNCHANGED ch
  /\ todo' = todo \ {s}
  /\ UNCHANGED <<trades, batch, sender, next, subscribers, stream, gone, hand,
                 sent, log, since>>

\* Mutant of Advance: the lock is released between two trades of a batch.
AdvanceUnlocking ==
  /\ sender # None /\ todo = {}
  /\ batch' = [batch EXCEPT ![sender] = IF trades[sender] > 1 THEN "ready" ELSE "done"]
  /\ trades' = [trades EXCEPT ![sender] = @ - 1]
  /\ sender' = None /\ next' = 0
  /\ UNCHANGED <<todo, subscribers, ch, stream, gone, hand, sent, log, since, missed>>

\* Every subscriber has been offered the trade: on to the next, or unlock.
Advance ==
  /\ sender # None /\ todo = {}
  /\ \/ /\ next < trades[sender]
        /\ next' = next + 1
        /\ todo' = subscribers
        /\ log' = Append(log, <<sender, next + 1>>)
        /\ UNCHANGED <<batch, sender>>
     \/ /\ next = trades[sender]
        /\ batch' = [batch EXCEPT ![sender] = "done"]
        /\ sender' = None /\ next' = 0
        /\ UNCHANGED <<todo, log>>
  /\ UNCHANGED <<trades, subscribers, ch, stream, gone, hand, sent, since, missed>>

-----------------------------------------------------------------------------
(* StreamMarketData. *)

Subscribe(s) ==
  /\ stream[s] = "new"
  /\ sender = None
  /\ subscribers' = subscribers \cup {s}
  /\ stream' = [stream EXCEPT ![s] = "select"]
  /\ since' = [since EXCEPT ![s] = Len(log)]
  /\ UNCHANGED <<trades, batch, sender, next, todo, ch, gone, hand, sent, log, missed>>

\* The client disconnects, at any time.
Disconnect(s) ==
  /\ s \notin gone
  /\ gone' = gone \cup {s}
  /\ UNCHANGED <<trades, batch, sender, next, todo, subscribers, ch, stream,
                 hand, sent, log, since, missed>>

\* The select takes an event, even if the context is done as well.
Receive(s) ==
  /\ stream[s] = "select" /\ ch[s] # <<>>
  /\ hand' = [hand EXCEPT ![s] = Head(ch[s])]
  /\ ch' = [ch EXCEPT ![s] = Tail(@)]
  /\ stream' = [stream EXCEPT ![s] = "sending"]
  /\ UNCHANGED <<trades, batch, sender, next, todo, subscribers, gone, sent,
                 log, since, missed>>

\* stream.Send returns nil; how soon is up to the client.
SendDone(s) ==
  /\ stream[s] = "sending"
  /\ sent' = [sent EXCEPT ![s] = Append(@, hand[s])]
  /\ hand' = [hand EXCEPT ![s] = None]
  /\ stream' = [stream EXCEPT ![s] = "select"]
  /\ UNCHANGED <<trades, batch, sender, next, todo, subscribers, ch, gone, log,
                 since, missed>>

\* stream.Send fails once the client is gone.
SendFailed(s) ==
  /\ stream[s] = "sending" /\ s \in gone
  /\ hand' = [hand EXCEPT ![s] = None]
  /\ stream' = [stream EXCEPT ![s] = "leaving"]
  /\ UNCHANGED <<trades, batch, sender, next, todo, subscribers, ch, gone, sent,
                 log, since, missed>>

\* The select sees the context done.
Stop(s) ==
  /\ stream[s] = "select" /\ s \in gone
  /\ stream' = [stream EXCEPT ![s] = "leaving"]
  /\ UNCHANGED <<trades, batch, sender, next, todo, subscribers, ch, gone, hand,
                 sent, log, since, missed>>

\* Mutant of Unsubscribe: the deferred deletion is forgotten.
UnsubscribeNot(s) ==
  /\ stream[s] = "leaving"
  /\ sender = None
  /\ stream' = [stream EXCEPT ![s] = "returned"]
  /\ UNCHANGED <<trades, batch, sender, next, todo, subscribers, ch, gone, hand,
                 sent, log, since, missed>>

\* The deferred deletion, under the lock.
Unsubscribe(s) ==
  /\ stream[s] = "leaving"
  /\ sender = None
  /\ subscribers' = subscribers \ {s}
  /\ stream' = [stream EXCEPT ![s] = "returned"]
  /\ UNCHANGED <<trades, batch, sender, next, todo, ch, gone, hand, sent, log,
                 since, missed>>

-----------------------------------------------------------------------------
Broadcast == \/ \E c \in Call : Skip(c) \/ Begin(c)
             \/ \E s \in Subscriber : Offer(s)
             \/ Advance

Leave(s) == SendFailed(s) \/ Stop(s) \/ Unsubscribe(s)

Next ==
  \/ Broadcast
  \/ \E s \in Subscriber : \/ Subscribe(s) \/ Disconnect(s) \/ Receive(s)
                           \/ SendDone(s) \/ Leave(s)

\* SubmitOrder calls keep running, and so do streams whose client is gone.
\* Nothing is assumed of a connected client: it may never read again.
Spec == /\ Init /\ [][Next]_vars
        /\ WF_vars(Broadcast)
        /\ \A s \in Subscriber : WF_vars(Leave(s))

-----------------------------------------------------------------------------
TypeOK ==
  /\ trades \in [Call -> 0 .. MaxTrades]
  /\ batch \in [Call -> {"ready", "sending", "done"}]
  /\ sender \in Call \cup {None} /\ next \in 0 .. MaxTrades
  /\ todo \subseteq subscribers /\ subscribers \subseteq Subscriber
  /\ ch \in [Subscriber -> Seq(Event)] /\ sent \in [Subscriber -> Seq(Event)]
  /\ \A s \in Subscriber : Len(ch[s]) <= SubscriberBuffer
  /\ hand \in [Subscriber -> Event \cup {None}]
  /\ since \in [Subscriber -> 0 .. Len(log)]
  /\ stream \in [Subscriber -> {"new", "select", "sending", "leaving", "returned"}]
  /\ gone \subseteq Subscriber /\ missed \subseteq Subscriber
  /\ log \in Seq(Event)

\* Everything that has reached s or is on its way to it, oldest first.
Received(s) ==
  sent[s] \o (IF hand[s] = None THEN <<>> ELSE <<hand[s]>>) \o ch[s]

Position(e) == CHOOSE i \in DOMAIN log : log[i] = e

\* Whatever a client gets it gets once, in the order of the fan-out, and from
\* its registration on - whoever else joins, leaves or lags.
InOrderOnce ==
  \A s \in Subscriber :
    LET r == Received(s)
    IN /\ \A i \in DOMAIN r : r[i] \in Range(log) /\ Position(r[i]) > since[s]
       /\ \A i, j \in DOMAIN r : i < j => Position(r[i]) < Position(r[j])

\* A client none of whose events was dropped has a gapless stream: everything
\* fanned out since it registered, the event still on offer to it excepted.
GaplessUnlessDropped ==
  \A s \in subscribers \ missed :
    stream[s] \in {"select", "sending"} =>
      Received(s) = SubSeq(log, since[s] + 1,
                           IF s \in todo THEN Len(log) - 1 ELSE Len(log))

\* The trades of one order follow one another in every client's view: no other
\* order's trades come between them.
BatchesWhole ==
  \A i \in 1 .. Len(log) - 1 :
    \/ log[i + 1] = <<log[i][1], log[i][2] + 1>>
    \/ log[i + 1][2] = 1 /\ log[i][2] = trades[log[i][1]]

\* "Buffered + non-blocking send keeps a slow dashboard from ever stalling the
\* matching engine": every broadcast ends though no client need ever read.
NeverStalled == \A c \in Call : <>(batch[c] = "done")

\* A client that is gone does not keep its place in the fan-out.
GoneAreForgotten ==
  \A s \in Subscriber : s \in gone /\ s \in subscribers ~> s \notin subscribers
=============================================================================
