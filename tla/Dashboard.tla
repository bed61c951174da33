------------------------------ MODULE Dashboard ------------------------------
(***************************************************************************)
(* dashboard/src: the hook useMarketSocket, which keeps one WebSocket to   *)
(* the bridge and folds what it receives into React state, and the candles *)
(* CandlestickChart draws from that state.                                 *)
(*                                                                         *)
(* The effect of the hook runs once per mount, but main.tsx renders under  *)
(* StrictMode (and Vite refreshes components in place): the effect is then *)
(* cleaned up and run again in one step, while React keeps the state and   *)
(* the ref.  Each run of the effect has its own cancelled flag and timer;  *)
(* runs are numbered, and the flag of run e is "effect # e".               *)
(*                                                                         *)
(* The event loop runs one handler at a time, so each handler is a step.   *)
(* A browser delivers messages only to a socket in state OPEN.             *)
(*                                                                         *)
(* The other end is the bridge, which does what Relay says and no more:    *)
(* Joined, Forward and Deliver are steps of Relay, which Bridge implements *)
(* (and the hook's own steps are steps of Relay's other end: ReadsRelay).  *)
(***************************************************************************)
EXTENDS Integers, Sequences, FiniteSets, SequencesExt

CONSTANTS
  Symbol,        \* what is traded
  Message,       \* what the bridge may forward
  MAX_TRADES, MAX_THOUGHTS,
  BucketMs,      \* BUCKET_SECONDS, in milliseconds
  MaxMessages,   \* bound: messages the bridge takes
  MaxDeliveries, \* bound: deliveries the dashboard reads or has on a wire
  MaxSockets,    \* bound: connection attempts; the last one is not dropped
  MaxEffects     \* bound: runs of the effect

Channel == {"orderbook_updates", "trades", "agent_thoughts"}

ASSUME DashboardAssumption ==
  /\ MAX_TRADES \in Nat /\ MAX_THOUGHTS \in Nat
  /\ BucketMs \in Nat \ {0}
  /\ MaxMessages \in Nat /\ MaxDeliveries \in Nat /\ MaxSockets \in Nat \ {0} /\ MaxEffects \in Nat \ {0}
  /\ \A m \in Message :
       /\ m.channel \in Channel
       /\ m.channel # "agent_thoughts" => m.symbol \in Symbol
       /\ m.channel = "trades" => m.price \in Nat /\ m.timestamp \in Nat

VARIABLES
  effect,     \* the run of the effect that is in force, 0 once unmounted
  timer,      \* the runs whose reconnectTimer is pending
  sockets,    \* every WebSocket so far: its run, its state, whether the bridge
              \* has it among its clients, and what is on its way to it
  ref,        \* socketRef.current
  connected, books, trades, thoughts,  \* the React state; messages are named
                                       \* by their place in feed
  feed,       \* every message the bridge took, in order
  seen        \* those this dashboard reduced, in order

view == <<books, trades, thoughts, seen>>
vars == <<effect, timer, sockets, ref, connected, view, feed>>

Bridge == INSTANCE Relay WITH
  Connection <- 1 .. MaxSockets,
  at <- Len(feed),
  members <- {i \in DOMAIN sockets : sockets[i].joined},
  wire <- [i \in 1 .. MaxSockets |->
             IF i \in DOMAIN sockets THEN sockets[i].wire ELSE <<>>]

-----------------------------------------------------------------------------
(* The pure parts. *)

\* Mutant of Prepend: the newest is cut off instead of the oldest.
PrependToRest(n, list, max) ==
  IF Len(list) < max THEN <<n>> \o list ELSE list

\* [payload, ...prev].slice(0, max)
Prepend(n, list, max) ==
  LET all == <<n>> \o list
  IN SubSeq(all, 1, IF max < Len(all) THEN max ELSE Len(all))

BucketStart(timestamp) == timestamp \div BucketMs

\* Mutant of Extend: open follows the trades.
ExtendOpen(candle, price) ==
  [candle EXCEPT !.open = price,
                 !.high = IF price > @ THEN price ELSE @,
                 !.low = IF price < @ THEN price ELSE @]

\* A candle after one more trade of its bucket.
Extend(candle, price) ==
  [candle EXCEPT !.high = IF price > @ THEN price ELSE @,
                 !.low = IF price < @ THEN price ELSE @,
                 !.close = price]

\* The buckets after one more trade.
AddToBuckets(buckets, t) ==
  LET time == BucketStart(t.timestamp)
  IN [b \in DOMAIN buckets \cup {time} |->
        IF b # time THEN buckets[b]
        ELSE IF b \in DOMAIN buckets THEN Extend(buckets[b], t.price)
        ELSE [time |-> time, open |-> t.price, high |-> t.price,
              low |-> t.price, close |-> t.price]]

\* toCandles, of trades newest first: the trades of other symbols are passed
\* over, the rest added oldest first, and the buckets sorted by time.
ToCandles(newestFirst, symbol) ==
  LET add(buckets, t) == IF t.symbol = symbol THEN AddToBuckets(buckets, t) ELSE buckets
      candles == Range(FoldLeft(add, [b \in {} |-> 0], Reverse(newestFirst)))
  IN CHOOSE q \in SetToSeqs(candles) :
       \A i, j \in DOMAIN q : i < j => q[i].time < q[j].time

-----------------------------------------------------------------------------
NewSocket(run) ==
  [run |-> run, state |-> "connecting", joined |-> FALSE, wire |-> <<>>]

Init ==
  /\ effect = 1 /\ timer = {} /\ ref = 1
  /\ sockets = <<NewSocket(1)>>
  /\ connected = FALSE
  /\ books = [s \in Symbol |-> 0] /\ trades = <<>> /\ thoughts = <<>>
  /\ feed = <<>> /\ seen = <<>>

\* Mutant of Closing: the cleanup forgets the socket.
ClosingNot(ss) == ss

\* socketRef.current?.close(), which does nothing to a closed socket.  What is on
\* its way to a closing socket is dropped when it comes.
Closing(ss) ==
  IF ss[ref].state \in {"connecting", "open"}
  THEN [ss EXCEPT ![ref] = [@ EXCEPT !.state = "closing", !.wire = <<>>]] ELSE ss

\* The cleanup and the next run of the effect, in one step; connect() opens a
\* socket at once.
Remount ==
  /\ effect \in 1 .. MaxEffects - 1 /\ Len(sockets) < MaxSockets
  /\ effect' = effect + 1
  /\ timer' = timer \ {effect}
  /\ sockets' = Append(Closing(sockets), NewSocket(effect + 1))
  /\ ref' = Len(sockets) + 1
  /\ UNCHANGED <<connected, view, feed>>

\* The cleanup alone.
Unmount ==
  /\ effect # 0
  /\ effect' = 0
  /\ timer' = timer \ {effect}
  /\ sockets' = Closing(sockets)
  /\ UNCHANGED <<ref, connected, view, feed>>

\* The reconnect timer of a run expires: connect().
Reconnect(run) ==
  /\ run \in timer /\ Len(sockets) < MaxSockets
  /\ timer' = timer \ {run}
  /\ sockets' = Append(sockets, NewSocket(run))
  /\ ref' = Len(sockets) + 1
  /\ UNCHANGED <<effect, connected, view, feed>>

\* The bridge accepted the connection, and adds it to its clients.
Joined(i) ==
  /\ sockets[i].state \in {"connecting", "open"}
  /\ sockets' = [sockets EXCEPT ![i].joined = TRUE]
  /\ UNCHANGED <<effect, timer, ref, connected, view, feed>>
  /\ Bridge!Join(i)

\* onopen; the bridge accepts before it adds the connection to its clients.
Open(i) ==
  /\ sockets[i].state = "connecting"
  /\ sockets' = [sockets EXCEPT ![i].state = "open"]
  /\ connected' = TRUE
  /\ UNCHANGED <<effect, timer, ref, view, feed>>

\* Mutants of OnClose: without setConnected; reconnecting only what had been
\* open.
OnCloseSilently(i) ==
  /\ timer' = IF sockets[i].run = effect THEN timer \cup {effect} ELSE timer
  /\ UNCHANGED connected

OnCloseGivingUp(i) ==
  /\ connected' = FALSE
  /\ timer' = IF sockets[i].run = effect /\ sockets[i].state = "open"
                THEN timer \cup {effect} ELSE timer

\* onclose; cancelled is that of the socket's own run.
OnClose(i) ==
  /\ connected' = FALSE
  /\ timer' = IF sockets[i].run = effect THEN timer \cup {effect} ELSE timer

Closed(i) ==
  /\ OnClose(i)
  /\ sockets' = [sockets EXCEPT ![i].state = "closed", ![i].joined = FALSE,
                                ![i].wire = <<>>]
  /\ UNCHANGED <<effect, ref, view, feed>>

\* The close() of a cleanup is through.
CloseEvent(i) == sockets[i].state = "closing" /\ Closed(i)

\* The connection fails or is lost (onerror only closes what is closing).
Drop(i) ==
  /\ sockets[i].state \in {"connecting", "open"} /\ Len(sockets) < MaxSockets
  /\ Closed(i)

\* The bridge takes the next message.
Forward(m) ==
  /\ Len(feed) < MaxMessages /\ \E i \in DOMAIN sockets : sockets[i].joined
  /\ feed' = Append(feed, m)
  /\ UNCHANGED <<effect, timer, sockets, ref, connected, view>>
  /\ Bridge!Take

\* It sends it to one of its clients, maybe not for the first time.  (What it
\* sends to a closing socket is never read.)
Deliver(i) ==
  /\ sockets[i].state \in {"connecting", "open"}
  /\ Len(sockets[i].wire) + Len(seen) < MaxDeliveries
  /\ sockets' = [sockets EXCEPT ![i].wire = Append(@, Len(feed))]
  /\ UNCHANGED <<effect, timer, ref, connected, view, feed>>
  /\ Bridge!Deliver(i)

\* onmessage
OnMessage(i) ==
  LET n == Head(sockets[i].wire)
      m == feed[n]
  IN /\ sockets[i].state = "open" /\ sockets[i].wire # <<>>
     /\ sockets' = [sockets EXCEPT ![i].wire = Tail(@)]
     /\ seen' = Append(seen, n)
     /\ \/ /\ m.channel = "orderbook_updates"
           /\ books' = [books EXCEPT ![m.symbol] = n]
           /\ UNCHANGED <<trades, thoughts>>
        \/ /\ m.channel = "trades"
           /\ trades' = Prepend(n, trades, MAX_TRADES)
           /\ UNCHANGED <<books, thoughts>>
        \/ /\ m.channel = "agent_thoughts"
           /\ thoughts' = Prepend(n, thoughts, MAX_THOUGHTS)
           /\ UNCHANGED <<books, trades>>
     /\ UNCHANGED <<effect, timer, ref, connected, feed>>

\* The events of timers and sockets that nothing holds back.
Due ==
  \/ \E run \in 1 .. MaxEffects : Reconnect(run)
  \/ \E i \in DOMAIN sockets : Open(i) \/ CloseEvent(i)

Next ==
  \/ Remount \/ Unmount \/ Due
  \/ \E i \in DOMAIN sockets : Joined(i) \/ Drop(i) \/ Deliver(i) \/ OnMessage(i)
  \/ \E m \in Message : Forward(m)

\* The event loop does not rest while a timer is to expire, a close handshake
\* to end (browsers time them out) or a bridge that is up to accept; it may be
\* down for the first MaxSockets - 1 attempts.
Spec == Init /\ [][Next]_vars /\ WF_vars(Due)

-----------------------------------------------------------------------------
SocketType ==
  [run : 1 .. MaxEffects, joined : BOOLEAN, wire : Seq(Nat),
   state : {"connecting", "open", "closing", "closed"}]

TypeOK ==
  /\ effect \in 0 .. MaxEffects
  /\ timer \subseteq 1 .. MaxEffects
  /\ sockets \in Seq(SocketType)
  /\ ref \in DOMAIN sockets
  /\ connected \in BOOLEAN
  /\ feed \in Seq(Message)

Live == {i \in DOMAIN sockets : sockets[i].state \in {"connecting", "open"}}

\* While mounted the hook has exactly one connection in hand: a live socket,
\* the current one, of the current run, or else one pending timer.  So drops,
\* remounts and timers never leave two sockets feeding the same state, nor a
\* hook that waits for nothing; an unmounted one has neither.
OneConnection ==
  /\ effect = 0 => Live = {} /\ timer = {}
  /\ effect # 0 =>
       \/ Live = {ref} /\ sockets[ref].run = effect /\ timer = {}
       \/ Live = {} /\ timer = {effect}

\* Only sockets of past runs are being closed by the hook, so their close
\* events find cancelled set.
ClosingIsPast ==
  effect # 0 => \A i \in DOMAIN sockets :
    /\ sockets[i].run <= effect
    /\ sockets[i].state = "closing" => sockets[i].run # effect

\* The inductive invariant of the hook.
ConnectionInv == TypeOK /\ OneConnection /\ ClosingIsPast

\* A list shows what was received on a channel, newest first and cut to max:
\* its k-th message is the one with k - 1 later ones.
ShowsLatest(list, channel, max) ==
  LET mine == {i \in DOMAIN seen : feed[seen[i]].channel = channel}
      n    == Cardinality(mine)
  IN /\ DOMAIN list = 1 .. (IF max < n THEN max ELSE n)
     /\ \A k \in DOMAIN list : \E i \in mine :
          list[k] = seen[i] /\ Cardinality({j \in mine : i < j}) = k - 1

\* Through reconnections and remounts, that keep the state, the dashboard never
\* takes an older message after a newer one, and shows the latest book of each
\* symbol and the latest trades and thoughts received - whatever the bridge
\* passes over or sends again; a message sent again is shown again.
ShownIsLatest ==
  /\ \A i, j \in DOMAIN seen : i < j => seen[i] <= seen[j]
  /\ ShowsLatest(trades, "trades", MAX_TRADES)
  /\ ShowsLatest(thoughts, "agent_thoughts", MAX_THOUGHTS)
  /\ \A s \in Symbol :
       LET mine == {n \in Range(seen) : feed[n].channel = "orderbook_updates"
                                         /\ feed[n].symbol = s}
       IN \A n \in mine \cup {0} : n <= books[s] /\ books[s] \in mine \cup {0}

\* LIVE is not shown over a dead connection once superseded sockets have
\* closed, and DISCONNECTED over a live one only after a remount (the close
\* event of a superseded socket may come after the open event of the next).
IndicatorHonest ==
  /\ connected /\ (\A i \in DOMAIN sockets : sockets[i].state # "closing")
       => sockets[ref].state = "open"
  /\ sockets[ref].state = "open" /\ (\A i \in DOMAIN sockets : sockets[i].run = effect)
       => connected

\* The trades of a symbol and bucket among those shown, as places in the list.
Bucket(shown, s, time) ==
  {i \in DOMAIN shown : shown[i].symbol = s /\ BucketStart(shown[i].timestamp) = time}

\* The chart has one candle per bucket with a trade, in order of time whatever
\* the order of arrival; it opens with the first trade to arrive, closes with
\* the last, and spans the others.
CandlesFaithful ==
  LET shown == [i \in DOMAIN trades |-> feed[trades[i]]]
  IN \A s \in Symbol :
       LET candles == ToCandles(shown, s)
       IN /\ \A i, j \in DOMAIN candles : i < j => candles[i].time < candles[j].time
          /\ {candles[i].time : i \in DOMAIN candles} =
               {BucketStart(shown[i].timestamp) :
                  i \in {k \in DOMAIN shown : shown[k].symbol = s}}
          /\ \A c \in Range(candles) :
               LET places == Bucket(shown, s, c.time)
                   paid == {shown[i].price : i \in places}
               IN /\ \E i \in places : c.open = shown[i].price /\ \A k \in places : k <= i
                  /\ \E i \in places : c.close = shown[i].price /\ \A k \in places : i <= k
                  /\ c.high \in paid /\ c.low \in paid
                  /\ \A p \in paid : c.low <= p /\ p <= c.high

\* "reconnecting on drop" (useMarketSocket.ts:17): a mounted dashboard whose
\* connection is down gets another one once the bridge is back.
Reconnects ==
  (effect # 0 /\ sockets[ref].state # "open")
    ~> (effect = 0 \/ sockets[ref].state = "open")

\* The hook and its bridge together are a behaviour of Relay: however sockets
\* open, drop and are superseded, nothing gets on a wire, off it or into the
\* set of clients but as Relay says.
ReadsRelay == Bridge!Spec
=============================================================================
