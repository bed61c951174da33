--------------------------- MODULE DashboardProofs ---------------------------
(***************************************************************************)
(* The hook has exactly one connection in hand, its indicator is honest,   *)
(* what it shows is the latest it received, the chart draws just the       *)
(* trades it shows, and it fits the bridge, for any number of drops,       *)
(* remounts, sockets and messages.                                         *)
(***************************************************************************)
EXTENDS Dashboard, DataLemmas

\* The empty list is a list of anything.
LEMMA EmptySeq == \A S : <<>> \in Seq(S)
  OBVIOUS

\* A list keeps its length and its type when one place of it changes.
LEMMA UpdateSeq ==
  ASSUME NEW S, NEW s \in Seq(S), NEW i \in DOMAIN s, NEW v \in S
  PROVE  /\ [s EXCEPT ![i] = v] \in Seq(S)
         /\ Len([s EXCEPT ![i] = v]) = Len(s)
         /\ DOMAIN [s EXCEPT ![i] = v] = DOMAIN s
  OBVIOUS

\* A new socket of a run in range has the shape of a socket.
LEMMA NewSocketType ==
  ASSUME NEW run \in 1 .. MaxEffects
  PROVE  NewSocket(run) \in SocketType
  BY DEF NewSocket, SocketType

\* Closing the current socket keeps the shape of all, and leaves live only the
\* others.
LEMMA ClosingClosesRef ==
  ASSUME TypeOK
  PROVE  /\ Closing(sockets) \in Seq(SocketType)
         /\ Len(Closing(sockets)) = Len(sockets)
         /\ \A i \in DOMAIN sockets : Closing(sockets)[i].run = sockets[i].run
         /\ \A i \in DOMAIN sockets :
              Closing(sockets)[i].state \in {"connecting", "open"} <=>
                i \in Live \ {ref}
<1> DEFINE v == [sockets[ref] EXCEPT !.state = "closing", !.wire = <<>>]
<1>1. sockets \in Seq(SocketType) /\ ref \in DOMAIN sockets
  BY DEF TypeOK
<1>2. sockets[ref] \in SocketType
  BY <1>1
<1>3. v \in SocketType /\ v.state = "closing" /\ v.run = sockets[ref].run
  BY <1>2, EmptySeq DEF SocketType
<1>4. CASE sockets[ref].state \in {"connecting", "open"}
  <2>1. Closing(sockets) = [sockets EXCEPT ![ref] = v]
    BY <1>4 DEF Closing
  <2>2. Closing(sockets) \in Seq(SocketType) /\ Len(Closing(sockets)) = Len(sockets)
    BY <2>1, <1>1, <1>3, UpdateSeq
  <2>3. \A i \in DOMAIN sockets :
          Closing(sockets)[i] = IF i = ref THEN v ELSE sockets[i]
    BY <2>1, <1>1
  <2>4. QED
    BY <2>2, <2>3, <1>3 DEF Live
<1>5. CASE sockets[ref].state \notin {"connecting", "open"}
  BY <1>5, <1>1 DEF Closing, Live
<1>6. QED
  BY <1>4, <1>5

\* Runs are numbers.
LEMMA RunType ==
  ASSUME TypeOK, NEW i \in DOMAIN sockets
  PROVE  sockets[i].run \in 1 .. MaxEffects /\ sockets[i].run \in Nat
<1>1. sockets[i] \in SocketType
  BY DEF TypeOK
<1>2. sockets[i].run \in 1 .. MaxEffects
  BY <1>1 DEF SocketType
<1>3. QED
  BY <1>2, DashboardAssumption

\* The socket at place i becomes v, and ref stays: the shape is kept if v has it.
LEMMA UpdateSocket ==
  ASSUME TypeOK, NEW i \in DOMAIN sockets, NEW v \in SocketType,
         sockets' = [sockets EXCEPT ![i] = v]
  PROVE  /\ sockets' \in Seq(SocketType) /\ DOMAIN sockets' = DOMAIN sockets
         /\ \A j \in DOMAIN sockets : sockets'[j] = IF j = i THEN v ELSE sockets[j]
  BY UpdateSeq DEF TypeOK

\* A step that changes no socket's run, makes none live or dead and closes none.
LEMMA SameConnection ==
  ASSUME OneConnection, ClosingIsPast, UNCHANGED <<effect, timer, ref>>, TypeOK,
         DOMAIN sockets' = DOMAIN sockets,
         \A j \in DOMAIN sockets :
           /\ sockets'[j].run = sockets[j].run
           /\ sockets'[j].state \in {"connecting", "open"}
                <=> sockets[j].state \in {"connecting", "open"}
           /\ sockets'[j].state = "closing" => sockets[j].state = "closing"
  PROVE  OneConnection' /\ ClosingIsPast'
<1>1. Live' = Live
  BY DEF Live
<1>2. sockets'[ref].run = sockets[ref].run
  BY DEF TypeOK
<1>3. QED
  BY <1>1, <1>2 DEF OneConnection, ClosingIsPast

\* The initial state.
LEMMA InitInv == Init => ConnectionInv
<1>1. SUFFICES ASSUME Init PROVE ConnectionInv
  OBVIOUS
<1>2. NewSocket(1) \in SocketType
  BY NewSocketType, DashboardAssumption
<1>3. sockets \in Seq(SocketType) /\ DOMAIN sockets = {1}
  BY <1>1, <1>2 DEF Init
<1>4. TypeOK
  <2>1. effect \in 0 .. MaxEffects /\ ref \in DOMAIN sockets
    BY <1>1, <1>3, DashboardAssumption DEF Init
  <2>2. timer = {} /\ connected \in BOOLEAN
    BY <1>1 DEF Init
  <2>3. feed \in Seq(Message)
    BY <1>1, EmptySeq DEF Init
  <2>4. QED
    BY <1>3, <2>1, <2>2, <2>3 DEF TypeOK
<1>5. OneConnection /\ ClosingIsPast
  BY <1>1 DEF Init, OneConnection, ClosingIsPast, Live, NewSocket
<1>6. QED
  BY <1>4, <1>5 DEF ConnectionInv

\* One step, by action.
LEMMA StepInv == ConnectionInv /\ [Next]_vars => ConnectionInv'
<1> SUFFICES ASSUME ConnectionInv, [Next]_vars PROVE ConnectionInv'
  OBVIOUS
<1> USE DEF ConnectionInv
<1>1. CASE Remount
  <2>1. NewSocket(effect + 1) \in SocketType
    BY <1>1, NewSocketType, DashboardAssumption DEF Remount
  <2>2. Closing(sockets) \in Seq(SocketType) /\ Len(Closing(sockets)) = Len(sockets)
    BY ClosingClosesRef
  <2>3. TypeOK'
    <3>1. sockets' \in Seq(SocketType) /\ ref' \in DOMAIN sockets'
      BY <1>1, <2>1, <2>2 DEF Remount, TypeOK
    <3>2. effect' \in 0 .. MaxEffects /\ timer' \subseteq 1 .. MaxEffects
      BY <1>1, DashboardAssumption DEF Remount, TypeOK
    <3>3. QED
      BY <1>1, <3>1, <3>2 DEF Remount, TypeOK
  <2>4. Live' = {ref'}
    <3>1. sockets'[ref'].state = "connecting"
      BY <1>1, <2>2 DEF Remount, NewSocket
    <3>2. \A i \in DOMAIN sockets : sockets'[i] = Closing(sockets)[i]
      BY <1>1, <2>2 DEF Remount, TypeOK
    <3>3. Live \ {ref} = {}
      BY DEF OneConnection, TypeOK
    <3>4. \A i \in DOMAIN sockets : i \notin Live'
      BY <3>2, <3>3, ClosingClosesRef DEF Live
    <3>5. DOMAIN sockets' = DOMAIN sockets \cup {ref'}
      BY <1>1, <2>2 DEF Remount, TypeOK
    <3>6. QED
      BY <3>1, <3>4, <3>5 DEF Live
  <2>5. sockets'[ref'].run = effect' /\ effect' # 0 /\ timer' = {}
    BY <1>1, <2>2 DEF Remount, NewSocket, OneConnection, TypeOK
  <2>6. ClosingIsPast'
    <3>1. \A i \in DOMAIN sockets : sockets'[i].run = sockets[i].run
      BY <1>1, <2>2, ClosingClosesRef DEF Remount, TypeOK
    <3>2. DOMAIN sockets' = DOMAIN sockets \cup {ref'}
      BY <1>1, <2>2 DEF Remount, TypeOK
    <3>3. \A i \in DOMAIN sockets : sockets[i].run \in Nat
      BY RunType
    <3>4. \A i \in DOMAIN sockets : sockets'[i].run < effect'
      <4>1. effect \in Nat \ {0} /\ effect' = effect + 1
        BY <1>1, DashboardAssumption DEF Remount
      <4>2. \A i \in DOMAIN sockets : sockets[i].run <= effect
        BY <4>1 DEF ClosingIsPast
      <4>3. QED
        BY <4>1, <4>2, <3>1, <3>3
    <3>5. sockets'[ref'].state = "connecting"
      BY <1>1, <2>2 DEF Remount, NewSocket
    <3>6. effect' \in Nat
      BY <1>1 DEF Remount
    <3>7. QED
      BY <2>5, <3>1, <3>2, <3>3, <3>4, <3>5, <3>6 DEF ClosingIsPast
  <2>7. QED
    BY <2>3, <2>4, <2>5, <2>6 DEF OneConnection
<1>2. CASE Unmount
  <2>1. TypeOK'
    BY <1>2, ClosingClosesRef, DashboardAssumption DEF Unmount, TypeOK
  <2>2. Live' = {} /\ timer' = {}
    <3>1. Live \ {ref} = {} /\ timer \subseteq {effect}
      BY DEF OneConnection
    <3>2. DOMAIN sockets' = DOMAIN sockets
      BY <1>2, ClosingClosesRef DEF Unmount, TypeOK
    <3>3. QED
      BY <1>2, <3>1, <3>2, ClosingClosesRef DEF Unmount, Live
  <2>3. QED
    BY <1>2, <2>1, <2>2 DEF OneConnection, ClosingIsPast, Unmount
<1>3. ASSUME NEW run \in 1 .. MaxEffects, Reconnect(run) PROVE ConnectionInv'
  <2>1. run = effect /\ Live = {} /\ timer = {effect}
    BY <1>3 DEF Reconnect, OneConnection
  <2>2. NewSocket(run) \in SocketType
    BY NewSocketType
  <2>3. TypeOK'
    BY <1>3, <2>2, DashboardAssumption DEF Reconnect, TypeOK
  <2>4. Live' = {ref'} /\ sockets'[ref'].run = effect' /\ timer' = {}
    BY <1>3, <2>1 DEF Reconnect, Live, NewSocket, TypeOK
  <2>5. ClosingIsPast'
    BY <1>3, <2>1 DEF Reconnect, ClosingIsPast, NewSocket, TypeOK
  <2>6. QED
    BY <1>3, <2>3, <2>4, <2>5 DEF OneConnection, Reconnect
<1>4. ASSUME NEW i \in DOMAIN sockets, Joined(i) PROVE ConnectionInv'
  <2> DEFINE v == [sockets[i] EXCEPT !.joined = TRUE]
  <2>1. sockets[i] \in SocketType
    BY DEF TypeOK
  <2>2. /\ v \in SocketType /\ v.run = sockets[i].run
        /\ v.state \in {"connecting", "open"}
        /\ sockets[i].state \in {"connecting", "open"}
    BY <1>4, <2>1 DEF Joined, SocketType
  <2>3. sockets' = [sockets EXCEPT ![i] = v]
    BY <1>4 DEF Joined
  <2>4. TypeOK'
    BY <1>4, <2>2, <2>3, UpdateSocket DEF Joined, TypeOK
  <2>5. OneConnection' /\ ClosingIsPast'
    BY <1>4, <2>2, <2>3, UpdateSocket, SameConnection DEF Joined
  <2>6. QED
    BY <2>4, <2>5
<1>5. ASSUME NEW i \in DOMAIN sockets, Open(i) PROVE ConnectionInv'
  <2> DEFINE v == [sockets[i] EXCEPT !.state = "open"]
  <2>1. sockets[i] \in SocketType
    BY DEF TypeOK
  <2>2. /\ v \in SocketType /\ v.run = sockets[i].run
        /\ v.state \in {"connecting", "open"}
        /\ sockets[i].state \in {"connecting", "open"}
    BY <1>5, <2>1 DEF Open, SocketType
  <2>3. sockets' = [sockets EXCEPT ![i] = v]
    BY <1>5 DEF Open
  <2>4. TypeOK'
    BY <1>5, <2>2, <2>3, UpdateSocket DEF Open, TypeOK
  <2>5. OneConnection' /\ ClosingIsPast'
    BY <1>5, <2>2, <2>3, UpdateSocket, SameConnection DEF Open
  <2>6. QED
    BY <2>4, <2>5
<1>6. ASSUME NEW i \in DOMAIN sockets, OnMessage(i) PROVE ConnectionInv'
  <2> DEFINE v == [sockets[i] EXCEPT !.wire = Tail(@)]
  <2>1. sockets[i] \in SocketType
    BY DEF TypeOK
  <2>2. /\ v \in SocketType /\ v.run = sockets[i].run
        /\ v.state \in {"connecting", "open"}
        /\ sockets[i].state \in {"connecting", "open"}
    <3>1. Tail(sockets[i].wire) \in Seq(Nat)
      BY <1>6, <2>1 DEF OnMessage, SocketType
    <3>2. QED
      BY <1>6, <2>1, <3>1 DEF OnMessage, SocketType
  <2>3. sockets' = [sockets EXCEPT ![i] = v]
    BY <1>6 DEF OnMessage
  <2>4. TypeOK'
    BY <1>6, <2>2, <2>3, UpdateSocket DEF OnMessage, TypeOK
  <2>5. OneConnection' /\ ClosingIsPast'
    BY <1>6, <2>2, <2>3, UpdateSocket, SameConnection DEF OnMessage
  <2>6. QED
    BY <2>4, <2>5
<1>7. ASSUME NEW i \in DOMAIN sockets, Closed(i),
             sockets[i].state \in {"connecting", "open", "closing"}
      PROVE  /\ TypeOK'
             /\ DOMAIN sockets' = DOMAIN sockets
             /\ sockets'[i].state = "closed" /\ sockets'[i].run = sockets[i].run
             /\ \A j \in DOMAIN sockets : j # i => sockets'[j] = sockets[j]
  <2> DEFINE v == [sockets[i] EXCEPT !.state = "closed", !.joined = FALSE, !.wire = <<>>]
  <2>1. sockets[i] \in SocketType
    BY DEF TypeOK
  <2>2. v \in SocketType /\ v.run = sockets[i].run /\ v.state = "closed"
    BY <2>1, EmptySeq DEF SocketType
  <2>3. sockets' = [sockets EXCEPT ![i] = v]
    BY <1>7 DEF Closed
  <2>4. sockets[i].run \in 1 .. MaxEffects
    BY <2>1 DEF SocketType
  <2>5. timer' \subseteq 1 .. MaxEffects /\ connected' \in BOOLEAN
    BY <1>7, <2>4 DEF Closed, OnClose, TypeOK
  <2>6. QED
    BY <1>7, <2>2, <2>3, <2>5, UpdateSocket DEF Closed, TypeOK
<1>8. ASSUME NEW i \in DOMAIN sockets, CloseEvent(i) PROVE ConnectionInv'
  <2>1. sockets[i].state = "closing" /\ Closed(i)
    BY <1>8 DEF CloseEvent
  <2>2. TypeOK' /\ Live' = Live /\ sockets'[ref].run = sockets[ref].run
    BY <2>1, <1>7 DEF Live, TypeOK
  <2>3. sockets[i].run \in 1 .. MaxEffects
    BY RunType
  <2>4. sockets[i].run # effect
    BY <2>1, <2>3 DEF ClosingIsPast
  <2>5. ClosingIsPast'
    <3>1. effect' = effect
      BY <2>1 DEF Closed
    <3>2. \A j \in DOMAIN sockets' : /\ sockets'[j].run = sockets[j].run
                                     /\ sockets'[j].state = "closing"
                                          => sockets[j].state = "closing"
      BY <2>1, <1>7
    <3>3. DOMAIN sockets' = DOMAIN sockets
      BY <2>1, <1>7
    <3>4. QED
      BY <3>1, <3>2, <3>3 DEF ClosingIsPast
  <2>6. QED
    BY <2>1, <2>2, <2>4, <2>5 DEF OneConnection, Closed, OnClose
<1>9. ASSUME NEW i \in DOMAIN sockets, Drop(i) PROVE ConnectionInv'
  <2>1. i \in Live /\ Closed(i) /\ sockets[i].state \in {"connecting", "open"}
    BY <1>9 DEF Drop, Live
  <2>2. i = ref /\ effect # 0 /\ Live = {ref} /\ sockets[ref].run = effect /\ timer = {}
    BY <2>1 DEF OneConnection
  <2>3. TypeOK' /\ Live' = {}
    BY <2>1, <2>2, <1>7 DEF Live
  <2>4. timer' = {effect'} /\ effect' # 0
    BY <2>1, <2>2 DEF Closed, OnClose
  <2>5. ClosingIsPast'
    <3>1. effect' = effect
      BY <2>1 DEF Closed
    <3>2. \A j \in DOMAIN sockets' : /\ sockets'[j].run = sockets[j].run
                                     /\ sockets'[j].state = "closing"
                                          => sockets[j].state = "closing"
      BY <2>1, <1>7
    <3>3. DOMAIN sockets' = DOMAIN sockets
      BY <2>1, <1>7
    <3>4. QED
      BY <3>1, <3>2, <3>3 DEF ClosingIsPast
  <2>6. QED
    BY <2>3, <2>4, <2>5 DEF OneConnection
<1>10. ASSUME NEW m \in Message, Forward(m) PROVE ConnectionInv'
  <2>1. TypeOK'
    BY <1>10 DEF Forward, TypeOK
  <2>2. QED
    BY <1>10, <2>1 DEF Forward, OneConnection, ClosingIsPast, Live
<1>11. ASSUME NEW i \in DOMAIN sockets, Deliver(i) PROVE ConnectionInv'
  <2> DEFINE v == [sockets[i] EXCEPT !.wire = Append(@, Len(feed))]
  <2>1. sockets[i] \in SocketType
    BY DEF TypeOK
  <2>2. /\ v \in SocketType /\ v.run = sockets[i].run
        /\ v.state \in {"connecting", "open"}
        /\ sockets[i].state \in {"connecting", "open"}
    <3>1. Append(sockets[i].wire, Len(feed)) \in Seq(Nat)
      BY <2>1 DEF TypeOK, SocketType
    <3>2. QED
      BY <1>11, <2>1, <3>1 DEF Deliver, SocketType
  <2>3. sockets' = [sockets EXCEPT ![i] = v]
    BY <1>11 DEF Deliver
  <2>4. TypeOK'
    BY <1>11, <2>2, <2>3, UpdateSocket DEF Deliver, TypeOK
  <2>5. OneConnection' /\ ClosingIsPast'
    BY <1>11, <2>2, <2>3, UpdateSocket, SameConnection DEF Deliver
  <2>6. QED
    BY <2>4, <2>5
<1>12. CASE UNCHANGED vars
  BY <1>12 DEF vars, TypeOK, OneConnection, ClosingIsPast, Live
<1>13. QED
  BY <1>1, <1>2, <1>3, <1>4, <1>5, <1>6, <1>8, <1>9, <1>10, <1>11, <1>12 DEF Next, Due

\* While mounted the hook has one live socket or one pending timer, never both
\* and never neither; unmounted it has none.
THEOREM Connected == Spec => []ConnectionInv
  BY InitInv, StepInv, PTL DEF Spec
-----------------------------------------------------------------------------
(* The indicator. *)

\* connected is TRUE only over an open socket, or while one is being closed:
\* with ConnectionInv, an inductive invariant.
IndicatorInv ==
  /\ connected =>
       \/ sockets[ref].state = "open"
       \/ \E i \in DOMAIN sockets : sockets[i].state = "closing"
  /\ sockets[ref].state = "open" /\ (\A i \in DOMAIN sockets : sockets[i].run = effect)
       => connected

\* What Closing does to each socket.
LEMMA ClosingSockets ==
  ASSUME TypeOK
  PROVE  /\ DOMAIN Closing(sockets) = DOMAIN sockets
         /\ \A i \in DOMAIN sockets :
              \/ /\ Closing(sockets)[i] = sockets[i]
                 /\ i = ref => sockets[i].state \notin {"connecting", "open"}
              \/ /\ i = ref /\ Closing(sockets)[i].state = "closing"
                 /\ Closing(sockets)[i].wire = <<>>
                 /\ Closing(sockets)[i].joined = sockets[i].joined
<1> DEFINE v == [sockets[ref] EXCEPT !.state = "closing", !.wire = <<>>]
<1>1. sockets \in Seq(SocketType) /\ ref \in DOMAIN sockets
  BY DEF TypeOK
<1>2. sockets[ref] \in SocketType
  BY <1>1
<1>3. v.state = "closing" /\ v.wire = <<>> /\ v.joined = sockets[ref].joined
  BY <1>2 DEF SocketType
<1>4. CASE sockets[ref].state \in {"connecting", "open"}
  <2>1. Closing(sockets) = [sockets EXCEPT ![ref] = v]
    BY <1>4 DEF Closing
  <2> HIDE DEF v
  <2>2. QED
    BY <1>1, <1>3, <2>1
<1>5. CASE sockets[ref].state \notin {"connecting", "open"}
  BY <1>1, <1>5 DEF Closing
<1>6. QED
  BY <1>4, <1>5

\* A step that neither opens nor closes.
LEMMA SameIndicator ==
  ASSUME TypeOK, IndicatorInv, UNCHANGED <<effect, ref, connected>>,
         DOMAIN sockets' = DOMAIN sockets,
         \A i \in DOMAIN sockets : /\ sockets'[i].run = sockets[i].run
                                   /\ sockets'[i].state = sockets[i].state
  PROVE  IndicatorInv'
<1>1. ref \in DOMAIN sockets
  BY DEF TypeOK
<1>2. QED
  BY <1>1 DEF IndicatorInv

\* One field of one socket.
LEMMA FieldsKept ==
  ASSUME TypeOK, NEW i \in DOMAIN sockets, NEW v,
         sockets' = [sockets EXCEPT ![i] = v],
         v.run = sockets[i].run, v.state = sockets[i].state
  PROVE  /\ DOMAIN sockets' = DOMAIN sockets
         /\ \A j \in DOMAIN sockets : /\ sockets'[j].run = sockets[j].run
                                      /\ sockets'[j].state = sockets[j].state
  BY DEF TypeOK

\* One step, by action.
LEMMA StepIndicator ==
  ASSUME ConnectionInv, IndicatorInv, [Next]_vars
  PROVE  IndicatorInv'
<1>1. /\ TypeOK /\ sockets \in Seq(SocketType) /\ ref \in DOMAIN sockets
      /\ DOMAIN sockets = 1 .. Len(sockets) /\ Len(sockets) \in Nat
      /\ \A i \in DOMAIN sockets : sockets[i] \in SocketType
  BY DEF ConnectionInv, TypeOK
<1>2. CASE Remount
  <2> DEFINE c == Closing(sockets)
             k == Len(sockets) + 1
  <2>1. /\ sockets' = Append(c, NewSocket(effect + 1)) /\ ref' = k
        /\ connected' = connected /\ effect' = effect + 1
    BY <1>2 DEF Remount
  <2>2. c \in Seq(SocketType) /\ Len(c) = Len(sockets) /\ DOMAIN c = DOMAIN sockets
    BY <1>1, ClosingClosesRef, ClosingSockets
  <2>3. \A i \in DOMAIN sockets : \/ c[i] = sockets[i]
                                  \/ i = ref /\ c[i].state = "closing"
    BY <1>1, ClosingSockets
  <2>4. sockets[ref].state = "open" => c[ref].state = "closing"
    BY <1>1, ClosingSockets
  <2> HIDE DEF c
  <2>5. /\ DOMAIN sockets' = DOMAIN sockets \cup {k}
        /\ \A i \in DOMAIN sockets : sockets'[i] = c[i]
        /\ sockets'[k].state = "connecting"
    BY <1>1, <2>1, <2>2 DEF NewSocket
  <2>6. connected => \E i \in DOMAIN sockets : c[i].state = "closing"
    BY <1>1, <2>3, <2>4 DEF IndicatorInv
  <2>7. QED
    BY <2>1, <2>5, <2>6 DEF IndicatorInv
<1>3. CASE Unmount
  <2>1. /\ sockets' = Closing(sockets) /\ ref' = ref /\ connected' = connected
    BY <1>3 DEF Unmount
  <2>2. /\ DOMAIN sockets' = DOMAIN sockets
        /\ \A i \in DOMAIN sockets : \/ sockets'[i] = sockets[i]
                                     \/ i = ref /\ sockets'[i].state = "closing"
        /\ sockets'[ref].state # "open"
        /\ sockets[ref].state = "open" => sockets'[ref].state = "closing"
    BY <1>1, <2>1, ClosingSockets
  <2>3. connected => \E i \in DOMAIN sockets : sockets'[i].state = "closing"
    BY <1>1, <2>2 DEF IndicatorInv
  <2>4. QED
    BY <2>1, <2>2, <2>3 DEF IndicatorInv
<1>4. ASSUME NEW run \in 1 .. MaxEffects, Reconnect(run) PROVE IndicatorInv'
  <2> DEFINE k == Len(sockets) + 1
  <2>1. /\ sockets' = Append(sockets, NewSocket(run)) /\ ref' = k
        /\ connected' = connected /\ run \in timer
    BY <1>4 DEF Reconnect
  <2>2. /\ DOMAIN sockets' = DOMAIN sockets \cup {k}
        /\ \A i \in DOMAIN sockets : sockets'[i] = sockets[i]
        /\ sockets'[k].state = "connecting"
    BY <1>1, <2>1 DEF NewSocket
  <2>3. sockets[ref].state # "open"
    BY <1>1, <2>1 DEF ConnectionInv, OneConnection, Live
  <2>4. QED
    BY <2>1, <2>2, <2>3 DEF IndicatorInv
<1>5. ASSUME NEW i \in DOMAIN sockets, Joined(i) PROVE IndicatorInv'
  <2> DEFINE v == [sockets[i] EXCEPT !.joined = TRUE]
  <2>1. v.run = sockets[i].run /\ v.state = sockets[i].state
    BY <1>1 DEF SocketType
  <2>2. sockets' = [sockets EXCEPT ![i] = v] /\ UNCHANGED <<effect, ref, connected>>
    BY <1>5 DEF Joined
  <2> HIDE DEF v
  <2>3. QED
    BY <1>1, <2>1, <2>2, FieldsKept, SameIndicator
<1>6. ASSUME NEW i \in DOMAIN sockets, Open(i) PROVE IndicatorInv'
  <2> DEFINE v == [sockets[i] EXCEPT !.state = "open"]
  <2>1. v.run = sockets[i].run /\ v.state = "open" /\ i = ref
    BY <1>1, <1>6 DEF SocketType, Open, ConnectionInv, OneConnection, Live
  <2>2. sockets' = [sockets EXCEPT ![i] = v] /\ connected' /\ ref' = ref
    BY <1>6 DEF Open
  <2> HIDE DEF v
  <2>3. sockets'[ref].state = "open"
    BY <1>1, <2>1, <2>2
  <2>4. QED
    BY <2>2, <2>3 DEF IndicatorInv
<1>7. ASSUME NEW i \in DOMAIN sockets, Closed(i)
      PROVE  /\ DOMAIN sockets' = DOMAIN sockets
             /\ sockets'[i].state = "closed" /\ sockets'[i].run = sockets[i].run
             /\ \A j \in DOMAIN sockets : j # i => sockets'[j] = sockets[j]
             /\ ~connected' /\ ref' = ref /\ effect' = effect
  <2> DEFINE v == [sockets[i] EXCEPT !.state = "closed", !.joined = FALSE, !.wire = <<>>]
  <2>1. v.run = sockets[i].run /\ v.state = "closed"
    BY <1>1 DEF SocketType
  <2>2. /\ sockets' = [sockets EXCEPT ![i] = v]
        /\ connected' = FALSE /\ ref' = ref /\ effect' = effect
    BY <1>7 DEF Closed, OnClose
  <2> HIDE DEF v
  <2>3. QED
    BY <1>1, <2>1, <2>2
<1>8. ASSUME NEW i \in DOMAIN sockets, CloseEvent(i) PROVE IndicatorInv'
  <2>1. sockets[i].state = "closing" /\ Closed(i)
    BY <1>8 DEF CloseEvent
  <2>2. effect # 0 => sockets[i].run # effect
    BY <2>1 DEF ConnectionInv, ClosingIsPast
  <2>3. effect = 0 => sockets[ref].state # "open"
    BY <1>1 DEF ConnectionInv, OneConnection, Live
  <2>4. sockets'[ref].state = "open" => sockets[ref].state = "open"
    BY <1>1, <1>7, <2>1
  <2>5. QED
    BY <1>7, <2>1, <2>2, <2>3, <2>4 DEF IndicatorInv
<1>9. ASSUME NEW i \in DOMAIN sockets, Drop(i) PROVE IndicatorInv'
  <2>1. Closed(i) /\ i = ref
    BY <1>1, <1>9 DEF Drop, ConnectionInv, OneConnection, Live
  <2>2. QED
    BY <1>7, <2>1 DEF IndicatorInv
<1>10. ASSUME NEW m \in Message, Forward(m) PROVE IndicatorInv'
  BY <1>10 DEF Forward, IndicatorInv
<1>11. ASSUME NEW i \in DOMAIN sockets, Deliver(i) PROVE IndicatorInv'
  <2> DEFINE v == [sockets[i] EXCEPT !.wire = Append(@, Len(feed))]
  <2>1. v.run = sockets[i].run /\ v.state = sockets[i].state
    BY <1>1 DEF SocketType
  <2>2. sockets' = [sockets EXCEPT ![i] = v] /\ UNCHANGED <<effect, ref, connected>>
    BY <1>11 DEF Deliver
  <2> HIDE DEF v
  <2>3. QED
    BY <1>1, <2>1, <2>2, FieldsKept, SameIndicator
<1>12. ASSUME NEW i \in DOMAIN sockets, OnMessage(i) PROVE IndicatorInv'
  <2> DEFINE v == [sockets[i] EXCEPT !.wire = Tail(@)]
  <2>1. v.run = sockets[i].run /\ v.state = sockets[i].state
    BY <1>1 DEF SocketType
  <2>2. sockets' = [sockets EXCEPT ![i] = v] /\ UNCHANGED <<effect, ref, connected>>
    BY <1>12 DEF OnMessage
  <2> HIDE DEF v
  <2>3. QED
    BY <1>1, <2>1, <2>2, FieldsKept, SameIndicator
<1>13. CASE UNCHANGED vars
  BY <1>13 DEF vars, IndicatorInv
<1>14. QED
  BY <1>2, <1>3, <1>4, <1>5, <1>6, <1>8, <1>9, <1>10, <1>11, <1>12, <1>13 DEF Next, Due

\* IndicatorHonest holds in every reachable state: LIVE over a dead connection
\* lasts only until the sockets being closed are closed.
THEOREM IndicatorIsHonest == Spec => []IndicatorHonest
<1>1. Init => IndicatorInv
  BY DEF Init, IndicatorInv, NewSocket
<1>2. ConnectionInv /\ IndicatorInv /\ [Next]_vars => IndicatorInv'
  BY StepIndicator
<1>3. IndicatorInv => IndicatorHonest
  BY DEF IndicatorInv, IndicatorHonest
<1>4. QED
  BY <1>1, <1>2, <1>3, Connected, PTL DEF Spec
-----------------------------------------------------------------------------
(* The wires. *)

\* What is on a wire, when sn is what was reduced and the feed has n messages:
\* messages of the feed, in order, none older than one already reduced.
Ahead(wire, sn, n) ==
  /\ \A k \in DOMAIN wire : wire[k] \in 1 .. n /\ \A j \in DOMAIN sn : sn[j] <= wire[k]
  /\ \A k, l \in DOMAIN wire : k < l => wire[k] <= wire[l]

\* With ConnectionInv, an inductive invariant: a socket that is not live has
\* nothing on its wire, so that a reconnection cannot bring an old message.
WiresInv ==
  /\ seen \in Seq(Nat) /\ \A j \in DOMAIN seen : seen[j] \in 1 .. Len(feed)
  /\ \A i, j \in DOMAIN seen : i < j => seen[i] <= seen[j]
  /\ \A i \in DOMAIN sockets : /\ sockets[i].wire \in Seq(Nat)
                               /\ Ahead(sockets[i].wire, seen, Len(feed))
                               /\ i \notin Live => sockets[i].wire = <<>>

\* Nothing on a wire is ahead of everything.
LEMMA EmptyAhead == \A sn, n : Ahead(<<>>, sn, n)
  BY DEF Ahead

\* Each wire was emptied, or is what it was on a socket that stays live.
LEMMA WiresKept ==
  ASSUME WiresInv, feed' = feed, seen' = seen,
         \A i \in DOMAIN sockets' :
           \/ sockets'[i].wire = <<>>
           \/ /\ i \in DOMAIN sockets /\ sockets'[i].wire = sockets[i].wire
              /\ i \in Live => i \in Live'
  PROVE  WiresInv'
<1>1. ASSUME NEW i \in DOMAIN sockets'
      PROVE  /\ sockets'[i].wire \in Seq(Nat)
             /\ Ahead(sockets'[i].wire, seen', Len(feed'))
             /\ i \notin Live' => sockets'[i].wire = <<>>
  <2>1. CASE sockets'[i].wire = <<>>
    BY <2>1, EmptyAhead, EmptySeq
  <2>2. CASE /\ i \in DOMAIN sockets /\ sockets'[i].wire = sockets[i].wire
             /\ i \in Live => i \in Live'
    BY <2>2 DEF WiresInv
  <2>3. QED
    BY <2>1, <2>2
<1>2. /\ seen' \in Seq(Nat) /\ \A j \in DOMAIN seen' : seen'[j] \in 1 .. Len(feed')
      /\ \A i, j \in DOMAIN seen' : i < j => seen'[i] <= seen'[j]
  BY DEF WiresInv
<1>3. QED
  BY <1>1, <1>2 DEF WiresInv

\* A newly delivered message is not older than any.
LEMMA AheadAppend ==
  ASSUME NEW wire \in Seq(Nat), NEW sn \in Seq(Nat), NEW n \in Nat \ {0},
         Ahead(wire, sn, n), \A j \in DOMAIN sn : sn[j] \in 1 .. n
  PROVE  Append(wire, n) \in Seq(Nat) /\ Ahead(Append(wire, n), sn, n)
<1> DEFINE w == Append(wire, n)
           l == Len(wire) + 1
<1>1. /\ w \in Seq(Nat) /\ DOMAIN w = DOMAIN wire \cup {l} /\ w[l] = n
      /\ \A k \in DOMAIN wire : w[k] = wire[k] /\ k < l
      /\ l \in Nat /\ DOMAIN wire \subseteq Nat
  OBVIOUS
<1>2. \A k \in DOMAIN wire : wire[k] \in 1 .. n /\ \A j \in DOMAIN sn : sn[j] <= wire[k]
  BY DEF Ahead
<1>3. \A k, m \in DOMAIN wire : k < m => wire[k] <= wire[m]
  BY DEF Ahead
<1> HIDE DEF w, l
<1>4. \A k \in DOMAIN w : w[k] \in 1 .. n /\ \A j \in DOMAIN sn : sn[j] <= w[k]
  BY <1>1, <1>2
<1>5. \A k, m \in DOMAIN w : k < m => w[k] <= w[m]
  <2> SUFFICES ASSUME NEW k \in DOMAIN w, NEW m \in DOMAIN w, k < m
               PROVE  w[k] <= w[m]
    OBVIOUS
  <2>1. CASE m = l
    BY <1>1, <1>4, <2>1
  <2>2. CASE m \in DOMAIN wire
    <3>1. k \in DOMAIN wire
      BY <1>1, <2>2
    <3>2. QED
      BY <1>1, <1>3, <2>2, <3>1
  <2>3. QED
    BY <1>1, <2>1, <2>2
<1>6. QED
  BY <1>1, <1>4, <1>5 DEF Ahead, w

\* Reading the oldest message of a wire.
LEMMA AheadRead ==
  ASSUME NEW wire \in Seq(Nat), wire # <<>>, NEW sn \in Seq(Nat), NEW n \in Nat,
         Ahead(wire, sn, n), \A j \in DOMAIN sn : sn[j] \in 1 .. n,
         \A i, j \in DOMAIN sn : i < j => sn[i] <= sn[j]
  PROVE  LET s == Append(sn, Head(wire)) IN
         /\ Head(wire) \in 1 .. n /\ \A j \in DOMAIN sn : sn[j] <= Head(wire)
         /\ s \in Seq(Nat) /\ \A j \in DOMAIN s : s[j] \in 1 .. n
         /\ \A i, j \in DOMAIN s : i < j => s[i] <= s[j]
         /\ Tail(wire) \in Seq(Nat) /\ Ahead(Tail(wire), s, n)
<1> DEFINE h == Head(wire)
           s == Append(sn, h)
           t == Tail(wire)
           l == Len(sn) + 1
<1>1. /\ 1 \in DOMAIN wire /\ h = wire[1] /\ t \in Seq(Nat) /\ h \in Nat
      /\ \A k \in DOMAIN t : /\ k + 1 \in DOMAIN wire /\ t[k] = wire[k + 1]
                             /\ k \in Nat /\ 1 < k + 1
  OBVIOUS
<1>2. \A k \in DOMAIN wire : wire[k] \in 1 .. n /\ \A j \in DOMAIN sn : sn[j] <= wire[k]
  BY DEF Ahead
<1>3. \A k, m \in DOMAIN wire : k < m => wire[k] <= wire[m]
  BY DEF Ahead
<1>4. h \in 1 .. n /\ \A j \in DOMAIN sn : sn[j] <= h
  BY <1>1, <1>2
<1> HIDE DEF h, t
<1>5. /\ s \in Seq(Nat) /\ DOMAIN s = DOMAIN sn \cup {l} /\ s[l] = h
      /\ \A j \in DOMAIN sn : s[j] = sn[j] /\ j < l
      /\ l \in Nat /\ DOMAIN sn \subseteq Nat
  BY <1>1
<1> HIDE DEF s, l
<1>6. \A j \in DOMAIN s : s[j] \in 1 .. n /\ s[j] <= h
  BY <1>4, <1>5
<1>7. \A i, j \in DOMAIN s : i < j => s[i] <= s[j]
  <2> SUFFICES ASSUME NEW i \in DOMAIN s, NEW j \in DOMAIN s, i < j
               PROVE  s[i] <= s[j]
    OBVIOUS
  <2>1. CASE j = l
    BY <1>5, <1>6, <2>1
  <2>2. CASE j \in DOMAIN sn
    <3>1. i \in DOMAIN sn
      BY <1>5, <2>2
    <3>2. QED
      BY <1>5, <2>2, <3>1
  <2>3. QED
    BY <1>5, <2>1, <2>2
<1>8. \A k \in DOMAIN t : h <= t[k] /\ t[k] \in 1 .. n
  BY <1>1, <1>2, <1>3
<1>9. \A k \in DOMAIN t : t[k] \in 1 .. n /\ \A j \in DOMAIN s : s[j] <= t[k]
  BY <1>4, <1>6, <1>8
<1>10. \A k, m \in DOMAIN t : k < m => t[k] <= t[m]
  <2> SUFFICES ASSUME NEW k \in DOMAIN t, NEW m \in DOMAIN t, k < m
               PROVE  t[k] <= t[m]
    OBVIOUS
  <2>1. k + 1 \in DOMAIN wire /\ m + 1 \in DOMAIN wire /\ k + 1 < m + 1
    BY <1>1
  <2>2. wire[k + 1] <= wire[m + 1]
    BY <1>3, <2>1
  <2>3. QED
    BY <1>1, <2>2
<1>11. Ahead(t, s, n)
  BY <1>9, <1>10 DEF Ahead
<1>12. QED
  BY <1>1, <1>4, <1>5, <1>6, <1>7, <1>11 DEF s, t, h
-----------------------------------------------------------------------------
(* The wires, one step, by action. *)

\* One socket is replaced.
LEMMA OneSocket ==
  ASSUME TypeOK, NEW i \in DOMAIN sockets, NEW v, sockets' = [sockets EXCEPT ![i] = v]
  PROVE  /\ DOMAIN sockets' = DOMAIN sockets /\ sockets'[i] = v
         /\ \A j \in DOMAIN sockets : j # i => sockets'[j] = sockets[j]
         /\ \A j \in DOMAIN sockets : j # i => (j \in Live' <=> j \in Live)
  BY DEF TypeOK, Live

\* Every step of the hook and of the relay keeps what is on its way in order
\* and behind nothing already shown.
LEMMA StepWires ==
  ASSUME ConnectionInv, WiresInv, [Next]_vars
  PROVE  WiresInv'
<1>1. /\ TypeOK /\ sockets \in Seq(SocketType) /\ ref \in DOMAIN sockets
      /\ DOMAIN sockets = 1 .. Len(sockets) /\ Len(sockets) \in Nat
      /\ \A i \in DOMAIN sockets : sockets[i] \in SocketType
      /\ \A i \in Live : i = ref
  BY DEF ConnectionInv, TypeOK, OneConnection
<1>2. CASE Remount
  <2> DEFINE c == Closing(sockets)
             k == Len(sockets) + 1
  <2>1. sockets' = Append(c, NewSocket(effect + 1)) /\ feed' = feed /\ seen' = seen
    BY <1>2 DEF Remount, view
  <2>2. c \in Seq(SocketType) /\ Len(c) = Len(sockets) /\ DOMAIN c = DOMAIN sockets
    BY <1>1, ClosingClosesRef, ClosingSockets
  <2>3. \A i \in DOMAIN sockets :
          \/ c[i] = sockets[i] /\ (i = ref => i \notin Live)
          \/ c[i].wire = <<>>
    BY <1>1, ClosingSockets DEF Live
  <2> HIDE DEF c
  <2>4. /\ DOMAIN sockets' = DOMAIN sockets \cup {k}
        /\ \A i \in DOMAIN sockets : sockets'[i] = c[i]
        /\ sockets'[k].wire = <<>>
    BY <1>1, <2>1, <2>2 DEF NewSocket
  <2>5. ASSUME NEW i \in DOMAIN sockets'
        PROVE  \/ sockets'[i].wire = <<>>
               \/ /\ i \in DOMAIN sockets /\ sockets'[i].wire = sockets[i].wire
                  /\ i \in Live => i \in Live'
    BY <1>1, <2>3, <2>4
  <2>6. QED
    BY <2>1, <2>5, WiresKept
<1>3. CASE Unmount
  <2>1. sockets' = Closing(sockets) /\ feed' = feed /\ seen' = seen
    BY <1>3 DEF Unmount, view
  <2>2. \A i \in DOMAIN sockets :
          \/ sockets'[i] = sockets[i] /\ (i = ref => i \notin Live)
          \/ sockets'[i].wire = <<>>
    BY <1>1, <2>1, ClosingSockets DEF Live
  <2>3. DOMAIN sockets' = DOMAIN sockets
    BY <1>1, <2>1, ClosingSockets
  <2>4. QED
    BY <1>1, <2>1, <2>2, <2>3, WiresKept
<1>4. ASSUME NEW run \in 1 .. MaxEffects, Reconnect(run) PROVE WiresInv'
  <2> DEFINE k == Len(sockets) + 1
  <2>1. sockets' = Append(sockets, NewSocket(run)) /\ feed' = feed /\ seen' = seen
    BY <1>4 DEF Reconnect, view
  <2>2. /\ DOMAIN sockets' = DOMAIN sockets \cup {k}
        /\ \A i \in DOMAIN sockets : sockets'[i] = sockets[i]
        /\ sockets'[k].wire = <<>>
    BY <1>1, <2>1 DEF NewSocket
  <2>3. \A i \in DOMAIN sockets : i \in Live => i \in Live'
    BY <2>2 DEF Live
  <2>4. QED
    BY <2>1, <2>2, <2>3, WiresKept
<1>5. ASSUME NEW i \in DOMAIN sockets, Joined(i) PROVE WiresInv'
  <2> DEFINE v == [sockets[i] EXCEPT !.joined = TRUE]
  <2>1. v.wire = sockets[i].wire /\ v.state = sockets[i].state
    BY <1>1 DEF SocketType
  <2>2. sockets' = [sockets EXCEPT ![i] = v] /\ feed' = feed /\ seen' = seen
    BY <1>5 DEF Joined, view
  <2> HIDE DEF v
  <2>3. \A j \in DOMAIN sockets : sockets'[j].wire = sockets[j].wire
    BY <1>1, <2>1, <2>2, OneSocket
  <2>4. Live' = Live /\ DOMAIN sockets' = DOMAIN sockets
    BY <1>1, <2>1, <2>2 DEF Live
  <2>5. QED
    BY <2>2, <2>3, <2>4, WiresKept
<1>6. ASSUME NEW i \in DOMAIN sockets, Open(i) PROVE WiresInv'
  <2> DEFINE v == [sockets[i] EXCEPT !.state = "open"]
  <2>1. v.wire = sockets[i].wire /\ v.state = "open"
    BY <1>1 DEF SocketType
  <2>2. sockets' = [sockets EXCEPT ![i] = v] /\ feed' = feed /\ seen' = seen
    BY <1>6 DEF Open, view
  <2> HIDE DEF v
  <2>3. /\ DOMAIN sockets' = DOMAIN sockets
        /\ \A j \in DOMAIN sockets : sockets'[j].wire = sockets[j].wire
    BY <1>1, <2>1, <2>2, OneSocket
  <2>4. \A j \in DOMAIN sockets : j \in Live => j \in Live'
    BY <1>1, <2>1, <2>2 DEF Live
  <2>5. QED
    BY <2>2, <2>3, <2>4, WiresKept
<1>7. ASSUME NEW i \in DOMAIN sockets, Closed(i) PROVE WiresInv'
  <2> DEFINE v == [sockets[i] EXCEPT !.state = "closed", !.joined = FALSE, !.wire = <<>>]
  <2>1. v.wire = <<>>
    BY <1>1 DEF SocketType
  <2>2. sockets' = [sockets EXCEPT ![i] = v] /\ feed' = feed /\ seen' = seen
    BY <1>7 DEF Closed, view
  <2> HIDE DEF v
  <2>3. QED
    BY <1>1, <2>1, <2>2, OneSocket, WiresKept
<1>8. ASSUME NEW m \in Message, Forward(m) PROVE WiresInv'
  <2>1. /\ feed' = Append(feed, m) /\ sockets' = sockets /\ seen' = seen
    BY <1>8 DEF Forward, view
  <2>2. feed \in Seq(Message)
    BY <1>1 DEF TypeOK
  <2>3. Len(feed') = Len(feed) + 1 /\ Len(feed) \in Nat
    BY <2>1, <2>2
  <2>4. \A w, sn : Ahead(w, sn, Len(feed)) => Ahead(w, sn, Len(feed'))
    BY <2>3 DEF Ahead
  <2>5. \A j \in DOMAIN seen : seen[j] \in 1 .. Len(feed')
    BY <2>3 DEF WiresInv
  <2>6. Live' = Live
    BY <2>1 DEF Live
  <2>7. QED
    BY <2>1, <2>4, <2>5, <2>6 DEF WiresInv
<1>9. ASSUME NEW i \in DOMAIN sockets, Deliver(i) PROVE WiresInv'
  <2> DEFINE w == Append(sockets[i].wire, Len(feed))
             v == [sockets[i] EXCEPT !.wire = w]
  <2>1. /\ sockets' = [sockets EXCEPT ![i] = v] /\ feed' = feed /\ seen' = seen
        /\ i \in Live
    BY <1>9 DEF Deliver, view, Live
  <2>2. Len(feed) \in Nat \ {0}
    <3>1. Len(feed) # 0
      BY <1>9 DEF Deliver, Bridge!Deliver
    <3>2. feed \in Seq(Message)
      BY <1>1 DEF TypeOK
    <3>3. QED
      BY <3>1, <3>2
  <2>3. v.wire = w /\ v.state = sockets[i].state
    BY <1>1 DEF SocketType
  <2>4. /\ sockets[i].wire \in Seq(Nat) /\ Ahead(sockets[i].wire, seen, Len(feed))
        /\ seen \in Seq(Nat) /\ \A j \in DOMAIN seen : seen[j] \in 1 .. Len(feed)
    BY DEF WiresInv
  <2>5. w \in Seq(Nat) /\ Ahead(w, seen, Len(feed))
    BY <2>2, <2>4, AheadAppend
  <2> HIDE DEF w, v
  <2>6. i \in Live'
    BY <1>1, <2>1, <2>3 DEF Live
  <2>7. QED
    BY <1>1, <2>1, <2>3, <2>5, <2>6, OneSocket DEF WiresInv
<1>10. ASSUME NEW i \in DOMAIN sockets, OnMessage(i) PROVE WiresInv'
  <2> DEFINE w == sockets[i].wire
             v == [sockets[i] EXCEPT !.wire = Tail(w)]
  <2>1. /\ sockets' = [sockets EXCEPT ![i] = v] /\ feed' = feed
        /\ seen' = Append(seen, Head(w)) /\ w # <<>> /\ sockets[i].state = "open"
    BY <1>10 DEF OnMessage
  <2>2. v.wire = Tail(w) /\ v.state = "open"
    BY <1>1, <2>1 DEF SocketType
  <2>3. /\ w \in Seq(Nat) /\ Ahead(w, seen, Len(feed))
        /\ seen \in Seq(Nat) /\ \A j \in DOMAIN seen : seen[j] \in 1 .. Len(feed)
        /\ \A j, k \in DOMAIN seen : j < k => seen[j] <= seen[k]
    BY DEF WiresInv
  <2>4. Len(feed) \in Nat
    BY <1>1 DEF TypeOK
  <2>5. /\ seen' \in Seq(Nat) /\ \A j \in DOMAIN seen' : seen'[j] \in 1 .. Len(feed)
        /\ \A j, k \in DOMAIN seen' : j < k => seen'[j] <= seen'[k]
        /\ Tail(w) \in Seq(Nat) /\ Ahead(Tail(w), seen', Len(feed))
    BY <2>1, <2>3, <2>4, AheadRead
  <2> HIDE DEF w, v
  <2>6. i \in Live /\ i \in Live'
    BY <1>1, <2>1, <2>2 DEF Live
  <2>7. \A j \in DOMAIN sockets : j # i => j \notin Live /\ sockets[j].wire = <<>>
    BY <1>1, <2>6 DEF WiresInv
  <2>8. ASSUME NEW j \in DOMAIN sockets'
        PROVE  /\ sockets'[j].wire \in Seq(Nat) /\ Ahead(sockets'[j].wire, seen', Len(feed'))
               /\ j \notin Live' => sockets'[j].wire = <<>>
    <3>1. /\ DOMAIN sockets' = DOMAIN sockets /\ sockets'[i] = v
          /\ j # i => sockets'[j] = sockets[j]
      BY <1>1, <2>1, OneSocket
    <3>2. CASE j = i
      BY <2>1, <2>2, <2>5, <2>6, <3>1, <3>2
    <3>3. CASE j # i
      BY <2>7, <3>1, <3>3, EmptyAhead, EmptySeq
    <3>4. QED
      BY <3>2, <3>3
  <2>9. QED
    BY <2>1, <2>5, <2>8 DEF WiresInv
<1>11. CASE UNCHANGED vars
  <2>1. UNCHANGED <<sockets, seen, feed>>
    BY <1>11 DEF vars, view
  <2>2. Live' = Live
    BY <2>1 DEF Live
  <2>3. QED
    BY <2>1, <2>2 DEF WiresInv
<1>12. \A i \in DOMAIN sockets : CloseEvent(i) => Closed(i)
  BY DEF CloseEvent
<1>13. \A i \in DOMAIN sockets : Drop(i) => Closed(i)
  BY DEF Drop
<1>14. QED
  BY <1>2, <1>3, <1>4, <1>5, <1>6, <1>7, <1>8, <1>9, <1>10, <1>11, <1>12, <1>13
  DEF Next, Due

\* The first socket has nothing on its way.
LEMMA InitWires == Init => WiresInv
<1> SUFFICES ASSUME Init PROVE WiresInv
  OBVIOUS
<1>1. sockets = <<NewSocket(1)>> /\ seen = <<>> /\ feed = <<>>
  BY DEF Init
<1>2. NewSocket(1).wire = <<>>
  BY DEF NewSocket
<1>3. \A i \in DOMAIN sockets : sockets[i].wire = <<>>
  BY <1>1, <1>2
<1>4. seen \in Seq(Nat) /\ DOMAIN seen = {}
  BY <1>1
<1>5. QED
  BY <1>3, <1>4, EmptyAhead, EmptySeq DEF WiresInv
-----------------------------------------------------------------------------
(* What is shown. *)

\* The places at which a message of a channel was reduced.
On(sn, fd, channel) == {i \in DOMAIN sn : fd[sn[i]].channel = channel}

\* ShowsLatest, of the places mine of sn.
Newest(list, mine, sn, max) ==
  LET n == Cardinality(mine)
  IN /\ DOMAIN list = 1 .. (IF max < n THEN max ELSE n)
     /\ \A k \in DOMAIN list : \E i \in mine :
          list[k] = sn[i] /\ Cardinality({j \in mine : i < j}) = k - 1

\* The book of a symbol is that of its latest message, or none.
Books(bk, sn, fd, s) ==
  LET mine == {n \in Range(sn) : fd[n].channel = "orderbook_updates" /\ fd[n].symbol = s}
  IN \A n \in mine \cup {0} : n <= bk /\ bk \in mine \cup {0}

\* With WiresInv, an inductive invariant.
ShownInv ==
  /\ trades \in Seq(Nat) /\ Newest(trades, On(seen, feed, "trades"), seen, MAX_TRADES)
  /\ thoughts \in Seq(Nat)
  /\ Newest(thoughts, On(seen, feed, "agent_thoughts"), seen, MAX_THOUGHTS)
  /\ books \in [Symbol -> Nat] /\ \A s \in Symbol : Books(books[s], seen, feed, s)

\* The two invariants together are the property.
LEMMA ShownIsShown == WiresInv /\ ShownInv => ShownIsLatest
<1> SUFFICES ASSUME WiresInv, ShownInv PROVE ShownIsLatest
  OBVIOUS
<1>1. ShowsLatest(trades, "trades", MAX_TRADES)
  BY DEF ShownInv, ShowsLatest, Newest, On
<1>2. ShowsLatest(thoughts, "agent_thoughts", MAX_THOUGHTS)
  BY DEF ShownInv, ShowsLatest, Newest, On
<1>3. \A i, j \in DOMAIN seen : i < j => seen[i] <= seen[j]
  BY DEF WiresInv
<1>4. \A s \in Symbol : Books(books[s], seen, feed, s)
  BY DEF ShownInv
<1>5. QED
  BY <1>1, <1>2, <1>3, <1>4 DEF ShownIsLatest, Books

\* Prepend, place by place.
IsPrepended(p, n, list, max) ==
  /\ p \in Seq(Nat)
  /\ DOMAIN p = 1 .. (IF max < Len(list) + 1 THEN max ELSE Len(list) + 1)
  /\ \A k \in DOMAIN p : IF k = 1 THEN p[k] = n
                         ELSE k - 1 \in DOMAIN list /\ p[k] = list[k - 1]

\* setTrades and setThoughts put a message in front and cut the list.
LEMMA PrependIs ==
  ASSUME NEW list \in Seq(Nat), NEW n \in Nat, NEW max \in Nat
  PROVE  IsPrepended(Prepend(n, list, max), n, list, max)
<1> DEFINE all == <<n>> \o list
           l == IF max < Len(all) THEN max ELSE Len(all)
           p == SubSeq(all, 1, l)
<1>1. /\ all \in Seq(Nat) /\ Len(all) = Len(list) + 1 /\ all[1] = n
      /\ \A k \in 1 .. Len(list) : all[k + 1] = list[k]
      /\ Len(list) \in Nat /\ DOMAIN list = 1 .. Len(list)
  OBVIOUS
<1> HIDE DEF all
<1>2. l \in Nat /\ l <= Len(all)
  BY <1>1
<1>3. l = IF max < Len(list) + 1 THEN max ELSE Len(list) + 1
  BY <1>1
<1>4. Prepend(n, list, max) = p
  BY DEF Prepend, all
<1> HIDE DEF l
<1>5. /\ p \in Seq(Nat) /\ DOMAIN p = 1 .. l
      /\ \A k \in 1 .. l : p[k] = all[k]
  BY <1>1, <1>2
<1> HIDE DEF p
<1>6. ASSUME NEW k \in 1 .. l
      PROVE  IF k = 1 THEN p[k] = n ELSE k - 1 \in DOMAIN list /\ p[k] = list[k - 1]
  <2>1. p[k] = all[k] /\ k \in Nat /\ k <= Len(list) + 1 /\ k >= 1
    BY <1>1, <1>2, <1>5, <1>6
  <2>2. CASE k = 1
    BY <1>1, <2>1, <2>2
  <2>3. CASE k # 1
    <3>1. k - 1 \in 1 .. Len(list) /\ k = (k - 1) + 1
      BY <1>1, <2>1, <2>3
    <3>2. QED
      BY <1>1, <2>1, <2>3, <3>1
  <2>4. QED
    BY <2>2, <2>3
<1>7. QED
  BY <1>3, <1>4, <1>5, <1>6 DEF IsPrepended

\* The places in mine after i.
After(mine, i) == {j \in mine : i < j}

\* One more message of the channel.
LEMMA NewestGrows ==
  ASSUME NEW sn \in Seq(Nat), NEW n \in Nat, NEW mine \in SUBSET (DOMAIN sn),
         NEW list \in Seq(Nat), NEW max \in Nat, Newest(list, mine, sn, max)
  PROVE  Newest(Prepend(n, list, max), mine \cup {Len(sn) + 1}, Append(sn, n), max)
<1> DEFINE l == Len(sn) + 1
           s == Append(sn, n)
           p == Prepend(n, list, max)
           ours == mine \cup {l}
           c == Cardinality(mine)
<1>1. IsFiniteSet(mine) /\ c \in Nat /\ mine \subseteq 1 .. Len(sn) /\ Len(sn) \in Nat
  <2>1. Len(sn) \in Nat /\ DOMAIN sn = 1 .. Len(sn)
    OBVIOUS
  <2>2. IsFiniteSet(1 .. Len(sn))
    BY <2>1, FS_Interval
  <2>3. QED
    BY <2>1, <2>2, FS_Subset, FS_CardinalityType
<1>2. IsFiniteSet(ours) /\ Cardinality(ours) = c + 1
  <2>1. l \notin mine
    BY <1>1
  <2>2. QED
    BY <1>1, <2>1, FS_AddElement
<1>3. /\ DOMAIN list = 1 .. (IF max < c THEN max ELSE c)
      /\ \A k \in DOMAIN list : \E i \in mine :
           list[k] = sn[i] /\ Cardinality(After(mine, i)) = k - 1
  BY DEF Newest, After
<1>4. Len(list) = IF max < c THEN max ELSE c
  BY <1>1, <1>3
<1>5. /\ p \in Seq(Nat)
      /\ DOMAIN p = 1 .. (IF max < c + 1 THEN max ELSE c + 1)
      /\ \A k \in DOMAIN p : IF k = 1 THEN p[k] = n
                             ELSE k - 1 \in DOMAIN list /\ p[k] = list[k - 1]
  <2>1. /\ p \in Seq(Nat)
        /\ DOMAIN p = 1 .. (IF max < Len(list) + 1 THEN max ELSE Len(list) + 1)
        /\ \A k \in DOMAIN p : IF k = 1 THEN p[k] = n
                               ELSE k - 1 \in DOMAIN list /\ p[k] = list[k - 1]
    <3>1. IsPrepended(p, n, list, max)
      BY PrependIs
    <3> HIDE DEF p, c
    <3>2. QED
      BY <3>1 DEF IsPrepended
  <2> HIDE DEF p
  <2>2. (IF max < Len(list) + 1 THEN max ELSE Len(list) + 1)
          = (IF max < c + 1 THEN max ELSE c + 1)
    BY <1>1, <1>4
  <2>3. QED
    BY <2>1, <2>2
<1>6. s[l] = n /\ \A i \in mine : s[i] = sn[i]
  BY <1>1
<1>7. ASSUME NEW k \in DOMAIN p
      PROVE  \E i \in ours : p[k] = s[i] /\ Cardinality(After(ours, i)) = k - 1
  <2>1. CASE k = 1
    <3>1. After(ours, l) = {}
      BY <1>1 DEF After
    <3>2. Cardinality(After(ours, l)) = 0
      BY <3>1, FS_EmptySet
    <3>3. p[k] = n
      BY <1>5, <2>1
    <3>4. QED
      BY <1>6, <2>1, <3>2, <3>3
  <2>2. CASE k # 1
    <3>1. k - 1 \in DOMAIN list /\ p[k] = list[k - 1] /\ k \in Nat
      BY <1>1, <1>5, <2>2
    <3>2. PICK i \in mine : list[k - 1] = sn[i] /\ Cardinality(After(mine, i)) = (k - 1) - 1
      BY <1>3, <3>1
    <3>3. After(ours, i) = After(mine, i) \cup {l} /\ l \notin After(mine, i)
      BY <1>1 DEF After
    <3>4. IsFiniteSet(After(mine, i))
      <4>1. After(mine, i) \in SUBSET mine
        BY DEF After
      <4>2. QED
        BY <1>1, <4>1, FS_Subset
    <3>5. Cardinality(After(ours, i)) = Cardinality(After(mine, i)) + 1
      BY <3>3, <3>4, FS_AddElement
    <3>6. Cardinality(After(ours, i)) = k - 1
      BY <3>1, <3>2, <3>5
    <3>7. i \in ours /\ p[k] = s[i]
      BY <1>6, <3>1, <3>2
    <3>8. QED
      BY <3>6, <3>7
  <2>3. QED
    BY <2>1, <2>2
<1> HIDE DEF s, p, l, ours, c
<1>8. Newest(p, ours, s, max)
  <2>1. DOMAIN p = 1 .. (IF max < Cardinality(ours) THEN max ELSE Cardinality(ours))
    BY <1>2, <1>5
  <2>2. QED
    BY <1>7, <2>1 DEF Newest, After
<1>9. QED
  BY <1>8 DEF s, p, l, ours

\* One more message of another channel.
LEMMA NewestStays ==
  ASSUME NEW sn \in Seq(Nat), NEW n, NEW mine \in SUBSET (DOMAIN sn),
         NEW list, NEW max, Newest(list, mine, sn, max)
  PROVE  Newest(list, mine, Append(sn, n), max)
<1>1. \A i \in mine : Append(sn, n)[i] = sn[i]
  OBVIOUS
<1>2. QED
  BY <1>1 DEF Newest

\* The places of a channel, after one more message.
OneMore(new, sn, n, fd, ch) ==
  new = IF fd[n].channel = ch THEN On(sn, fd, ch) \cup {Len(sn) + 1} ELSE On(sn, fd, ch)

\* One more message shown adds its place to those of its channel only.
LEMMA OnAppend ==
  ASSUME NEW sn \in Seq(Nat), NEW n \in Nat, NEW fd, NEW ch
  PROVE  OneMore(On(Append(sn, n), fd, ch), sn, n, fd, ch)
<1> DEFINE s == Append(sn, n)
           l == Len(sn) + 1
<1>1. /\ DOMAIN s = DOMAIN sn \cup {l} /\ s[l] = n /\ l \notin DOMAIN sn
      /\ \A i \in DOMAIN sn : s[i] = sn[i]
  OBVIOUS
<1> HIDE DEF s, l
<1>2. QED
  BY <1>1 DEF On, OneMore, s, l

\* More feed changes nothing of what was reduced.
LEMMA OnFeed ==
  ASSUME NEW sn \in Seq(Nat), NEW fd \in Seq(Message), NEW m \in Message,
         \A j \in DOMAIN sn : sn[j] \in 1 .. Len(fd)
  PROVE  /\ \A ch : On(sn, Append(fd, m), ch) = On(sn, fd, ch)
         /\ \A bk, s : Books(bk, sn, fd, s) => Books(bk, sn, Append(fd, m), s)
<1> DEFINE f == Append(fd, m)
<1>1. \A j \in DOMAIN sn : f[sn[j]] = fd[sn[j]]
  OBVIOUS
<1>2. \A x \in Range(sn) : f[x] = fd[x]
  <2>1. Range(sn) = {sn[j] : j \in DOMAIN sn}
    BY DEF Range
  <2>2. QED
    BY <1>1, <2>1
<1> HIDE DEF f
<1>3. \A ch : On(sn, f, ch) = On(sn, fd, ch)
  BY <1>1 DEF On
<1>4. \A bk, s : Books(bk, sn, fd, s) => Books(bk, sn, f, s)
  BY <1>2 DEF Books
<1>5. QED
  BY <1>3, <1>4 DEF f

\* What was received, after one more message.
LEMMA RangeAppend ==
  ASSUME NEW sn \in Seq(Nat), NEW n \in Nat
  PROVE  Range(Append(sn, n)) = Range(sn) \cup {n}
<1> DEFINE s == Append(sn, n)
           l == Len(sn) + 1
<1>1. /\ DOMAIN s = DOMAIN sn \cup {l} /\ s[l] = n
      /\ \A i \in DOMAIN sn : s[i] = sn[i]
  OBVIOUS
<1> HIDE DEF s, l
<1>2. QED
  BY <1>1 DEF Range, s

\* A message that is no book of the symbol.
LEMMA BooksStay ==
  ASSUME NEW sn \in Seq(Nat), NEW n \in Nat, NEW fd, NEW s, NEW bk, Books(bk, sn, fd, s),
         ~(fd[n].channel = "orderbook_updates" /\ fd[n].symbol = s)
  PROVE  Books(bk, Append(sn, n), fd, s)
<1>1. Range(Append(sn, n)) = Range(sn) \cup {n}
  BY RangeAppend
<1>2. QED
  BY <1>1 DEF Books

\* A book of the symbol.
LEMMA BooksGrow ==
  ASSUME NEW sn \in Seq(Nat), NEW n \in Nat, NEW fd, NEW s,
         fd[n].channel = "orderbook_updates", fd[n].symbol = s,
         \A j \in DOMAIN sn : sn[j] <= n
  PROVE  Books(n, Append(sn, n), fd, s)
<1>1. Range(Append(sn, n)) = Range(sn) \cup {n}
  BY RangeAppend
<1>2. \A x \in Range(sn) : x <= n
  BY DEF Range
<1>3. QED
  BY <1>1, <1>2 DEF Books
-----------------------------------------------------------------------------
\* A step that reduces nothing.
LEMMA ViewKept ==
  ASSUME ShownInv, UNCHANGED <<view, feed>>
  PROVE  ShownInv'
  BY DEF ShownInv, view

\* At the start nothing is shown.
LEMMA InitShown == Init => ShownInv
<1> SUFFICES ASSUME Init PROVE ShownInv
  OBVIOUS
<1>1. /\ seen = <<>> /\ trades = <<>> /\ thoughts = <<>> /\ books = [s \in Symbol |-> 0]
  BY DEF Init
<1>2. \A ch : On(<<>>, feed, ch) = {}
  BY DEF On
<1>3. Cardinality({}) = 0 /\ MAX_TRADES \in Nat /\ MAX_THOUGHTS \in Nat
  BY FS_EmptySet, DashboardAssumption
<1>4. \A max \in Nat : Newest(<<>>, {}, <<>>, max)
  BY <1>3 DEF Newest
<1>5. Range(<<>>) = {}
  BY DEF Range
<1>6. \A s \in Symbol : Books(0, <<>>, feed, s)
  BY <1>5 DEF Books
<1>7. books \in [Symbol -> Nat] /\ \A s \in Symbol : books[s] = 0
  BY <1>1
<1>8. trades \in Seq(Nat) /\ thoughts \in Seq(Nat)
  BY <1>1, EmptySeq
<1>9. QED
  BY <1>1, <1>2, <1>3, <1>4, <1>6, <1>7, <1>8 DEF ShownInv

\* One step, by action.
LEMMA StepShown ==
  ASSUME ConnectionInv, WiresInv, ShownInv, [Next]_vars
  PROVE  ShownInv'
<1>1. /\ TypeOK /\ feed \in Seq(Message) /\ seen \in Seq(Nat)
      /\ \A j \in DOMAIN seen : seen[j] \in 1 .. Len(feed)
  BY DEF ConnectionInv, TypeOK, WiresInv
<1>2. ASSUME NEW m \in Message, Forward(m) PROVE ShownInv'
  <2>1. feed' = Append(feed, m) /\ UNCHANGED <<seen, trades, thoughts, books>>
    BY <1>2 DEF Forward, view
  <2>2. /\ \A ch : On(seen, feed', ch) = On(seen, feed, ch)
        /\ \A bk, s : Books(bk, seen, feed, s) => Books(bk, seen, feed', s)
    BY <1>1, <2>1, OnFeed
  <2>3. QED
    BY <2>1, <2>2 DEF ShownInv
<1>3. ASSUME NEW i \in DOMAIN sockets, OnMessage(i) PROVE ShownInv'
  <2> DEFINE w == sockets[i].wire
             n == Head(w)
             m == feed[n]
  <2>1. seen' = Append(seen, n) /\ feed' = feed /\ w # <<>>
    BY <1>3 DEF OnMessage
  <2>2. n \in 1 .. Len(feed) /\ \A j \in DOMAIN seen : seen[j] <= n
    <3>1. /\ w \in Seq(Nat) /\ Ahead(w, seen, Len(feed))
          /\ \A j, k \in DOMAIN seen : j < k => seen[j] <= seen[k]
      BY DEF WiresInv
    <3>2. Len(feed) \in Nat
      BY <1>1
    <3>3. QED
      BY <1>1, <2>1, <3>1, <3>2, AheadRead
  <2>3. n \in Nat
    BY <1>1, <2>2
  <2>4. \/ m.channel = "orderbook_updates" /\ books' = [books EXCEPT ![m.symbol] = n]
           /\ trades' = trades /\ thoughts' = thoughts
        \/ m.channel = "trades" /\ trades' = Prepend(n, trades, MAX_TRADES)
           /\ books' = books /\ thoughts' = thoughts
        \/ m.channel = "agent_thoughts" /\ thoughts' = Prepend(n, thoughts, MAX_THOUGHTS)
           /\ books' = books /\ trades' = trades
    BY <1>3 DEF OnMessage
  <2> HIDE DEF n, w
  <2>5. \A ch : /\ On(seen, feed, ch) \in SUBSET (DOMAIN seen)
                /\ m.channel = ch => On(seen', feed', ch) = On(seen, feed, ch) \cup {Len(seen) + 1}
                /\ m.channel # ch => On(seen', feed', ch) = On(seen, feed, ch)
    <3>1. ASSUME NEW ch
          PROVE  /\ On(seen, feed, ch) \in SUBSET (DOMAIN seen)
                 /\ m.channel = ch =>
                      On(Append(seen, n), feed, ch) = On(seen, feed, ch) \cup {Len(seen) + 1}
                 /\ m.channel # ch => On(Append(seen, n), feed, ch) = On(seen, feed, ch)
      <4>1. OneMore(On(Append(seen, n), feed, ch), seen, n, feed, ch)
        BY <1>1, <2>3, OnAppend
      <4>2. QED
        BY <4>1 DEF OneMore, On
    <3>2. QED
      BY <2>1, <3>1
  <2>6. MAX_TRADES \in Nat /\ MAX_THOUGHTS \in Nat
    BY DashboardAssumption
  <2>7. ASSUME NEW list \in Seq(Nat), NEW ch, NEW max \in Nat,
               Newest(list, On(seen, feed, ch), seen, max)
        PROVE  /\ m.channel = ch =>
                    /\ Prepend(n, list, max) \in Seq(Nat)
                    /\ Newest(Prepend(n, list, max), On(seen', feed', ch), seen', max)
               /\ m.channel # ch => Newest(list, On(seen', feed', ch), seen', max)
    <3>1. Newest(Prepend(n, list, max), On(seen, feed, ch) \cup {Len(seen) + 1}, seen', max)
      BY <1>1, <2>1, <2>3, <2>5, <2>7, NewestGrows
    <3>2. Newest(list, On(seen, feed, ch), seen', max)
      BY <1>1, <2>1, <2>3, <2>5, <2>7, NewestStays
    <3>3. Prepend(n, list, max) \in Seq(Nat)
      BY <2>3, PrependIs DEF IsPrepended
    <3>4. QED
      BY <2>5, <3>1, <3>2, <3>3
  <2>8. /\ trades' \in Seq(Nat)
        /\ Newest(trades', On(seen', feed', "trades"), seen', MAX_TRADES)
    BY <2>4, <2>6, <2>7 DEF ShownInv
  <2>9. /\ thoughts' \in Seq(Nat)
        /\ Newest(thoughts', On(seen', feed', "agent_thoughts"), seen', MAX_THOUGHTS)
    BY <2>4, <2>6, <2>7 DEF ShownInv
  <2>10. books' \in [Symbol -> Nat]
    BY <2>3, <2>4 DEF ShownInv
  <2>11. ASSUME NEW s \in Symbol PROVE Books(books'[s], seen', feed', s)
    <3>1. Books(books[s], seen, feed, s) /\ books \in [Symbol -> Nat]
      BY DEF ShownInv
    <3>2. CASE m.channel = "orderbook_updates" /\ m.symbol = s
      <4>1. books'[s] = n
        BY <2>4, <3>1, <3>2
      <4>2. Books(n, Append(seen, n), feed, s)
        BY <1>1, <2>2, <2>3, <3>2, BooksGrow
      <4>3. QED
        BY <2>1, <4>1, <4>2
    <3>3. CASE ~(m.channel = "orderbook_updates" /\ m.symbol = s)
      <4>1. books'[s] = books[s]
        BY <2>4, <3>1, <3>3
      <4>2. Books(books[s], Append(seen, n), feed, s)
        BY <1>1, <2>3, <3>1, <3>3, BooksStay
      <4>3. QED
        BY <2>1, <4>1, <4>2
    <3>4. QED
      BY <3>2, <3>3
  <2>12. QED
    BY <2>8, <2>9, <2>10, <2>11 DEF ShownInv
<1>4. CASE Remount \/ Unmount
  BY <1>4, ViewKept DEF Remount, Unmount
<1>5. ASSUME NEW run \in 1 .. MaxEffects, Reconnect(run) PROVE ShownInv'
  BY <1>5, ViewKept DEF Reconnect
<1>6. ASSUME NEW i \in DOMAIN sockets,
             Joined(i) \/ Open(i) \/ CloseEvent(i) \/ Drop(i) \/ Deliver(i)
      PROVE  ShownInv'
  <2>1. UNCHANGED <<view, feed>>
    BY <1>6 DEF Joined, Open, CloseEvent, Drop, Closed, Deliver
  <2>2. QED
    BY <2>1, ViewKept
<1>7. CASE UNCHANGED vars
  BY <1>7, ViewKept DEF vars
<1>8. QED
  BY <1>2, <1>3, <1>4, <1>5, <1>6, <1>7 DEF Next, Due

\* ShownIsLatest holds in every reachable state: drops, reconnections, remounts
\* and messages sent again never bring an old message back, and the lists and
\* the books are those of the latest messages received, for any limits.
THEOREM LatestIsShown == Spec => []ShownIsLatest
<1>1. ConnectionInv /\ WiresInv /\ [Next]_vars => WiresInv'
  BY StepWires
<1>2. ConnectionInv /\ WiresInv /\ ShownInv /\ [Next]_vars => ShownInv'
  BY StepShown
<1>3. QED
  BY <1>1, <1>2, InitWires, InitShown, ShownIsShown, Connected, PTL DEF Spec

-----------------------------------------------------------------------------
(* The candles. *)

\* The buckets before the loop.
NoBuckets == [b \in {} |-> 0]

\* One turn of the loop of toCandles.
Turn(a, t, s) == IF t.symbol = s THEN AddToBuckets(a, t) ELSE a

\* The fold of ToCandles over the places of l, the last one last.
IsLoop(g, l, s, F) ==
  g = [S \in F |-> IF S = {} THEN NoBuckets ELSE Turn(g[S \ {Max(S)}], l[Max(S)], s)]

\* The greatest of some numbers.
LEMMA MaxIs ==
  ASSUME NEW S \in SUBSET Int, NEW x \in S, \A y \in S : y <= x
  PROVE  Max(S) = x
<1>1. \A y \in S : x >= y
  OBVIOUS
<1>2. Max(S) \in S /\ \A y \in S : Max(S) >= y
  BY <1>1 DEF Max
<1>3. Max(S) >= x /\ x >= Max(S) /\ Max(S) \in Int /\ x \in Int
  BY <1>1, <1>2
<1>4. QED
  BY <1>3

\* Without the last of some places a shorter list is enough.
LEMMA LastPlace ==
  ASSUME NEW n \in Nat, NEW S \in SUBSET (1 .. n + 1)
  PROVE  S \ {Max(S)} \in SUBSET (1 .. n)
<1>1. CASE n + 1 \in S
  <2>1. S \in SUBSET Int /\ \A y \in S : y <= n + 1
    OBVIOUS
  <2>2. Max(S) = n + 1
    BY <1>1, <2>1, MaxIs
  <2>3. QED
    BY <2>2
<1>2. CASE n + 1 \notin S
  <2>1. \A y \in 1 .. n + 1 : y # n + 1 => y \in 1 .. n
    OBVIOUS
  <2>2. S \in SUBSET (1 .. n)
    BY <1>2, <2>1
  <2>3. QED
    BY <2>2
<1>3. QED
  BY <1>1, <1>2

\* The fold exists on lists of any length.
LEMMA LoopExists ==
  ASSUME NEW l, NEW s, NEW n \in Nat
  PROVE  \E g : IsLoop(g, l, s, SUBSET (1 .. n))
<1> DEFINE Has(m) == \E g : IsLoop(g, l, s, SUBSET (1 .. m))
           T == {m \in Nat : ~Has(m)}
<1>1. Has(0)
  <2>1. \A S \in SUBSET (1 .. 0) : S = {}
    OBVIOUS
  <2>2. IsLoop([S \in SUBSET (1 .. 0) |-> NoBuckets], l, s, SUBSET (1 .. 0))
    BY <2>1 DEF IsLoop
  <2>3. QED
    BY <2>2
<1>2. ASSUME NEW m \in Nat, NEW h, IsLoop(h, l, s, SUBSET (1 .. m))
      PROVE  Has(m + 1)
  <2> DEFINE F == SUBSET (1 .. m + 1)
             g == [S \in F |->
                     IF S = {} THEN NoBuckets
                     ELSE Turn(h[S \ {Max(S)}], l[Max(S)], s)]
  <2>1. ASSUME NEW S \in SUBSET (1 .. m) PROVE g[S] = h[S]
    <3>1. S \in F /\ m + 1 \notin S
      OBVIOUS
    <3>2. h[S] = IF S = {} THEN NoBuckets ELSE Turn(h[S \ {Max(S)}], l[Max(S)], s)
      BY <1>2 DEF IsLoop
    <3>3. g[S] = IF S = {} THEN NoBuckets ELSE Turn(h[S \ {Max(S)}], l[Max(S)], s)
      BY <3>1
    <3>4. QED
      BY <3>2, <3>3
  <2>2. ASSUME NEW S \in F, S # {} PROVE g[S \ {Max(S)}] = h[S \ {Max(S)}]
    <3>1. S \ {Max(S)} \in SUBSET (1 .. m)
      BY LastPlace
    <3> HIDE DEF g, F
    <3>2. QED
      BY <2>1, <3>1
  <2>3. g = [S \in F |-> IF S = {} THEN NoBuckets ELSE Turn(h[S \ {Max(S)}], l[Max(S)], s)]
    OBVIOUS
  <2>4. IsLoop(g, l, s, F)
    <3> HIDE DEF g, F
    <3>1. QED
      BY <2>2, <2>3 DEF IsLoop
  <2>5. QED
    BY <2>4
<1>3. T = {}
  <2>1. SUFFICES ASSUME T # {} PROVE FALSE
    OBVIOUS
  <2>2. PICK m \in T : \A k \in T : m <= k
    <3>1. T \subseteq Nat
      OBVIOUS
    <3> HIDE DEF T
    <3>2. QED
      BY <2>1, <3>1, LeastNat
  <2>3. m \in Nat /\ m # 0
    BY <1>1, <2>2
  <2>4. m - 1 \in Nat /\ m - 1 \notin T /\ (m - 1) + 1 = m
    <3>1. m - 1 \in Nat /\ ~(m <= m - 1) /\ (m - 1) + 1 = m
      BY <2>3
    <3> HIDE DEF T
    <3>2. QED
      BY <2>2, <3>1
  <2>5. Has(m - 1)
    BY <2>4
  <2>6. PICK h : IsLoop(h, l, s, SUBSET (1 .. m - 1))
    BY <2>5
  <2>7. Has((m - 1) + 1)
    <3> HIDE DEF Has
    <3>1. QED
      BY <1>2, <2>4, <2>6
  <2>8. QED
    BY <2>2, <2>4, <2>7
<1>4. QED
  BY <1>3

\* The loop of toCandles, turn by turn, over a list oldest first.
Loops(a, l, s, n) ==
  /\ a[0] = NoBuckets
  /\ \A k \in 1 .. n : a[k] = Turn(a[k - 1], l[k], s)

\* What the loop leaves.
BucketsOf(l, s) ==
  FoldLeft(LAMBDA a, t : IF t.symbol = s THEN AddToBuckets(a, t) ELSE a, [b \in {} |-> 0], l)

\* The fold is the loop.
LEMMA LoopTurns ==
  ASSUME NEW l, NEW s, NEW n \in Nat, DOMAIN l = 1 .. n
  PROVE  \E a : Loops(a, l, s, n) /\ BucketsOf(l, s) = a[n]
<1> DEFINE F == SUBSET (1 .. n)
           h == CHOOSE g : IsLoop(g, l, s, F)
           a == [k \in 0 .. n |-> h[1 .. k]]
<1>1. IsLoop(h, l, s, F)
  BY LoopExists
<1>2. BucketsOf(l, s) = h[1 .. n]
  BY DEF BucketsOf, FoldLeft, MapThenFoldSet, IsLoop, Turn, NoBuckets
<1> HIDE DEF h
<1>3. \A S \in F : h[S] = IF S = {} THEN NoBuckets ELSE Turn(h[S \ {Max(S)}], l[Max(S)], s)
  BY <1>1 DEF IsLoop
<1>4. a[0] = NoBuckets
  <2>1. 1 .. 0 = {} /\ 0 \in 0 .. n
    OBVIOUS
  <2>2. QED
    BY <1>3, <2>1
<1>5. ASSUME NEW k \in 1 .. n PROVE a[k] = Turn(a[k - 1], l[k], s)
  <2>1. 1 .. k \in F /\ 1 .. k # {} /\ k - 1 \in 0 .. n /\ k \in 0 .. n
    <3>1. k - 1 \in 0 .. n /\ k \in 0 .. n /\ k \in 1 .. k
      OBVIOUS
    <3>2. 1 .. k \in F
      OBVIOUS
    <3>3. QED
      BY <3>1, <3>2
  <2>2. Max(1 .. k) = k
    <3>1. 1 .. k \in SUBSET Int /\ k \in 1 .. k /\ \A y \in 1 .. k : y <= k
      OBVIOUS
    <3>2. QED
      BY <3>1, MaxIs
  <2>3. (1 .. k) \ {k} = 1 .. k - 1
    OBVIOUS
  <2>4. h[1 .. k] = Turn(h[(1 .. k) \ {Max(1 .. k)}], l[Max(1 .. k)], s)
    BY <1>3, <2>1
  <2>5. h[1 .. k] = Turn(h[1 .. k - 1], l[k], s)
    BY <2>2, <2>3, <2>4
  <2>6. a[k] = h[1 .. k] /\ a[k - 1] = h[1 .. k - 1]
    BY <2>1
  <2>7. QED
    BY <2>5, <2>6
<1>6. a[n] = h[1 .. n]
  OBVIOUS
<1>7. Loops(a, l, s, n)
  BY <1>4, <1>5 DEF Loops
<1>8. QED
  BY <1>2, <1>6, <1>7

-----------------------------------------------------------------------------
\* The trades of a symbol and bucket among the first k, oldest first.
Places(l, s, b, k) == {i \in 1 .. k : l[i].symbol = s /\ BucketStart(l[i].timestamp) = b}

\* A candle tells of the trades at the places P of l, the older first.
Tells(c, l, P, b) ==
  /\ c = [time |-> b, open |-> c.open, high |-> c.high, low |-> c.low, close |-> c.close]
  /\ \E i \in P : c.open = l[i].price /\ \A j \in P : i <= j
  /\ \E i \in P : c.close = l[i].price /\ \A j \in P : j <= i
  /\ \E i \in P : c.high = l[i].price
  /\ \E i \in P : c.low = l[i].price
  /\ \A j \in P : c.low <= l[j].price /\ l[j].price <= c.high

\* There is a candle for each bucket with a trade, and it tells of its trades.
BucketsTell(a, l, s, k) ==
  /\ \A b : b \in DOMAIN a <=> Places(l, s, b, k) # {}
  /\ \A b \in DOMAIN a : Tells(a[b], l, Places(l, s, b, k), b)

\* The first trade of a bucket.
LEMMA TellsFirst ==
  ASSUME NEW l, NEW k \in Int, l[k].price \in Int, NEW b
  PROVE  Tells([time |-> b, open |-> l[k].price, high |-> l[k].price,
                low |-> l[k].price, close |-> l[k].price], l, {k}, b)
<1>1. PICK p \in Int : p = l[k].price
  OBVIOUS
<1>2. p <= p /\ k <= k
  BY <1>1
<1>3. QED
  BY <1>1, <1>2 DEF Tells

\* A candle and one more price.
LEMMA ExtendIs ==
  ASSUME NEW b, NEW o, NEW h, NEW w, NEW z, NEW p
  PROVE  Extend([time |-> b, open |-> o, high |-> h, low |-> w, close |-> z], p)
           = [time |-> b, open |-> o, high |-> IF p > h THEN p ELSE h,
              low |-> IF p < w THEN p ELSE w, close |-> p]
<1>1. PICK c : c = [time |-> b, open |-> o, high |-> h, low |-> w, close |-> z]
  OBVIOUS
<1>2. PICK x, y : x = (IF p > h THEN p ELSE h) /\ y = (IF p < w THEN p ELSE w)
  OBVIOUS
<1>3. Extend(c, p) = [c EXCEPT !.high = x, !.low = y, !.close = p]
  <2>1. x = (IF p > c.high THEN p ELSE c.high) /\ y = (IF p < c.low THEN p ELSE c.low)
    BY <1>1, <1>2
  <2>2. QED
    BY <1>1, <2>1 DEF Extend
<1>4. PICK d : d = [c EXCEPT !.high = x]
  OBVIOUS
<1>5. PICK e : e = [d EXCEPT !.low = y]
  OBVIOUS
<1>6. PICK f : f = [e EXCEPT !.close = p]
  OBVIOUS
<1>7. d = [time |-> b, open |-> o, high |-> x, low |-> w, close |-> z]
  BY <1>1, <1>4
<1>8. e = [time |-> b, open |-> o, high |-> x, low |-> y, close |-> z]
  BY <1>5, <1>7
<1>9. f = [time |-> b, open |-> o, high |-> x, low |-> y, close |-> p]
  BY <1>6, <1>8
<1>10. Extend(c, p) = f
  BY <1>3, <1>4, <1>5, <1>6
<1>11. QED
  BY <1>1, <1>2, <1>9, <1>10

\* One more.
LEMMA TellsMore ==
  ASSUME NEW l, NEW P \in SUBSET Int, NEW k \in Int, \A j \in P : j < k,
         \A j \in P \cup {k} : l[j].price \in Int, NEW b, NEW c, Tells(c, l, P, b)
  PROVE  Tells(Extend(c, l[k].price), l, P \cup {k}, b)
<1>1. PICK p \in Int : p = l[k].price
  OBVIOUS
<1>2. PICK x : x = Extend(c, l[k].price)
  OBVIOUS
<1>3. c = [time |-> b, open |-> c.open, high |-> c.high, low |-> c.low, close |-> c.close]
  BY DEF Tells
<1>5. /\ x.open = c.open /\ x.close = p
      /\ x.high = (IF p > c.high THEN p ELSE c.high)
      /\ x.low = (IF p < c.low THEN p ELSE c.low)
      /\ x = [time |-> b, open |-> x.open, high |-> x.high, low |-> x.low, close |-> x.close]
  <2>1. PICK o, h, w : o = c.open /\ h = c.high /\ w = c.low
    OBVIOUS
  <2>2. PICK z : z = c.close
    OBVIOUS
  <2>3. c = [time |-> b, open |-> o, high |-> h, low |-> w, close |-> z]
    BY <1>3, <2>1, <2>2
  <2>4. x = [time |-> b, open |-> o, high |-> IF p > h THEN p ELSE h,
             low |-> IF p < w THEN p ELSE w, close |-> p]
    BY <1>1, <1>2, <2>3, ExtendIs
  <2>5. /\ x.open = o /\ x.high = (IF p > h THEN p ELSE h)
        /\ x.low = (IF p < w THEN p ELSE w) /\ x.close = p
    BY <2>4
  <2>6. x = [time |-> b, open |-> x.open, high |-> x.high, low |-> x.low, close |-> x.close]
    BY <2>4, <2>5
  <2>7. QED
    BY <2>1, <2>5, <2>6
<1>6. /\ \E i \in P : c.open = l[i].price /\ \A j \in P : i <= j
      /\ \E i \in P : c.high = l[i].price
      /\ \E i \in P : c.low = l[i].price
      /\ \A j \in P : c.low <= l[j].price /\ l[j].price <= c.high
  BY DEF Tells
<1>7. \E i \in P \cup {k} : x.open = l[i].price /\ \A j \in P \cup {k} : i <= j
  <2>1. PICK i \in P : c.open = l[i].price /\ \A j \in P : i <= j
    BY <1>6
  <2>2. i <= k
    OBVIOUS
  <2>3. QED
    BY <1>5, <2>1, <2>2
<1>8. \E i \in P \cup {k} : x.close = l[i].price /\ \A j \in P \cup {k} : j <= i
  <2>1. ASSUME NEW j \in P \cup {k} PROVE j <= k
    <3>1. j \in Int /\ (j < k \/ j = k)
      OBVIOUS
    <3>2. QED
      BY <3>1
  <2>2. QED
    BY <1>1, <1>5, <2>1
<1>9. \E i \in P \cup {k} : x.high = l[i].price
  BY <1>1, <1>5, <1>6
<1>10. \E i \in P \cup {k} : x.low = l[i].price
  BY <1>1, <1>5, <1>6
<1>11. c.high \in Int /\ c.low \in Int
  BY <1>6
<1>12. \A j \in P \cup {k} : x.low <= l[j].price /\ l[j].price <= x.high
  <2>1. SUFFICES ASSUME NEW j \in P \cup {k}
                 PROVE  x.low <= l[j].price /\ l[j].price <= x.high
    OBVIOUS
  <2>2. CASE j = k
    BY <1>1, <1>5, <1>11, <2>2
  <2>3. CASE j \in P
    <3>1. PICK q \in Int : q = l[j].price
      OBVIOUS
    <3>2. c.low <= q /\ q <= c.high
      BY <1>6, <2>3, <3>1
    <3>3. QED
      BY <1>5, <1>11, <3>1, <3>2
  <2>4. QED
    BY <2>2, <2>3
<1>13. Tells(x, l, P \cup {k}, b)
  BY <1>5, <1>7, <1>8, <1>9, <1>10, <1>12 DEF Tells
<1>14. QED
  BY <1>2, <1>13

\* One turn of the loop.
LEMMA TurnTells ==
  ASSUME NEW l, NEW s, NEW k \in Nat \ {0}, \A i \in 1 .. k : l[i].price \in Int,
         NEW a, BucketsTell(a, l, s, k - 1)
  PROVE  BucketsTell(Turn(a, l[k], s), l, s, k)
<1> DEFINE time == BucketStart(l[k].timestamp)
           P(b) == Places(l, s, b, k - 1)
           Q(b) == Places(l, s, b, k)
<1>1. \A i : i \in 1 .. k <=> i \in 1 .. k - 1 \/ i = k
  <2>1. \A i \in Int : i \in 1 .. k <=> i \in 1 .. k - 1 \/ i = k
    OBVIOUS
  <2>2. \A i : (i \in 1 .. k => i \in Int) /\ (i \in 1 .. k - 1 => i \in Int)
    OBVIOUS
  <2>3. QED
    BY <2>1, <2>2
<1>2. CASE l[k].symbol # s
  <2>1. \A b : Q(b) = P(b)
    BY <1>1, <1>2 DEF Places
  <2>2. Turn(a, l[k], s) = a
    BY <1>2 DEF Turn
  <2>3. QED
    BY <2>1, <2>2 DEF BucketsTell
<1>3. CASE l[k].symbol = s
  <2>0. ASSUME NEW b
        PROVE  /\ Q(b) = {i \in 1 .. k : l[i].symbol = s
                                         /\ BucketStart(l[i].timestamp) = b}
               /\ P(b) = {i \in 1 .. k - 1 : l[i].symbol = s
                                             /\ BucketStart(l[i].timestamp) = b}
    BY DEF Places
  <2>1. \A b : Q(b) = IF b = time THEN P(b) \cup {k} ELSE P(b)
    <3> HIDE DEF P, Q
    <3>1. \A b : \A i : i \in Q(b) <=> i \in P(b) \/ (i = k /\ b = time)
      BY <1>1, <1>3, <2>0
    <3>2. QED
      BY <3>1
  <2>2. PICK x : x = Turn(a, l[k], s)
    OBVIOUS
  <2>3. x = [b \in DOMAIN a \cup {time} |->
               IF b # time THEN a[b]
               ELSE IF b \in DOMAIN a THEN Extend(a[b], l[k].price)
               ELSE [time |-> time, open |-> l[k].price, high |-> l[k].price,
                     low |-> l[k].price, close |-> l[k].price]]
    BY <1>3, <2>2 DEF Turn, AddToBuckets
  <2>4. /\ \A b : b \in DOMAIN a <=> P(b) # {}
        /\ \A b \in DOMAIN a : Tells(a[b], l, P(b), b)
    BY DEF BucketsTell
  <2>5. \A b : P(b) \in SUBSET Int /\ \A j \in P(b) : j < k /\ j \in 1 .. k
    BY DEF Places
  <2> HIDE DEF P, Q, time
  <2>6. DOMAIN x = DOMAIN a \cup {time}
    BY <2>3
  <2>7. \A b : b \in DOMAIN x <=> Q(b) # {}
    BY <2>1, <2>4, <2>6
  <2>8. ASSUME NEW b \in DOMAIN x PROVE Tells(x[b], l, Q(b), b)
    <3>1. CASE b # time
      <4>1. x[b] = a[b] /\ Q(b) = P(b) /\ b \in DOMAIN a
        BY <2>1, <2>3, <2>6, <3>1
      <4>2. QED
        BY <2>4, <4>1
    <3>2. CASE b = time /\ b \in DOMAIN a
      <4>1. x[b] = Extend(a[b], l[k].price) /\ Q(b) = P(b) \cup {k}
        BY <2>1, <2>3, <2>6, <3>2
      <4>2. Tells(a[b], l, P(b), b)
        BY <2>4, <3>2
      <4>3. /\ P(b) \in SUBSET Int /\ k \in Int /\ \A j \in P(b) : j < k
            /\ \A j \in P(b) \cup {k} : l[j].price \in Int
        <5>1. \A j \in P(b) \cup {k} : j \in 1 .. k
          BY <2>5
        <5>2. QED
          BY <2>5, <5>1
      <4>4. Tells(Extend(a[b], l[k].price), l, P(b) \cup {k}, b)
        BY <4>2, <4>3, TellsMore
      <4>5. QED
        BY <4>1, <4>4
    <3>3. CASE b = time /\ b \notin DOMAIN a
      <4>1. x[b] = [time |-> b, open |-> l[k].price, high |-> l[k].price,
                    low |-> l[k].price, close |-> l[k].price]
        BY <2>3, <2>6, <3>3
      <4>2. Q(b) = {k}
        BY <2>1, <2>4, <3>3
      <4>3. l[k].price \in Int /\ k \in Int
        OBVIOUS
      <4>4. Tells([time |-> b, open |-> l[k].price, high |-> l[k].price,
                   low |-> l[k].price, close |-> l[k].price], l, {k}, b)
        BY <4>3, TellsFirst
      <4>5. QED
        BY <4>1, <4>2, <4>4
    <3>4. QED
      BY <2>6, <3>1, <3>2, <3>3
  <2>9. BucketsTell(x, l, s, k)
    BY <2>7, <2>8 DEF BucketsTell, Q
  <2>10. QED
    BY <2>2, <2>9
<1>4. QED
  BY <1>2, <1>3

\* All turns.
LEMMA LoopTells ==
  ASSUME NEW l, NEW s, NEW n \in Nat, \A i \in 1 .. n : l[i].price \in Int,
         NEW a, Loops(a, l, s, n)
  PROVE  BucketsTell(a[n], l, s, n)
<1> DEFINE T == {k \in 0 .. n : ~BucketsTell(a[k], l, s, k)}
<1>1. SUFFICES ASSUME T # {} PROVE FALSE
  <2>1. n \in 0 .. n
    OBVIOUS
  <2>2. QED
    BY <2>1
<1>2. PICK k \in T : \A j \in T : k <= j
  <2>1. T \subseteq Nat
    OBVIOUS
  <2> HIDE DEF T
  <2>2. QED
    BY <1>1, <2>1, LeastNat
<1>3. k \in 0 .. n /\ ~BucketsTell(a[k], l, s, k)
  BY <1>2
<1>4. k # 0
  <2>1. BucketsTell(NoBuckets, l, s, 0)
    <3>1. \A b : Places(l, s, b, 0) = {}
      BY DEF Places
    <3>2. DOMAIN NoBuckets = {}
      BY DEF NoBuckets
    <3>3. QED
      BY <3>1, <3>2 DEF BucketsTell
  <2>2. a[0] = NoBuckets
    BY DEF Loops
  <2>3. QED
    BY <1>3, <2>1, <2>2
<1>5. k - 1 \in 0 .. n /\ ~(k <= k - 1) /\ k \in 1 .. n
  BY <1>3, <1>4
<1>6. BucketsTell(a[k - 1], l, s, k - 1)
  BY <1>2, <1>5
<1>7. a[k] = Turn(a[k - 1], l[k], s)
  BY <1>5 DEF Loops
<1>8. BucketsTell(Turn(a[k - 1], l[k], s), l, s, k)
  <2>1. k \in Nat \ {0} /\ \A i \in 1 .. k : l[i].price \in Int
    BY <1>5
  <2>2. QED
    BY <1>6, <2>1, TurnTells
<1>9. QED
  BY <1>3, <1>7, <1>8

\* The candles of a list of trades, as ToCandles's sort takes them.
Earlier(C) == {p \in C \X C : p[1].time < p[2].time}

\* They are finitely many, and their times order them.
LEMMA BucketsOrdered ==
  ASSUME NEW l, NEW s, NEW n \in Nat, \A i \in 1 .. n : l[i].timestamp \in Nat,
         NEW a, BucketsTell(a, l, s, n)
  PROVE  /\ IsFiniteSet(Range(a)) /\ Arranges(Earlier(Range(a)), Range(a))
         /\ \A c \in Range(a) : c.time \in Int /\ c.time \in DOMAIN a /\ c = a[c.time]
         /\ \A b \in DOMAIN a : a[b] \in Range(a) /\ a[b].time = b
<1> DEFINE time(i) == BucketStart(l[i].timestamp)
           D == DOMAIN a
           C == Range(a)
<1>1. \A i \in 1 .. n : time(i) \in Int
  <2>1. SUFFICES ASSUME NEW i \in 1 .. n PROVE time(i) \in Int
    OBVIOUS
  <2>2. l[i].timestamp \in Int /\ BucketMs \in Nat \ {0}
    BY DashboardAssumption
  <2>3. QED
    BY <2>2, Quotient DEF BucketStart
<1>2. \A b \in D : \E i \in 1 .. n : b = time(i)
  <2>1. \A b \in D : Places(l, s, b, n) # {}
    BY DEF BucketsTell
  <2>2. QED
    BY <2>1 DEF Places
<1>3. \A b \in D : a[b].time = b /\ b \in Int
  <2>1. \A b \in D : Tells(a[b], l, Places(l, s, b, n), b)
    BY DEF BucketsTell
  <2>2. ASSUME NEW b \in D PROVE a[b].time = b
    <3>1. PICK c : c = a[b]
      OBVIOUS
    <3>2. Tells(c, l, Places(l, s, b, n), b)
      BY <2>1, <3>1
    <3>3. PICK o, h, w, z : c = [time |-> b, open |-> o, high |-> h, low |-> w, close |-> z]
      BY <3>2 DEF Tells
    <3>4. c.time = b
      BY <3>3
    <3>5. QED
      BY <3>1, <3>4
  <2>3. QED
    BY <1>1, <1>2, <2>2
<1>4. C = {a[b] : b \in D}
  BY DEF Range
<1> HIDE DEF C
<1>5. \A c \in C : c.time \in Int /\ c.time \in D /\ c = a[c.time]
  BY <1>3, <1>4
<1>6. IsFiniteSet(C)
  <2> DEFINE I == {time(i) : i \in 1 .. n}
  <2>1. IsFiniteSet(1 .. n)
    <3>1. 1 \in Int /\ n \in Int
      OBVIOUS
    <3>2. QED
      BY <3>1, FS_Interval
  <2>2. [i \in 1 .. n |-> time(i)] \in Surjection(1 .. n, I)
    BY DEF Surjection
  <2> HIDE DEF I
  <2>3. IsFiniteSet(I)
    BY <2>1, <2>2, FS_Surjection
  <2>4. D \in SUBSET I
    BY <1>2 DEF I
  <2> HIDE DEF D
  <2>5. IsFiniteSet(D)
    BY <2>3, <2>4, FS_Subset
  <2>6. [b \in D |-> a[b]] \in Surjection(D, C)
    BY <1>4 DEF Surjection
  <2>7. QED
    BY <2>5, <2>6, FS_Surjection
<1>7. Arranges(Earlier(C), C)
  <2>1. \A x, y \in C : <<x, y>> \in Earlier(C) <=> x.time < y.time
    BY DEF Earlier
  <2>2. \A x \in C : ~(x.time < x.time)
    BY <1>5
  <2>3. \A x, y \in C : x # y => x.time < y.time \/ y.time < x.time
    <3>1. SUFFICES ASSUME NEW x \in C, NEW y \in C, x # y
                   PROVE  x.time < y.time \/ y.time < x.time
      OBVIOUS
    <3>2. x.time # y.time /\ x.time \in Int /\ y.time \in Int
      BY <1>5, <3>1
    <3>3. QED
      BY <3>2
  <2>4. \A x, y, z \in C : x.time < y.time /\ y.time < z.time => x.time < z.time
    BY <1>5
  <2>5. QED
    BY <2>1, <2>2, <2>3, <2>4 DEF Arranges
<1>8. \A b \in D : a[b] \in C
  BY <1>4
<1>9. QED
  BY <1>3, <1>5, <1>6, <1>7, <1>8 DEF C

\* What CandlesFaithful says of one candle, and of one symbol.
Summarises(c, shown, s) ==
  LET places == Bucket(shown, s, c.time)
      paid == {shown[i].price : i \in places}
  IN /\ \E i \in places : c.open = shown[i].price /\ \A k \in places : k <= i
     /\ \E i \in places : c.close = shown[i].price /\ \A k \in places : i <= k
     /\ c.high \in paid /\ c.low \in paid
     /\ \A p \in paid : c.low <= p /\ p <= c.high

CandlesTell(candles, shown, s) ==
  /\ \A i, j \in DOMAIN candles : i < j => candles[i].time < candles[j].time
  /\ {candles[i].time : i \in DOMAIN candles} =
       {BucketStart(shown[i].timestamp) :
          i \in {k \in DOMAIN shown : shown[k].symbol = s}}
  /\ \A c \in Range(candles) : Summarises(c, shown, s)

\* The order of a candle's trades is the reverse of the places in the list.
LEMMA TellsReversed ==
  ASSUME NEW shown, NEW n \in Nat, DOMAIN shown = 1 .. n, NEW l,
         \A i \in 1 .. n : l[i] = shown[(n - i) + 1],
         NEW s, NEW b, NEW c, c.time = b, Tells(c, l, Places(l, s, b, n), b)
  PROVE  Summarises(c, shown, s)
<1> DEFINE P == Places(l, s, b, n)
           B == Bucket(shown, s, b)
<1>1. \A i \in 1 .. n : (n - i) + 1 \in 1 .. n /\ (n - ((n - i) + 1)) + 1 = i
  OBVIOUS
<1>2. \A i \in P : (n - i) + 1 \in B /\ l[i].price = shown[(n - i) + 1].price /\ i \in 1 .. n
  BY <1>1 DEF Places, Bucket
<1>3. \A i \in B : (n - i) + 1 \in P /\ l[(n - i) + 1].price = shown[i].price /\ i \in 1 .. n
  BY <1>1 DEF Places, Bucket
<1>4. /\ \E i \in P : c.open = l[i].price /\ \A j \in P : i <= j
      /\ \E i \in P : c.close = l[i].price /\ \A j \in P : j <= i
      /\ \E i \in P : c.high = l[i].price
      /\ \E i \in P : c.low = l[i].price
      /\ \A j \in P : c.low <= l[j].price /\ l[j].price <= c.high
  BY DEF Tells
<1> HIDE DEF P, B
<1>5. \E i \in B : c.open = shown[i].price /\ \A k \in B : k <= i
  <2>1. PICK i \in P : c.open = l[i].price /\ \A j \in P : i <= j
    BY <1>4
  <2>2. ASSUME NEW k \in B PROVE k <= (n - i) + 1
    <3>1. i <= (n - k) + 1 /\ i \in Int /\ k \in Int
      BY <1>2, <1>3, <2>1
    <3>2. QED
      BY <3>1
  <2>3. QED
    BY <1>2, <2>1, <2>2
<1>6. \E i \in B : c.close = shown[i].price /\ \A k \in B : i <= k
  <2>1. PICK i \in P : c.close = l[i].price /\ \A j \in P : j <= i
    BY <1>4
  <2>2. ASSUME NEW k \in B PROVE (n - i) + 1 <= k
    <3>1. (n - k) + 1 <= i /\ i \in Int /\ k \in Int
      BY <1>2, <1>3, <2>1
    <3>2. QED
      BY <3>1
  <2>3. QED
    BY <1>2, <2>1, <2>2
<1>7. /\ \E i \in B : c.high = shown[i].price
      /\ \E i \in B : c.low = shown[i].price
  BY <1>2, <1>4
<1>8. \A i \in B : c.low <= shown[i].price /\ shown[i].price <= c.high
  <2>1. SUFFICES ASSUME NEW i \in B
                 PROVE  c.low <= shown[i].price /\ shown[i].price <= c.high
    OBVIOUS
  <2>2. PICK j \in P : l[j].price = shown[i].price
    BY <1>3
  <2>3. c.low <= l[j].price /\ l[j].price <= c.high
    BY <1>4
  <2>4. QED
    BY <2>2, <2>3
<1>9. QED
  <2>1. B = Bucket(shown, s, c.time)
    BY DEF B
  <2>2. QED
    BY <1>5, <1>6, <1>7, <1>8, <2>1 DEF Summarises

\* The candles of any list of trades.
LEMMA CandlesOfTrades ==
  ASSUME NEW shown \in Seq(Message),
         \A i \in DOMAIN shown : shown[i].price \in Int /\ shown[i].timestamp \in Nat,
         NEW s
  PROVE  CandlesTell(ToCandles(shown, s), shown, s)
<1> DEFINE l == Reverse(shown)
           a == BucketsOf(l, s)
           C == Range(a)
<1>1. PICK n \in Nat : n = Len(shown) /\ DOMAIN shown = 1 .. n
  OBVIOUS
<1>2. /\ DOMAIN l = 1 .. n
      /\ \A i \in 1 .. n : l[i] = shown[(n - i) + 1] /\ (n - i) + 1 \in 1 .. n
  BY <1>1 DEF Reverse
<1> HIDE DEF l
<1>3. \A i \in 1 .. n : l[i].price \in Int /\ l[i].timestamp \in Nat
  BY <1>1, <1>2
<1>4. BucketsTell(a, l, s, n)
  <2>1. PICK x : Loops(x, l, s, n) /\ BucketsOf(l, s) = x[n]
    BY <1>2, LoopTurns
  <2>2. BucketsTell(x[n], l, s, n)
    BY <1>3, <2>1, LoopTells
  <2>3. QED
    BY <2>1, <2>2
<1>5. PICK q : q = ToCandles(shown, s)
  OBVIOUS
<1>6. q = CHOOSE x \in SetToSeqs(C) : \A i, j \in DOMAIN x : i < j => x[i].time < x[j].time
  BY <1>5 DEF ToCandles, BucketsOf, l
<1> HIDE DEF a
<1>7. /\ IsFiniteSet(C) /\ Arranges(Earlier(C), C)
      /\ \A c \in C : c.time \in Int /\ c.time \in DOMAIN a /\ c = a[c.time]
      /\ \A b \in DOMAIN a : a[b] \in C /\ a[b].time = b
  <2>1. \A i \in 1 .. n : l[i].timestamp \in Nat
    BY <1>3
  <2>2. QED
    BY <1>4, <2>1, BucketsOrdered
<1> HIDE DEF C
<1>8. \A x \in SetToSeqs(C) : \A i \in DOMAIN x : x[i] \in C
  BY DEF SetToSeqs
<1>9. PICK x : Listed(x, C, Earlier(C))
  BY <1>7, SortedListing
<1>10. x \in SetToSeqs(C) /\ \A i, j \in DOMAIN x : i < j => x[i].time < x[j].time
  <2>1. x \in SetToSeqs(C) /\ \A i, j \in DOMAIN x : i < j => <<x[i], x[j]>> \in Earlier(C)
    BY <1>9 DEF Listed
  <2>2. \A c, d : <<c, d>> \in Earlier(C) => c.time < d.time
    BY DEF Earlier
  <2>3. QED
    BY <2>1, <2>2
<1>11. q \in SetToSeqs(C) /\ \A i, j \in DOMAIN q : i < j => q[i].time < q[j].time
  BY <1>6, <1>10
<1>12. Range(q) = C
  <2> DEFINE m == Cardinality(C)
  <2>1. m \in Nat
    BY <1>7, FS_CardinalityType
  <2>2. q \in [1 .. m -> C] /\ \A i, j \in 1 .. m : i # j => q[i] # q[j]
    BY <1>11 DEF SetToSeqs
  <2> HIDE DEF m
  <2>3. q \in Injection(1 .. m, C)
    BY <2>2 DEF Injection, IsInjective
  <2>4. IsFiniteSet(1 .. m) /\ Cardinality(1 .. m) = m
    BY <2>1, FS_Interval
  <2>5. q \in Surjection(1 .. m, C)
    BY <1>7, <2>3, <2>4, FS_Injection DEF m
  <2>6. QED
    BY <2>2, <2>5 DEF Surjection, Range
<1>13. {q[i].time : i \in DOMAIN q} = DOMAIN a
  <2>1. \A c : c \in C <=> \E i \in DOMAIN q : c = q[i]
    BY <1>12 DEF Range
  <2>2. \A b : b \in DOMAIN a <=> \E c \in C : b = c.time
    BY <1>7
  <2>3. \A b : b \in DOMAIN a <=> \E i \in DOMAIN q : b = q[i].time
    BY <2>1, <2>2
  <2>4. QED
    BY <2>3
<1>14. DOMAIN a = {BucketStart(shown[i].timestamp) :
                     i \in {k \in DOMAIN shown : shown[k].symbol = s}}
  <2>1. \A b : b \in DOMAIN a <=> Places(l, s, b, n) # {}
    BY <1>4 DEF BucketsTell
  <2>2. \A b : Places(l, s, b, n) # {} <=>
               \E i \in 1 .. n : l[i].symbol = s /\ BucketStart(l[i].timestamp) = b
    BY DEF Places
  <2>3. ASSUME NEW b
        PROVE  (\E i \in 1 .. n : l[i].symbol = s /\ BucketStart(l[i].timestamp) = b)
               <=> \E i \in 1 .. n : shown[i].symbol = s /\ BucketStart(shown[i].timestamp) = b
    <3>1. \A i \in 1 .. n : (n - i) + 1 \in 1 .. n /\ l[(n - i) + 1] = shown[i]
      <4>1. \A i \in 1 .. n : (n - i) + 1 \in 1 .. n /\ (n - ((n - i) + 1)) + 1 = i
        OBVIOUS
      <4>2. QED
        BY <1>2, <4>1
    <3>2. QED
      BY <1>2, <3>1
  <2>4. QED
    BY <1>1, <2>1, <2>2, <2>3
<1>15. ASSUME NEW c \in Range(q) PROVE Summarises(c, shown, s)
  <2>1. PICK b \in DOMAIN a : b = c.time /\ c = a[b]
    BY <1>7, <1>12, <1>15
  <2>2. Tells(c, l, Places(l, s, b, n), b)
    BY <1>4, <2>1 DEF BucketsTell
  <2>3. \A i \in 1 .. n : l[i] = shown[(n - i) + 1]
    BY <1>2
  <2>4. n \in Nat /\ DOMAIN shown = 1 .. n /\ c.time = b
    BY <1>1, <2>1
  <2>5. QED
    BY <2>2, <2>3, <2>4, TellsReversed
<1>16. CandlesTell(q, shown, s)
  BY <1>11, <1>13, <1>14, <1>15 DEF CandlesTell
<1>17. QED
  BY <1>5, <1>16

\* What is shown as trades are trades.
LEMMA TradesAreTrades ==
  ASSUME ConnectionInv, WiresInv, ShownInv
  PROVE  LET shown == [i \in DOMAIN trades |-> feed[trades[i]]]
         IN /\ shown \in Seq(Message)
            /\ \A i \in DOMAIN shown : shown[i].price \in Int /\ shown[i].timestamp \in Nat
<1> DEFINE shown == [i \in DOMAIN trades |-> feed[trades[i]]]
<1>1. feed \in Seq(Message) /\ trades \in Seq(Nat) /\ seen \in Seq(Nat)
      /\ \A j \in DOMAIN seen : seen[j] \in 1 .. Len(feed)
  BY DEF ConnectionInv, TypeOK, WiresInv, ShownInv
<1>2. \A k \in DOMAIN trades : \E i \in On(seen, feed, "trades") : trades[k] = seen[i]
  BY DEF ShownInv, Newest
<1>3. ASSUME NEW k \in DOMAIN trades
      PROVE  /\ feed[trades[k]] \in Message
             /\ feed[trades[k]].price \in Int /\ feed[trades[k]].timestamp \in Nat
  <2>1. PICK i \in DOMAIN seen : trades[k] = seen[i] /\ feed[seen[i]].channel = "trades"
    BY <1>2, <1>3 DEF On
  <2>2. seen[i] \in DOMAIN feed
    BY <1>1, <2>1
  <2>3. feed[trades[k]] \in Message /\ feed[trades[k]].channel = "trades"
    BY <1>1, <2>1, <2>2
  <2>4. QED
    BY <2>3, DashboardAssumption
<1>4. PICK n \in Nat : DOMAIN trades = 1 .. n
  BY <1>1
<1>5. shown \in [1 .. n -> Message] /\ \A i \in DOMAIN shown : shown[i] = feed[trades[i]]
  BY <1>3, <1>4
<1>6. shown \in Seq(Message)
  BY <1>5
<1>7. QED
  BY <1>3, <1>5, <1>6

\* CandlesFaithful holds in every reachable state: toCandles draws one candle
\* per bucket with a trade, in order of time, that opens with the first trade
\* to arrive, closes with the last and spans the others, for any trades, any
\* limit of the list and any width of a bucket.
THEOREM CandlesAreFaithful == Spec => []CandlesFaithful
<1>1. ConnectionInv /\ WiresInv /\ [Next]_vars => WiresInv'
  BY StepWires
<1>2. ConnectionInv /\ WiresInv /\ ShownInv /\ [Next]_vars => ShownInv'
  BY StepShown
<1>3. ConnectionInv /\ WiresInv /\ ShownInv => CandlesFaithful
  <2> DEFINE shown == [i \in DOMAIN trades |-> feed[trades[i]]]
  <2>1. SUFFICES ASSUME ConnectionInv, WiresInv, ShownInv PROVE CandlesFaithful
    OBVIOUS
  <2>2. /\ shown \in Seq(Message)
        /\ \A i \in DOMAIN shown : shown[i].price \in Int /\ shown[i].timestamp \in Nat
    BY <2>1, TradesAreTrades
  <2> HIDE DEF shown
  <2>3. \A s \in Symbol : CandlesTell(ToCandles(shown, s), shown, s)
    BY <2>2, CandlesOfTrades
  <2>4. \A s \in Symbol :
          LET candles == ToCandles(shown, s)
          IN /\ \A i, j \in DOMAIN candles : i < j => candles[i].time < candles[j].time
             /\ {candles[i].time : i \in DOMAIN candles} =
                  {BucketStart(shown[i].timestamp) :
                     i \in {k \in DOMAIN shown : shown[k].symbol = s}}
             /\ \A c \in Range(candles) : Summarises(c, shown, s)
    BY <2>3 DEF CandlesTell
  <2>5. QED
    BY <2>4 DEF CandlesFaithful, Summarises, shown
<1>4. QED
  BY <1>1, <1>2, <1>3, InitWires, InitShown, Connected, PTL DEF Spec

-----------------------------------------------------------------------------
(* The hook as the other end of Relay. *)

\* What the hook is to Relay: the sockets the bridge sends to, and their wires.
Members == {i \in DOMAIN sockets : sockets[i].joined}

Wires == [i \in 1 .. MaxSockets |->
            IF i \in DOMAIN sockets THEN sockets[i].wire ELSE <<>>]

\* Sockets are connections of the relay.
SocketsBounded == Len(sockets) <= MaxSockets

\* The initial state.
LEMMA InitReads == Init => SocketsBounded /\ Bridge!Init
<1> SUFFICES ASSUME Init PROVE SocketsBounded /\ Bridge!Init
  OBVIOUS
<1>1. /\ Len(sockets) = 1 /\ DOMAIN sockets = {1} /\ Len(feed) = 0
      /\ sockets[1].wire = <<>> /\ sockets[1].joined = FALSE
  BY DEF Init, NewSocket
<1>2. 1 <= MaxSockets
  BY DashboardAssumption
<1>3. Members = {} /\ Wires = [i \in 1 .. MaxSockets |-> <<>>]
  BY <1>1 DEF Members, Wires
<1>4. QED
  BY <1>1, <1>2, <1>3 DEF SocketsBounded, Bridge!Init, Members, Wires

\* A step that only touches what the relay sees of one socket, and adds sockets
\* that are new.
LEMMA OneWire ==
  ASSUME ConnectionInv, SocketsBounded, SocketsBounded', NEW i \in DOMAIN sockets,
         sockets' \in Seq(SocketType), DOMAIN sockets \subseteq DOMAIN sockets',
         \A j \in DOMAIN sockets' \ DOMAIN sockets :
           sockets'[j].wire = <<>> /\ ~sockets'[j].joined,
         \A j \in DOMAIN sockets \ {i} :
           sockets'[j].wire = sockets[j].wire /\ sockets'[j].joined = sockets[j].joined
  PROVE  /\ Wires' = [Wires EXCEPT ![i] = sockets'[i].wire]
         /\ Members' \ {i} = Members \ {i}
         /\ i \in Members' <=> sockets'[i].joined
         /\ i \in Members <=> sockets[i].joined
         /\ i \in 1 .. MaxSockets
<1>1. /\ sockets \in Seq(SocketType)
      /\ DOMAIN sockets = 1 .. Len(sockets) /\ DOMAIN sockets' = 1 .. Len(sockets')
      /\ Len(sockets) \in Nat /\ Len(sockets') \in Nat /\ MaxSockets \in Nat
  BY DashboardAssumption DEF ConnectionInv, TypeOK
<1>2. DOMAIN sockets \subseteq 1 .. MaxSockets /\ DOMAIN sockets' \subseteq 1 .. MaxSockets
  BY <1>1 DEF SocketsBounded
<1>3. ASSUME NEW j \in 1 .. MaxSockets
      PROVE  Wires'[j] = IF j = i THEN sockets'[i].wire ELSE Wires[j]
  <2>1. Wires'[j] = IF j \in DOMAIN sockets' THEN sockets'[j].wire ELSE <<>>
    BY DEF Wires
  <2>2. Wires[j] = IF j \in DOMAIN sockets THEN sockets[j].wire ELSE <<>>
    BY DEF Wires
  <2>3. QED
    BY <2>1, <2>2
<1>4. /\ Wires' = [j \in 1 .. MaxSockets |-> Wires'[j]]
      /\ Wires = [j \in 1 .. MaxSockets |-> Wires[j]]
  BY DEF Wires
<1>5. Wires' = [Wires EXCEPT ![i] = sockets'[i].wire]
  BY <1>2, <1>3, <1>4
<1>6. \A j \in DOMAIN sockets' \ {i} : sockets'[j].joined <=> j \in Members
  BY DEF Members
<1>7. Members' \ {i} = Members \ {i}
  <2>1. Members' = {j \in DOMAIN sockets' : sockets'[j].joined}
    BY DEF Members
  <2>2. \A j : j \in Members' \ {i} <=> j \in Members \ {i}
    BY <1>6, <2>1 DEF Members
  <2>3. QED
    BY <2>2
<1>8. QED
  BY <1>2, <1>5, <1>7 DEF Members

\* A step after which the wire of one socket is as it was, or is discarded.
LEMMA StepDiscards ==
  ASSUME ConnectionInv, SocketsBounded, SocketsBounded', NEW i \in DOMAIN sockets,
         sockets' \in Seq(SocketType), DOMAIN sockets \subseteq DOMAIN sockets',
         \A j \in DOMAIN sockets' \ DOMAIN sockets :
           sockets'[j].wire = <<>> /\ ~sockets'[j].joined,
         \A j \in DOMAIN sockets \ {i} :
           sockets'[j].wire = sockets[j].wire /\ sockets'[j].joined = sockets[j].joined,
         sockets'[i].joined = sockets[i].joined,
         sockets'[i].wire \in {sockets[i].wire, <<>>}, feed' = feed
  PROVE  [Bridge!Next]_(Bridge!relayVars)
<1>1. /\ Wires' = [Wires EXCEPT ![i] = sockets'[i].wire]
      /\ Members' = Members /\ i \in 1 .. MaxSockets
  <2>1. /\ Wires' = [Wires EXCEPT ![i] = sockets'[i].wire]
        /\ Members' \ {i} = Members \ {i}
        /\ i \in Members' <=> sockets'[i].joined
        /\ i \in Members <=> sockets[i].joined
        /\ i \in 1 .. MaxSockets
    BY OneWire
  <2>2. i \in Members' <=> i \in Members
    BY <2>1
  <2>3. \A j : j \in Members' <=> j \in Members
    BY <2>1, <2>2
  <2>4. Members' = Members
    BY <2>3
  <2>5. QED
    BY <2>1, <2>4
<1>2. Len(feed)' = Len(feed)
  OBVIOUS
<1>3. CASE sockets'[i].wire = <<>>
  <2>1. Bridge!Discard(i)
    BY <1>1, <1>2, <1>3 DEF Bridge!Discard, Members, Wires
  <2>2. QED
    BY <1>1, <2>1 DEF Bridge!Next
<1>4. CASE sockets'[i].wire = sockets[i].wire
  <2>1. Wires[i] = sockets[i].wire
    BY <1>1 DEF Wires
  <2>2. Wires = [j \in 1 .. MaxSockets |-> Wires[j]]
    BY DEF Wires
  <2>3. Wires' = Wires
    BY <1>1, <1>4, <2>1, <2>2
  <2>4. UNCHANGED Bridge!relayVars
    BY <1>1, <1>2, <2>3 DEF Bridge!relayVars, Members, Wires
  <2>5. QED
    BY <2>4
<1>5. QED
  BY <1>3, <1>4

\* Sockets are only added below the bound.
LEMMA StepBounded == ConnectionInv /\ SocketsBounded /\ [Next]_vars => SocketsBounded'
<1> SUFFICES ASSUME ConnectionInv, SocketsBounded, [Next]_vars PROVE SocketsBounded'
  OBVIOUS
<1>1. /\ TypeOK /\ sockets \in Seq(SocketType) /\ Len(sockets) \in Nat
      /\ MaxSockets \in Nat /\ Len(sockets) <= MaxSockets
  BY DashboardAssumption DEF ConnectionInv, TypeOK, SocketsBounded
<1>2. /\ Closing(sockets) \in Seq(SocketType) /\ Len(Closing(sockets)) = Len(sockets)
  BY <1>1, ClosingClosesRef
<1>3. CASE Remount
  <2>1. PICK c \in Seq(SocketType) : c = Closing(sockets)
    BY <1>2
  <2>2. sockets' = Append(c, NewSocket(effect + 1)) /\ Len(sockets) < MaxSockets
    BY <1>3, <2>1 DEF Remount
  <2>3. Len(sockets') = Len(sockets) + 1
    BY <1>2, <2>1, <2>2
  <2>4. QED
    BY <1>1, <2>2, <2>3 DEF SocketsBounded
<1>4. CASE Unmount
  BY <1>1, <1>2, <1>4 DEF Unmount, SocketsBounded
<1>5. ASSUME NEW run \in 1 .. MaxEffects, Reconnect(run) PROVE SocketsBounded'
  <2>1. sockets' = Append(sockets, NewSocket(run)) /\ Len(sockets) < MaxSockets
    BY <1>5 DEF Reconnect
  <2>2. Len(sockets') = Len(sockets) + 1
    BY <1>1, <2>1
  <2>3. QED
    BY <1>1, <2>1, <2>2 DEF SocketsBounded
<1>6. ASSUME NEW i \in DOMAIN sockets,
             \/ Joined(i) \/ Open(i) \/ Closed(i) \/ Deliver(i) \/ OnMessage(i)
      PROVE  SocketsBounded'
  <2>1. \E v : sockets' = [sockets EXCEPT ![i] = v]
    BY <1>6 DEF Joined, Open, Closed, Deliver, OnMessage
  <2>2. Len(sockets') = Len(sockets)
    BY <1>1, <2>1
  <2>3. QED
    BY <1>1, <2>2 DEF SocketsBounded
<1>7. ASSUME NEW m \in Message, Forward(m) PROVE SocketsBounded'
  BY <1>7 DEF Forward, SocketsBounded
<1>8. CASE UNCHANGED vars
  BY <1>8 DEF vars, SocketsBounded
<1>9. \A i \in DOMAIN sockets : CloseEvent(i) \/ Drop(i) => Closed(i)
  BY DEF CloseEvent, Drop
<1>10. QED
  BY <1>3, <1>4, <1>5, <1>6, <1>7, <1>8, <1>9 DEF Next, Due

\* Every step of the hook is one of the relay, as its other end.
LEMMA StepReads ==
  ASSUME ConnectionInv, ConnectionInv', SocketsBounded, SocketsBounded', [Next]_vars
  PROVE  [Bridge!Next]_(Bridge!relayVars)
<1>1. /\ TypeOK /\ sockets \in Seq(SocketType) /\ ref \in DOMAIN sockets
      /\ DOMAIN sockets = 1 .. Len(sockets) /\ Len(sockets) \in Nat
      /\ \A i \in DOMAIN sockets : sockets[i] \in SocketType
      /\ sockets' \in Seq(SocketType)
  BY DEF ConnectionInv, TypeOK
<1>2. \A i \in DOMAIN sockets : i \in 1 .. MaxSockets
  <2>1. MaxSockets \in Nat
    BY DashboardAssumption
  <2>2. QED
    BY <1>1, <2>1 DEF SocketsBounded
<1>3. PICK c : c = Closing(sockets)
  OBVIOUS
<1>4. /\ c \in Seq(SocketType) /\ Len(c) = Len(sockets) /\ DOMAIN c = DOMAIN sockets
      /\ \A i \in DOMAIN sockets : i # ref => c[i] = sockets[i]
      /\ c[ref].joined = sockets[ref].joined /\ c[ref].wire \in {sockets[ref].wire, <<>>}
  BY <1>1, <1>3, ClosingClosesRef, ClosingSockets
<1>5. CASE Remount
  <2> DEFINE k == Len(sockets) + 1
  <2>1. sockets' = Append(c, NewSocket(effect + 1)) /\ feed' = feed
    BY <1>3, <1>5 DEF Remount
  <2>2. /\ DOMAIN sockets' = DOMAIN sockets \cup {k} /\ k \notin DOMAIN sockets
        /\ \A i \in DOMAIN sockets : sockets'[i] = c[i]
        /\ sockets'[k].wire = <<>> /\ sockets'[k].joined = FALSE
    BY <1>1, <1>4, <2>1 DEF NewSocket
  <2> HIDE DEF k
  <2>3. /\ DOMAIN sockets \subseteq DOMAIN sockets'
        /\ \A j \in DOMAIN sockets' \ DOMAIN sockets :
             sockets'[j].wire = <<>> /\ ~sockets'[j].joined
    BY <2>2
  <2>4. \A j \in DOMAIN sockets \ {ref} :
          sockets'[j].wire = sockets[j].wire /\ sockets'[j].joined = sockets[j].joined
    BY <1>4, <2>2
  <2>5. QED
    BY <1>1, <1>4, <2>1, <2>2, <2>3, <2>4, StepDiscards
<1>6. CASE Unmount
  <2>1. sockets' = c /\ feed' = feed
    BY <1>3, <1>6 DEF Unmount
  <2>2. QED
    BY <1>1, <1>4, <2>1, StepDiscards
<1>7. ASSUME NEW run \in 1 .. MaxEffects, Reconnect(run)
      PROVE  [Bridge!Next]_(Bridge!relayVars)
  <2> DEFINE k == Len(sockets) + 1
  <2>1. sockets' = Append(sockets, NewSocket(run)) /\ feed' = feed
    BY <1>7 DEF Reconnect
  <2>2. /\ DOMAIN sockets' = DOMAIN sockets \cup {k} /\ k \notin DOMAIN sockets
        /\ \A i \in DOMAIN sockets : sockets'[i] = sockets[i]
        /\ sockets'[k].wire = <<>> /\ sockets'[k].joined = FALSE
    BY <1>1, <2>1 DEF NewSocket
  <2> HIDE DEF k
  <2>3. /\ DOMAIN sockets \subseteq DOMAIN sockets'
        /\ \A j \in DOMAIN sockets' \ DOMAIN sockets :
             sockets'[j].wire = <<>> /\ ~sockets'[j].joined
    BY <2>2
  <2>4. QED
    BY <1>1, <2>1, <2>2, <2>3, StepDiscards
<1>8. ASSUME NEW i \in DOMAIN sockets, Joined(i) PROVE Bridge!Next
  BY <1>2, <1>8 DEF Joined, Bridge!Next
<1>9. ASSUME NEW i \in DOMAIN sockets, Deliver(i) PROVE Bridge!Next
  BY <1>2, <1>9 DEF Deliver, Bridge!Next
<1>10. ASSUME NEW m \in Message, Forward(m) PROVE Bridge!Next
  BY <1>10 DEF Forward, Bridge!Next
<1>11. ASSUME NEW i \in DOMAIN sockets, Open(i)
       PROVE  [Bridge!Next]_(Bridge!relayVars)
  <2> DEFINE v == [sockets[i] EXCEPT !.state = "open"]
  <2>1. v.wire = sockets[i].wire /\ v.joined = sockets[i].joined
    BY <1>1 DEF SocketType
  <2>2. sockets' = [sockets EXCEPT ![i] = v] /\ feed' = feed
    BY <1>11 DEF Open
  <2> HIDE DEF v
  <2>3. DOMAIN sockets' = DOMAIN sockets /\ sockets'[i] = v
        /\ \A j \in DOMAIN sockets : j # i => sockets'[j] = sockets[j]
    BY <1>1, <2>2, OneSocket
  <2>4. QED
    BY <1>1, <2>1, <2>2, <2>3, StepDiscards
<1>12. ASSUME NEW i \in DOMAIN sockets, Closed(i) PROVE Bridge!Next
  <2> DEFINE v == [sockets[i] EXCEPT !.state = "closed", !.joined = FALSE, !.wire = <<>>]
  <2>1. v.wire = <<>> /\ ~v.joined
    BY <1>1 DEF SocketType
  <2>2. sockets' = [sockets EXCEPT ![i] = v] /\ feed' = feed
    BY <1>12 DEF Closed
  <2> HIDE DEF v
  <2>3. DOMAIN sockets' = DOMAIN sockets /\ sockets'[i] = v
        /\ \A j \in DOMAIN sockets : j # i => sockets'[j] = sockets[j]
    BY <1>1, <2>2, OneSocket
  <2>4. /\ Wires' = [Wires EXCEPT ![i] = <<>>] /\ Members' \ {i} = Members \ {i}
        /\ i \notin Members'
    BY <1>1, <2>1, <2>3, OneWire
  <2>5. Members' = Members \ {i} /\ Len(feed)' = Len(feed)
    BY <2>2, <2>4
  <2>6. Bridge!Lose(i)
    BY <2>4, <2>5 DEF Bridge!Lose, Members, Wires
  <2>7. QED
    BY <1>2, <2>6 DEF Bridge!Next
<1>13. ASSUME NEW i \in DOMAIN sockets, OnMessage(i) PROVE Bridge!Next
  <2> DEFINE w == sockets[i].wire
             v == [sockets[i] EXCEPT !.wire = Tail(w)]
  <2>1. v.wire = Tail(w) /\ v.joined = sockets[i].joined
    BY <1>1 DEF SocketType
  <2>2. sockets' = [sockets EXCEPT ![i] = v] /\ feed' = feed /\ w # <<>>
    BY <1>13 DEF OnMessage
  <2> HIDE DEF v
  <2>3. DOMAIN sockets' = DOMAIN sockets /\ sockets'[i] = v
        /\ \A j \in DOMAIN sockets : j # i => sockets'[j] = sockets[j]
    BY <1>1, <2>2, OneSocket
  <2>4. /\ Wires' = [Wires EXCEPT ![i] = Tail(w)] /\ Members' \ {i} = Members \ {i}
        /\ i \in Members' <=> v.joined
        /\ i \in Members <=> sockets[i].joined
    BY <1>1, <2>1, <2>3, OneWire
  <2>5. Members' = Members /\ Len(feed)' = Len(feed)
    BY <2>1, <2>2, <2>4
  <2>6. Wires[i] = w
    BY <1>2 DEF Wires
  <2>7. Wires[i] # <<>> /\ Wires' = [Wires EXCEPT ![i] = Tail(Wires[i])]
    BY <2>2, <2>4, <2>6
  <2>8. Bridge!Read(i)
    <3>1. Bridge!Read(i) <=> /\ Wires[i] # <<>>
                             /\ Wires' = [Wires EXCEPT ![i] = Tail(Wires[i])]
                             /\ Len(feed)' = Len(feed) /\ Members' = Members
      BY DEF Bridge!Read, Members, Wires
    <3>2. QED
      BY <2>5, <2>7, <3>1
  <2>9. QED
    BY <1>2, <2>8 DEF Bridge!Next
<1>14. CASE UNCHANGED vars
  <2>1. sockets' = sockets /\ feed' = feed
    BY <1>14 DEF vars
  <2>2. UNCHANGED Bridge!relayVars
    BY <2>1 DEF Bridge!relayVars
  <2>3. QED
    BY <2>2
<1>15. \A i \in DOMAIN sockets : CloseEvent(i) \/ Drop(i) => Closed(i)
  BY DEF CloseEvent, Drop
<1>16. QED
  BY <1>5, <1>6, <1>7, <1>8, <1>9, <1>10, <1>11, <1>12, <1>13, <1>14, <1>15
  DEF Next, Due

\* The hook with its bridge implements Relay, the promise Bridge implements:
\* superseding, dropping and reading sockets is what Relay lets the other end
\* do, so the two modules fit, for any number of sockets and messages.
THEOREM HookFitsRelay == Spec => ReadsRelay
<1>1. ConnectionInv /\ ConnectionInv' /\ SocketsBounded /\ SocketsBounded' /\ [Next]_vars
        => [Bridge!Next]_(Bridge!relayVars)
  BY StepReads
<1>2. QED
  BY <1>1, InitReads, StepBounded, Connected, PTL DEF Spec, ReadsRelay, Bridge!Spec
=============================================================================
