---------------------------- MODULE GrpcServerProofs ----------------------------
(***************************************************************************)
(* What grpc_server.go guards with its two mutexes: the books (booksMu,    *)
(* BookRegistry), for any number of calls and symbols; and the subscribers *)
(* (subMu, TradeStream): what every streaming client sees, for any number  *)
(* of calls, trades and clients and any size of the channels, whoever      *)
(* joins, leaves or lags.  The two share no variable.                      *)
(***************************************************************************)
EXTENDS BookRegistry, TradeStream, SequenceTheorems, TLAPS

-----------------------------------------------------------------------------
(* The registry of the books. *)

\* The initial state.
LEMMA InitRegistryInv == RegistryInit => RegistryInv
BY RegistryAssumption DEF RegistryInit, RegistryInv, RegistryTypeOK, Places

\* One step per action: each moves one call and touches what the call owns.
LEMMA NextRegistryInv ==
  ASSUME RegistryInv, [RegistryNext]_registryVars
  PROVE  RegistryInv'
<1> USE RegistryAssumption DEF RegistryInv, RegistryTypeOK, Places
<1>1. ASSUME NEW c \in Lookup, RLock(c) PROVE RegistryInv'
  BY <1>1 DEF RLock
<1>2. ASSUME NEW c \in Lookup, RUnlock(c) PROVE RegistryInv'
  BY <1>2 DEF RUnlock
<1>3. ASSUME NEW c \in Lookup, Claim(c) PROVE RegistryInv'
  BY <1>3 DEF Claim
<1>4. ASSUME NEW c \in Lookup, Lock(c) PROVE RegistryInv'
  BY <1>4 DEF Lock
<1>5. ASSUME NEW c \in Lookup, FindOrCreate(c) PROVE RegistryInv'
  BY <1>5 DEF FindOrCreate
<1>6. CASE UNCHANGED registryVars
  BY <1>6 DEF registryVars
<1> QED BY <1>1, <1>2, <1>3, <1>4, <1>5, <1>6 DEF RegistryNext, Step

\* bookFor's locks keep readers and writers apart, and every call that has a
\* book, or returns, has the registered one.
THEOREM RegistryInvariance == RegistrySpec => []RegistryInv
<1>1. RegistryInit => RegistryInv
  BY InitRegistryInv
<1>2. RegistryInv /\ [RegistryNext]_registryVars => RegistryInv'
  BY NextRegistryInv
<1> QED BY <1>1, <1>2, PTL DEF RegistrySpec

\* However many calls race to create a symbol's book, they all get one book.
THEOREM AllCallsAgree == RegistrySpec => []OneBookPerSymbol
<1>1. RegistryInv => OneBookPerSymbol
  BY DEF RegistryInv, OneBookPerSymbol
<1> QED BY <1>1, RegistryInvariance, PTL

\* No call reads the map while another may write it.
THEOREM MapRaceFree == RegistrySpec => []Exclusive
<1>1. RegistryInv => Exclusive
  <2> SUFFICES ASSUME RegistryInv, NEW c \in Lookup, pc[c] = "writing",
                      NEW d \in Lookup, pc[d] \in {"claimed", "writing"}
               PROVE  readers = {} /\ d = c
    BY DEF Exclusive, RegistryInv
  <2> QED BY DEF RegistryInv
<1> QED BY <1>1, RegistryInvariance, PTL

\* A registered book stays registered.
THEOREM BooksStay == RegistrySpec => BookForLife
<1>1. RegistryInv /\ [RegistryNext]_registryVars =>
        [\A s \in Symbol : books[s] # NoBook => books'[s] = books[s]]_registryVars
  <2> SUFFICES ASSUME RegistryInv, RegistryNext
               PROVE  \A s \in Symbol : books[s] # NoBook => books'[s] = books[s]
    OBVIOUS
  <2>1. PICK c \in Lookup : Step(c)
    BY DEF RegistryNext
  <2>2. CASE FindOrCreate(c)
    BY <2>2 DEF FindOrCreate, RegistryInv, RegistryTypeOK
  <2>3. CASE RLock(c) \/ RUnlock(c) \/ Claim(c) \/ Lock(c)
    BY <2>3 DEF RLock, RUnlock, Claim, Lock
  <2> QED BY <2>1, <2>2, <2>3 DEF Step
<1> QED BY <1>1, RegistryInvariance, PTL DEF RegistrySpec, BookForLife

-----------------------------------------------------------------------------
(* The fan-out. *)

\* The call that holds the lock is the one that sends, it is at one of its
\* trades, and that trade is the last one fanned out.
Sending ==
  /\ \A c \in Call : batch[c] = "sending" <=> sender = c
  /\ sender = None => todo = {} /\ next = 0
  /\ sender # None => /\ next \in 1 .. trades[sender]
                      /\ log # <<>> /\ log[Len(log)] = <<sender, next>>

\* What was fanned out belongs to calls that began, up to the trade they are at.
Begun ==
  \A i \in 1 .. Len(log) :
    /\ batch[log[i][1]] # "ready"
    /\ log[i][2] \in 1 .. trades[log[i][1]]
    /\ log[i][1] = sender => log[i][2] <= next

\* Nothing is fanned out twice.
NoRepeats == \A i, j \in 1 .. Len(log) : log[i] = log[j] => i = j

\* Between two batches, the last one is complete.
LastWhole ==
  sender = None /\ log # <<>> => log[Len(log)][2] = trades[log[Len(log)][1]]

\* A stream has an event in hand while it sends it, and nothing before it
\* registers.
Streaming ==
  \A s \in Subscriber :
    /\ hand[s] # None <=> stream[s] = "sending"
    /\ stream[s] = "new" => s \notin subscribers /\ sent[s] = <<>> /\ ch[s] = <<>>
    /\ s \in todo => since[s] < Len(log)

FanoutInv == TypeOK /\ Sending /\ Begun /\ NoRepeats /\ LastWhole /\ BatchesWhole /\ Streaming

-----------------------------------------------------------------------------
(* Lists: what a client has received, then the event in hand, then its     *)
(* channel.                                                                *)

Joined(a, h, c) == a \o (IF h = None THEN <<>> ELSE <<h>>) \o c

\* What is sent or in hand, as one list.
Past(a, h) == IF h = None THEN a ELSE Append(a, h)

\* What a stream received, has in hand and has in its channel, in one sequence.
LEMMA JoinedIsConcat ==
  ASSUME NEW a \in Seq(Event), NEW h \in Event \cup {None}, NEW c \in Seq(Event)
  PROVE  /\ Past(a, h) \in Seq(Event)
         /\ Joined(a, h, c) = Past(a, h) \o c
         /\ Joined(a, h, c) \in Seq(Event)
<1>1. CASE h = None
  BY <1>1, ConcatEmptySeq, ConcatProperties DEF Joined, Past
<1>2. CASE h # None
  <2>1. Append(a, h) = a \o <<h>> /\ Append(a, h) \in Seq(Event)
    BY <1>2, AppendIsConcat, AppendProperties
  <2>2. QED
    BY <1>2, <2>1, ConcatProperties DEF Joined, Past
<1>3. QED
  BY <1>1, <1>2

\* One more event in the channel is one more event at the end.
LEMMA JoinedOffer ==
  ASSUME NEW a \in Seq(Event), NEW h \in Event \cup {None}, NEW c \in Seq(Event),
         NEW e \in Event
  PROVE  /\ Append(c, e) \in Seq(Event)
         /\ Joined(a, h, Append(c, e)) = Append(Joined(a, h, c), e)
<1> DEFINE p == Past(a, h)
<1>0. <<e>> \in Seq(Event)
  OBVIOUS
<1>1. p \in Seq(Event)
  BY JoinedIsConcat
<1>2. Append(c, e) \in Seq(Event) /\ Append(c, e) = c \o <<e>>
  BY AppendProperties, AppendIsConcat
<1>3. (p \o c) \o <<e>> = p \o (c \o <<e>>)
  BY <1>0, <1>1, ConcatAssociative
<1>4. Append(p \o c, e) = (p \o c) \o <<e>>
  BY <1>1, ConcatProperties, AppendIsConcat
<1>5. Joined(a, h, c) = p \o c /\ Joined(a, h, Append(c, e)) = p \o Append(c, e)
  BY <1>2, JoinedIsConcat
<1> HIDE DEF p
<1>6. QED
  BY <1>2, <1>3, <1>4, <1>5

\* Taking an event from the channel into the hand changes nothing.
LEMMA JoinedReceive ==
  ASSUME NEW a \in Seq(Event), NEW c \in Seq(Event), c # <<>>
  PROVE  /\ Head(c) \in Event /\ Tail(c) \in Seq(Event)
         /\ Joined(a, Head(c), Tail(c)) = Joined(a, None, c)
<1>1. /\ Head(c) \in Event /\ Head(c) \in Event \cup {None} /\ Head(c) # None
      /\ Tail(c) \in Seq(Event)
  BY HeadTailProperties, StreamAssumption
<1>2. c = <<Head(c)>> \o Tail(c) /\ <<Head(c)>> \in Seq(Event)
  <2>1. Len(c) \in 1 .. Len(c) /\ 1 \in 1 .. Len(c) /\ SubSeq(c, 1, Len(c)) = c
    BY LenProperties, EmptySeq, SubSeqFull
  <2>2. c = <<c[1]>> \o SubSeq(c, 1 + 1, Len(c))
    BY <2>1, SubSeqRecursiveFirst
  <2>3. Tail(c) = SubSeq(c, 2, Len(c)) /\ Head(c) = c[1]
    BY TailIsSubSeq
  <2>4. QED
    BY <1>1, <2>2, <2>3
<1>3. Append(a, Head(c)) = a \o <<Head(c)>>
  BY <1>1, AppendIsConcat
<1>4. Joined(a, Head(c), Tail(c)) = (a \o <<Head(c)>>) \o Tail(c)
  <2>1. Joined(a, Head(c), Tail(c)) = Past(a, Head(c)) \o Tail(c)
    BY <1>1, JoinedIsConcat
  <2>2. QED
    BY <1>1, <1>3, <2>1 DEF Past
<1>5. Joined(a, None, c) = a \o c
  BY JoinedIsConcat DEF Past
<1>6. (a \o <<Head(c)>>) \o Tail(c) = a \o (<<Head(c)>> \o Tail(c))
  BY <1>1, <1>2, ConcatAssociative
<1>7. QED
  BY <1>1, <1>2, <1>4, <1>5, <1>6

\* Nor does sending the event in hand.
LEMMA JoinedSend ==
  ASSUME NEW a \in Seq(Event), NEW h \in Event, NEW c \in Seq(Event)
  PROVE  /\ Append(a, h) \in Seq(Event)
         /\ Joined(Append(a, h), None, c) = Joined(a, h, c)
<1>1. /\ h # None /\ h \in Event \cup {None} /\ None \in Event \cup {None}
      /\ Append(a, h) \in Seq(Event)
  BY StreamAssumption, AppendProperties
<1>2. Joined(Append(a, h), None, c) = Past(Append(a, h), None) \o c
  BY <1>1, JoinedIsConcat
<1>3. Joined(a, h, c) = Past(a, h) \o c
  BY <1>1, JoinedIsConcat
<1>4. QED
  BY <1>1, <1>2, <1>3 DEF Past

\* List s is r without its place n + 1.
OneLess(s, r, n) ==
  /\ Len(r) = Len(s) + 1 /\ Len(s) \in Nat /\ n \in Nat
  /\ \A i \in 1 .. Len(s) : s[i] = r[IF i <= n THEN i ELSE i + 1]

\* Dropping the event in hand takes out one place.
LEMMA JoinedDrop ==
  ASSUME NEW a \in Seq(Event), NEW h \in Event, NEW c \in Seq(Event)
  PROVE  OneLess(Joined(a, None, c), Joined(a, h, c), Len(a))
<1>1. h # None /\ Append(a, h) \in Seq(Event) /\ Len(Append(a, h)) = Len(a) + 1
  BY StreamAssumption, AppendProperties
<1>2. \A i \in 1 .. Len(a) : Append(a, h)[i] = a[i]
  BY AppendProperties
<1>3. Joined(a, None, c) = a \o c /\ Joined(a, h, c) = Append(a, h) \o c
  <2>1. h \in Event \cup {None} /\ None \in Event \cup {None}
    OBVIOUS
  <2>2. Past(a, None) = a /\ Past(a, h) = Append(a, h)
    BY <1>1 DEF Past
  <2>3. Joined(a, None, c) = Past(a, None) \o c
    BY <2>1, JoinedIsConcat
  <2>4. Joined(a, h, c) = Past(a, h) \o c
    BY <2>1, JoinedIsConcat
  <2>5. QED
    BY <2>2, <2>3, <2>4
<1>4. Len(a) \in Nat /\ Len(c) \in Nat
  BY LenProperties
<1>5. /\ Len(a \o c) = Len(a) + Len(c)
      /\ \A i \in 1 .. Len(a) + Len(c) :
           (a \o c)[i] = IF i <= Len(a) THEN a[i] ELSE c[i - Len(a)]
  BY ConcatProperties
<1>6. /\ Len(Append(a, h) \o c) = Len(a) + 1 + Len(c)
      /\ \A i \in 1 .. Len(a) + 1 + Len(c) :
           (Append(a, h) \o c)[i] = IF i <= Len(a) + 1 THEN Append(a, h)[i]
                                    ELSE c[i - (Len(a) + 1)]
  BY <1>1, ConcatProperties
<1>7. ASSUME NEW i \in 1 .. Len(a) + Len(c)
      PROVE  (a \o c)[i] = (Append(a, h) \o c)[IF i <= Len(a) THEN i ELSE i + 1]
  <2>1. CASE i <= Len(a)
    <3>1. (a \o c)[i] = a[i] /\ i \in 1 .. Len(a) /\ i \in 1 .. Len(a) + 1 + Len(c)
      BY <1>4, <1>5, <2>1
    <3>2. (Append(a, h) \o c)[i] = Append(a, h)[i]
      BY <1>4, <1>6, <3>1
    <3>3. QED
      BY <1>2, <2>1, <3>1, <3>2
  <2>2. CASE ~(i <= Len(a))
    <3>1. (a \o c)[i] = c[i - Len(a)] /\ i + 1 \in 1 .. Len(a) + 1 + Len(c)
      BY <1>4, <1>5, <2>2
    <3>2. ~(i + 1 <= Len(a) + 1) /\ i + 1 - (Len(a) + 1) = i - Len(a)
      BY <1>4, <2>2
    <3>3. (Append(a, h) \o c)[i + 1] = c[i - Len(a)]
      BY <1>6, <3>1, <3>2
    <3>4. QED
      BY <2>2, <3>1, <3>3
  <2>3. QED
    BY <2>1, <2>2
<1>8. QED
  BY <1>3, <1>4, <1>5, <1>6, <1>7 DEF OneLess

-----------------------------------------------------------------------------
(* The fan-out is one batch after the other.                               *)

\* The initial state.
LEMMA InitFanoutInv == Init => FanoutInv
<1>1. SUFFICES ASSUME Init PROVE FanoutInv
  OBVIOUS
<1>2. <<>> \in Seq(Event) /\ Len(<<>>) = 0
  OBVIOUS
<1>3. TypeOK
  BY <1>1, <1>2, StreamAssumption DEF Init, TypeOK
<1>4. Sending /\ Begun /\ NoRepeats /\ LastWhole /\ BatchesWhole
  BY <1>1, <1>2, StreamAssumption DEF Init, Sending, Begun, NoRepeats, LastWhole, BatchesWhole
<1>5. Streaming
  BY <1>1 DEF Init, Streaming
<1>6. QED
  BY <1>3, <1>4, <1>5 DEF FanoutInv

\* The log after one more event.
LEMMA LogGrows ==
  ASSUME TypeOK, NEW e \in Event, log' = Append(log, e)
  PROVE  /\ log' \in Seq(Event) /\ log' # <<>>
         /\ Len(log) \in Nat /\ Len(log') = Len(log) + 1
         /\ log'[Len(log')] = e
         /\ \A i \in 1 .. Len(log) : log'[i] = log[i] /\ log[i] \in Event
         /\ since \in [Subscriber -> 0 .. Len(log')]
         /\ \A s \in Subscriber : since[s] < Len(log')
<1>1. log \in Seq(Event) /\ since \in [Subscriber -> 0 .. Len(log)]
  BY DEF TypeOK
<1>2. /\ log' \in Seq(Event) /\ log' # <<>> /\ Len(log') = Len(log) + 1
      /\ \A i \in 1 .. Len(log) : log'[i] = log[i]
      /\ log'[Len(log) + 1] = e
  BY <1>1, AppendProperties
<1>3. Len(log) \in Nat /\ \A i \in 1 .. Len(log) : log[i] \in Event
  BY <1>1, LenProperties, ElementOfSeq
<1>4. QED
  BY <1>1, <1>2, <1>3

\* A new event of the call that has the lock follows its last one, or starts a
\* batch after a complete one.
LEMMA FanOutKeeps ==
  ASSUME FanoutInv, NEW c \in Call, NEW n \in 1 .. trades[c], trades' = trades,
         log' = Append(log, <<c, n>>), sender' = c, next' = n, todo' = subscribers,
         \/ sender = None /\ n = 1 /\ batch[c] = "ready"
         \/ sender = c /\ n = next + 1,
         batch' = [batch EXCEPT ![c] = "sending"],
         UNCHANGED <<subscribers, ch, stream, gone, hand, sent, since, missed>>
  PROVE  FanoutInv'
<1> USE DEF FanoutInv
<1>0. <<c, n>> \in Event /\ n \in 1 .. MaxTrades /\ c # None
  BY StreamAssumption DEF TypeOK, Event
<1>1. /\ log' \in Seq(Event) /\ log' # <<>>
      /\ Len(log) \in Nat /\ Len(log') = Len(log) + 1
      /\ log'[Len(log')] = <<c, n>>
      /\ \A i \in 1 .. Len(log) : log'[i] = log[i] /\ log[i] \in Event
      /\ since \in [Subscriber -> 0 .. Len(log')]
      /\ \A s \in Subscriber : since[s] < Len(log')
  BY <1>0, LogGrows
<1>2. TypeOK'
  BY <1>0, <1>1 DEF TypeOK
<1>3. Sending'
  <2>1. \A d \in Call : batch'[d] = "sending" <=> sender' = d
    BY StreamAssumption DEF Sending, TypeOK
  <2>2. sender' # None /\ next' \in 1 .. trades'[sender']
    BY <1>0
  <2>3. log' # <<>> /\ log'[Len(log')] = <<sender', next'>>
    BY <1>1
  <2>4. QED
    BY <2>1, <2>2, <2>3 DEF Sending
<1>4. \A i \in 1 .. Len(log) : /\ log[i] = <<log[i][1], log[i][2]>>
                               /\ log[i][1] \in Call /\ log[i][2] \in 1 .. MaxTrades
  <2>1. \A e \in Event : e = <<e[1], e[2]>> /\ e[1] \in Call /\ e[2] \in 1 .. MaxTrades
    BY DEF Event
  <2>2. QED
    BY <1>1, <2>1
<1>5. ASSUME NEW i \in 1 .. Len(log), log[i][1] = c
      PROVE  log[i][2] < n
  <2>1. batch[c] # "ready" /\ (sender = c => log[i][2] <= next)
    BY <1>5 DEF Begun
  <2>2. sender = c /\ n = next + 1 /\ next \in Nat
    BY <2>1 DEF TypeOK
  <2>3. log[i][2] \in Nat
    BY <1>4
  <2>4. QED
    BY <2>1, <2>2, <2>3
<1>6. Begun'
  <2>1. ASSUME NEW i \in 1 .. Len(log)
        PROVE  /\ batch'[log'[i][1]] # "ready"
               /\ log'[i][2] \in 1 .. trades'[log'[i][1]]
               /\ log'[i][1] = sender' => log'[i][2] <= next'
    BY <1>1, <1>4, <1>5 DEF Begun, TypeOK
  <2>2. LET i == Len(log')
        IN /\ batch'[log'[i][1]] # "ready"
           /\ log'[i][2] \in 1 .. trades'[log'[i][1]]
           /\ log'[i][1] = sender' => log'[i][2] <= next'
    BY <1>1 DEF TypeOK
  <2>3. 1 .. Len(log') = (1 .. Len(log)) \cup {Len(log')}
    BY <1>1
  <2>4. QED
    BY <2>1, <2>2, <2>3 DEF Begun
<1>7. NoRepeats'
  <2>1. \A i \in 1 .. Len(log) : log[i] # <<c, n>>
    BY <1>0, <1>5
  <2>2. QED
    BY <1>1, <2>1 DEF NoRepeats
<1>8. LastWhole'
  BY <1>0 DEF LastWhole
<1>9. BatchesWhole'
  <2>1. ASSUME NEW i \in 1 .. Len(log) - 1
        PROVE  \/ log'[i + 1] = <<log'[i][1], log'[i][2] + 1>>
               \/ log'[i + 1][2] = 1 /\ log'[i][2] = trades'[log'[i][1]]
    BY <1>1, <2>1 DEF BatchesWhole
  <2>2. ASSUME log # <<>>
        PROVE  LET i == Len(log)
               IN \/ log'[i + 1] = <<log'[i][1], log'[i][2] + 1>>
                  \/ log'[i + 1][2] = 1 /\ log'[i][2] = trades'[log'[i][1]]
    <3>1. Len(log) \in 1 .. Len(log) /\ log'[Len(log)] = log[Len(log)]
      BY <1>1, <2>2, EmptySeq DEF TypeOK
    <3>2. CASE sender = None /\ n = 1
      BY <1>1, <2>2, <3>1, <3>2 DEF LastWhole
    <3>3. CASE sender = c /\ n = next + 1
      BY <1>0, <1>1, <2>2, <3>1, <3>3 DEF Sending
    <3>4. QED
      BY <3>2, <3>3
  <2>3. QED
    <3>1. Len(log) = 0 => log = <<>>
      BY EmptySeq DEF TypeOK
    <3>2. \A i \in 1 .. Len(log') - 1 : i \in 1 .. Len(log) - 1 \/ (i = Len(log) /\ log # <<>>)
      BY <1>1
    <3>3. QED
      BY <2>1, <2>2, <3>2 DEF BatchesWhole
<1>10. Streaming'
  BY <1>1 DEF Streaming
<1>11. QED
  BY <1>2, <1>3, <1>6, <1>7, <1>8, <1>9, <1>10

\* One step, by action.
LEMMA StepFanoutInv == FanoutInv /\ [Next]_vars => FanoutInv'
<1> SUFFICES ASSUME FanoutInv, [Next]_vars PROVE FanoutInv'
  OBVIOUS
<1> USE DEF FanoutInv
<1>1. ASSUME NEW c \in Call, Skip(c) PROVE FanoutInv'
  <2>1. TypeOK'
    BY <1>1 DEF Skip, TypeOK
  <2>2. batch[c] = "ready" /\ batch' = [batch EXCEPT ![c] = "done"]
        /\ UNCHANGED <<trades, sender, next, todo, subscribers, ch, stream, hand, sent, log, since>>
    BY <1>1 DEF Skip
  <2>3. Sending'
    BY <2>2 DEF Sending, TypeOK
  <2>4. Begun'
    BY <2>2 DEF Begun, TypeOK
  <2>5. NoRepeats' /\ LastWhole' /\ BatchesWhole' /\ Streaming'
    BY <2>2 DEF NoRepeats, LastWhole, BatchesWhole, Streaming
  <2>6. QED
    BY <2>1, <2>3, <2>4, <2>5
<1>2. ASSUME NEW c \in Call, Begin(c) PROVE FanoutInv'
  <2>1. 1 \in 1 .. trades[c]
    BY <1>2 DEF Begin, TypeOK
  <2>2. QED
    BY <1>2, <2>1, FanOutKeeps DEF Begin
<1>3. ASSUME NEW s \in Subscriber, Offer(s) PROVE FanoutInv'
  <2>1. /\ s \in todo /\ todo' = todo \ {s}
        /\ UNCHANGED <<trades, batch, sender, next, subscribers, stream, gone, hand,
                       sent, log, since>>
    BY <1>3 DEF Offer
  <2>2. sender # None /\ s \in subscribers /\ <<sender, next>> \in Event
    <3>1. sender # None
      BY <2>1 DEF Sending
    <3>2. sender \in Call /\ next \in 1 .. trades[sender] /\ trades[sender] \in 0 .. MaxTrades
      BY <3>1 DEF Sending, TypeOK
    <3>3. QED
      BY <2>1, <3>1, <3>2, StreamAssumption DEF TypeOK, Event
  <2>3. /\ ch' \in [Subscriber -> Seq(Event)]
        /\ \A t \in Subscriber : Len(ch'[t]) <= SubscriberBuffer
        /\ \A t \in Subscriber : t # s => ch'[t] = ch[t]
        /\ missed' \subseteq Subscriber
    <3>1. ch[s] \in Seq(Event) /\ Len(ch[s]) \in Nat
      BY LenProperties DEF TypeOK
    <3>2. /\ Append(ch[s], <<sender, next>>) \in Seq(Event)
          /\ Len(Append(ch[s], <<sender, next>>)) = Len(ch[s]) + 1
      BY <2>2, <3>1, AppendProperties
    <3>3. CASE /\ Len(ch[s]) < SubscriberBuffer
               /\ ch' = [ch EXCEPT ![s] = Append(ch[s], <<sender, next>>)]
               /\ UNCHANGED missed
      BY <3>1, <3>2, <3>3, StreamAssumption DEF TypeOK
    <3>4. CASE missed' = missed \cup {s} /\ UNCHANGED ch
      BY <3>4 DEF TypeOK
    <3>5. QED
      BY <1>3, <3>3, <3>4 DEF Offer
  <2>4. TypeOK'
    BY <2>1, <2>3 DEF TypeOK
  <2>5. Sending' /\ Begun' /\ NoRepeats' /\ LastWhole' /\ BatchesWhole'
    BY <2>1 DEF Sending, Begun, NoRepeats, LastWhole, BatchesWhole
  <2>6. Streaming'
    BY <2>1, <2>2, <2>3 DEF Streaming
  <2>7. QED
    BY <2>4, <2>5, <2>6
<1>4. CASE Advance
  <2>1. /\ sender \in Call /\ sender # None /\ batch[sender] = "sending"
        /\ next \in 1 .. trades[sender] /\ trades[sender] \in 0 .. MaxTrades
        /\ UNCHANGED <<trades, subscribers, ch, stream, gone, hand, sent, since, missed>>
    BY <1>4 DEF Advance, TypeOK, Sending
  <2>2. CASE /\ next < trades[sender] /\ next' = next + 1 /\ todo' = subscribers
             /\ log' = Append(log, <<sender, next + 1>>)
             /\ UNCHANGED <<batch, sender>>
    <3>1. next + 1 \in 1 .. trades[sender]
      BY <2>1, <2>2
    <3>2. batch' = [batch EXCEPT ![sender] = "sending"]
      BY <2>1, <2>2 DEF TypeOK
    <3>3. QED
      BY <2>1, <2>2, <3>1, <3>2, FanOutKeeps
  <2>3. CASE /\ next = trades[sender]
             /\ batch' = [batch EXCEPT ![sender] = "done"]
             /\ sender' = None /\ next' = 0
             /\ UNCHANGED <<todo, log>>
    <3>0. todo = {}
      BY <1>4 DEF Advance
    <3>1. TypeOK'
      BY <2>1, <2>3, StreamAssumption DEF TypeOK
    <3>2. Sending'
      BY <2>1, <2>3, <3>0, StreamAssumption DEF Sending, TypeOK
    <3>3. Begun'
      <4>1. \A i \in 1 .. Len(log) : log[i][1] # None
        <5>1. \A i \in 1 .. Len(log) : log[i] \in Event
          BY ElementOfSeq DEF TypeOK
        <5>2. \A e \in Event : e[1] \in Call
          BY DEF Event
        <5>3. QED
          BY <5>1, <5>2, StreamAssumption
      <4>2. QED
        BY <2>1, <2>3, <4>1 DEF Begun, TypeOK
    <3>4. LastWhole'
      BY <2>1, <2>3 DEF LastWhole, Sending
    <3>5. NoRepeats' /\ BatchesWhole' /\ Streaming'
      BY <2>1, <2>3 DEF NoRepeats, BatchesWhole, Streaming
    <3>6. QED
      BY <3>1, <3>2, <3>3, <3>4, <3>5
  <2>4. QED
    BY <1>4, <2>2, <2>3 DEF Advance
<1>5. ASSUME NEW s \in Subscriber,
             Subscribe(s) \/ Disconnect(s) \/ Receive(s) \/ SendDone(s) \/ Leave(s)
      PROVE  FanoutInv'
  <2>1. UNCHANGED <<trades, batch, sender, next, todo, log>>
    BY <1>5 DEF Subscribe, Disconnect, Receive, SendDone, Leave, SendFailed, Stop, Unsubscribe
  <2>2. Sending' /\ Begun' /\ NoRepeats' /\ LastWhole' /\ BatchesWhole'
    BY <2>1 DEF Sending, Begun, NoRepeats, LastWhole, BatchesWhole
  <2>3. TypeOK' /\ Streaming'
    <3>1. CASE Subscribe(s)
      <4>1. Len(log) \in Nat /\ todo = {}
        BY <3>1, LenProperties DEF Subscribe, Sending, TypeOK
      <4>2. QED
        BY <2>1, <3>1, <4>1 DEF Subscribe, TypeOK, Streaming
    <3>2. CASE Disconnect(s)
      BY <3>2 DEF Disconnect, TypeOK, Streaming
    <3>3. CASE Receive(s)
      <4>1. /\ ch[s] \in Seq(Event) /\ Head(ch[s]) \in Event /\ Tail(ch[s]) \in Seq(Event)
            /\ Len(Tail(ch[s])) = Len(ch[s]) - 1 /\ Len(ch[s]) \in Nat
        BY <3>3, HeadTailProperties, LenProperties DEF Receive, TypeOK
      <4>2. Head(ch[s]) # None
        BY <4>1, StreamAssumption
      <4>3. TypeOK'
        BY <3>3, <4>1, StreamAssumption DEF Receive, TypeOK
      <4>4. Streaming'
        BY <3>3, <4>2 DEF Receive, TypeOK, Streaming
      <4>5. QED
        BY <4>3, <4>4
    <3>4. CASE SendDone(s)
      <4>1. hand[s] \in Event /\ sent[s] \in Seq(Event) /\ Append(sent[s], hand[s]) \in Seq(Event)
        BY <3>4, AppendProperties DEF SendDone, TypeOK, Streaming
      <4>2. TypeOK'
        BY <3>4, <4>1 DEF SendDone, TypeOK
      <4>3. Streaming'
        BY <3>4 DEF SendDone, TypeOK, Streaming
      <4>4. QED
        BY <4>2, <4>3
    <3>5. CASE SendFailed(s)
      BY <3>5 DEF SendFailed, TypeOK, Streaming
    <3>6. CASE Stop(s)
      BY <3>6 DEF Stop, TypeOK, Streaming
    <3>7. CASE Unsubscribe(s)
      BY <3>7 DEF Unsubscribe, TypeOK, Streaming, Sending
    <3>8. QED
      BY <1>5, <3>1, <3>2, <3>3, <3>4, <3>5, <3>6, <3>7 DEF Leave
  <2>4. QED
    BY <2>2, <2>3
<1>6. CASE UNCHANGED vars
  <2>1. TypeOK'
    BY <1>6 DEF vars, TypeOK
  <2>2. Sending' /\ Begun' /\ NoRepeats' /\ LastWhole' /\ BatchesWhole'
    BY <1>6 DEF vars, Sending, Begun, NoRepeats, LastWhole, BatchesWhole
  <2>3. Streaming'
    BY <1>6 DEF vars, Streaming
  <2>4. QED
    BY <2>1, <2>2, <2>3
<1> HIDE DEF FanoutInv
<1>7. CASE Broadcast
  BY <1>1, <1>2, <1>3, <1>4, <1>7 DEF Broadcast
<1>8. QED
  BY <1>5, <1>6, <1>7 DEF Next

\* The invariant of the fan-out, and that of the types.
THEOREM FansOut == Spec => []FanoutInv
  BY InitFanoutInv, StepFanoutInv, PTL DEF Spec

\* The state of the fan-out keeps its shape, and no channel ever holds more
\* than its buffer.
THEOREM StreamTypeCorrect == Spec => []TypeOK
<1>1. FanoutInv => TypeOK
  BY DEF FanoutInv
<1>2. QED
  BY FansOut, <1>1, PTL

\* The trades of one order follow one another in every client's view.
THEOREM BatchesAreWhole == Spec => []BatchesWhole
<1>1. FanoutInv => BatchesWhole
  BY DEF FanoutInv
<1>2. QED
  BY FansOut, <1>1, PTL

-----------------------------------------------------------------------------
(* Lists in the order of the log.                                          *)

\* The events of r are among the places from + 1 to to of l, in its order.
InOrder(r, l, from, to) ==
  /\ \A i \in 1 .. Len(r) : \E p \in from + 1 .. to : l[p] = r[i]
  /\ \A i, j \in 1 .. Len(r), p, q \in 1 .. Len(l) :
       i < j /\ l[p] = r[i] /\ l[q] = r[j] => p < q

\* The range may be wider.
LEMMA InOrderWider ==
  ASSUME NEW r, NEW l, NEW from \in Nat, NEW to \in Int, NEW far \in Int, to <= far,
         InOrder(r, l, from, to)
  PROVE  InOrder(r, l, from, far)
  BY DEF InOrder

\* The log may get longer by a new event.
LEMMA InOrderOfLonger ==
  ASSUME NEW r, NEW l \in Seq(Event), NEW from \in Nat, NEW to \in Int, to <= Len(l),
         NEW e \in Event, \A p \in 1 .. Len(l) : l[p] # e, InOrder(r, l, from, to)
  PROVE  InOrder(r, Append(l, e), from, Len(l))
<1>1. /\ Len(l) \in Nat /\ Len(Append(l, e)) = Len(l) + 1
      /\ \A p \in 1 .. Len(l) : Append(l, e)[p] = l[p]
      /\ Append(l, e)[Len(l) + 1] = e
  BY LenProperties, AppendProperties
<1>2. ASSUME NEW i \in 1 .. Len(r)
      PROVE  /\ \E p \in from + 1 .. Len(l) : Append(l, e)[p] = r[i]
             /\ r[i] # e
  <2>1. PICK p \in from + 1 .. to : l[p] = r[i]
    BY DEF InOrder
  <2>2. p \in 1 .. Len(l) /\ p \in from + 1 .. Len(l)
    BY <1>1
  <2>3. QED
    BY <1>1, <2>1, <2>2
<1>3. ASSUME NEW i \in 1 .. Len(r), NEW j \in 1 .. Len(r),
             NEW p \in 1 .. Len(Append(l, e)), NEW q \in 1 .. Len(Append(l, e)),
             i < j, Append(l, e)[p] = r[i], Append(l, e)[q] = r[j]
      PROVE  p < q
  <2>1. r[i] # e /\ r[j] # e
    BY <1>2
  <2>2. p # Len(l) + 1 /\ q # Len(l) + 1
    BY <1>1, <1>3, <2>1
  <2>3. p \in 1 .. Len(l) /\ q \in 1 .. Len(l)
    BY <1>1, <2>2
  <2>4. l[p] = r[i] /\ l[q] = r[j]
    BY <1>1, <1>3, <2>3
  <2>5. QED
    BY <1>3, <2>3, <2>4 DEF InOrder
<1>4. QED
  BY <1>2, <1>3 DEF InOrder

\* The last event of the log may be added to the list.
LEMMA InOrderWithLast ==
  ASSUME NEW r \in Seq(Event), NEW l \in Seq(Event), NEW from \in Nat, from < Len(l),
         \A i, j \in 1 .. Len(l) : l[i] = l[j] => i = j,
         InOrder(r, l, from, Len(l) - 1)
  PROVE  InOrder(Append(r, l[Len(l)]), l, from, Len(l))
<1> DEFINE n == Len(l)
           s == Append(r, l[n])
<1>1. Len(l) \in Nat /\ Len(r) \in Nat /\ n \in 1 .. n /\ l[n] \in Event
  BY LenProperties, ElementOfSeq
<1>2. /\ Len(s) = Len(r) + 1 /\ s[Len(r) + 1] = l[n]
      /\ \A i \in 1 .. Len(r) : s[i] = r[i]
  BY <1>1, AppendProperties
<1>3. ASSUME NEW i \in 1 .. Len(r)
      PROVE  \E p \in from + 1 .. n - 1 : l[p] = s[i]
  BY <1>2 DEF InOrder
<1> HIDE DEF s
<1>4. ASSUME NEW i \in 1 .. Len(s) PROVE \E p \in from + 1 .. n : l[p] = s[i]
  <2>1. CASE i = Len(r) + 1
    BY <1>1, <1>2, <2>1
  <2>2. CASE i \in 1 .. Len(r)
    <3>1. PICK p \in from + 1 .. n - 1 : l[p] = s[i]
      BY <1>3, <2>2
    <3>2. p \in from + 1 .. n
      BY <1>1, <3>1
    <3>3. QED
      BY <3>1, <3>2
  <2>3. QED
    BY <1>1, <1>2, <2>1, <2>2
<1>5. ASSUME NEW i \in 1 .. Len(s), NEW j \in 1 .. Len(s), NEW p \in 1 .. n, NEW q \in 1 .. n,
             i < j, l[p] = s[i], l[q] = s[j]
      PROVE  p < q
  <2>1. i \in 1 .. Len(r)
    BY <1>1, <1>2, <1>5
  <2>2. CASE j = Len(r) + 1
    <3>1. PICK k \in from + 1 .. n - 1 : l[k] = s[i]
      BY <1>3, <2>1
    <3>2. k \in 1 .. n /\ k < n /\ l[p] = l[k] /\ l[q] = l[n]
      BY <1>1, <1>2, <1>5, <2>2, <3>1
    <3>3. p = k /\ q = n
      BY <1>1, <3>2
    <3>4. QED
      BY <3>2, <3>3
  <2>3. CASE j \in 1 .. Len(r)
    BY <1>2, <1>5, <2>1, <2>3 DEF InOrder
  <2>4. QED
    BY <1>1, <1>2, <2>2, <2>3
<1>6. QED
  BY <1>4, <1>5 DEF InOrder, s

\* A place may be taken out of the list.
LEMMA InOrderWithout ==
  ASSUME NEW r, NEW s, NEW l, NEW from \in Nat, NEW to \in Int, NEW k \in Nat,
         Len(s) \in Nat, Len(r) = Len(s) + 1,
         \A i \in 1 .. Len(s) : s[i] = r[IF i <= k THEN i ELSE i + 1],
         InOrder(r, l, from, to)
  PROVE  InOrder(s, l, from, to)
<1> DEFINE at(i) == IF i <= k THEN i ELSE i + 1
<1>1. \A i \in 1 .. Len(s) : at(i) \in 1 .. Len(r) /\ s[i] = r[at(i)]
  OBVIOUS
<1>2. \A i, j \in 1 .. Len(s) : i < j => at(i) < at(j)
  OBVIOUS
<1> HIDE DEF at
<1>3. ASSUME NEW i \in 1 .. Len(s) PROVE \E p \in from + 1 .. to : l[p] = s[i]
  BY <1>1 DEF InOrder
<1>4. ASSUME NEW i \in 1 .. Len(s), NEW j \in 1 .. Len(s),
             NEW p \in 1 .. Len(l), NEW q \in 1 .. Len(l),
             i < j, l[p] = s[i], l[q] = s[j]
      PROVE  p < q
  <2>1. at(i) < at(j) /\ l[p] = r[at(i)] /\ l[q] = r[at(j)]
    BY <1>1, <1>2, <1>4
  <2>2. QED
    BY <1>1, <2>1 DEF InOrder
<1>5. QED
  BY <1>3, <1>4 DEF InOrder

-----------------------------------------------------------------------------
(* What each client receives: events of the log since it registered and up *)
(* to the one still on offer, in the log's order.                          *)

Offered(s) == IF s \in todo THEN Len(log) - 1 ELSE Len(log)

Keeps(s) ==
  /\ InOrder(Received(s), log, since[s], Offered(s))
  /\ s \in subscribers \ missed /\ stream[s] \in {"select", "sending"} =>
       Received(s) = SubSeq(log, since[s] + 1, Offered(s))

StreamInv == FanoutInv /\ \A s \in Subscriber : Keeps(s)

\* A stream that no step touches, but that may have been passed over.
LEMMA KeepsUntouched ==
  ASSUME FanoutInv, NEW s \in Subscriber, Keeps(s),
         UNCHANGED <<log, since, Received(s), stream[s]>>,
         s \in todo' => s \in todo, s \in todo => s \in todo' \cup missed',
         s \in subscribers' \ missed' => s \in subscribers \ missed
  PROVE  Keeps(s)'
<1>1. since[s] \in Nat /\ Len(log) \in Nat
  BY LenProperties DEF FanoutInv, TypeOK
<1>2. Offered(s) <= Offered(s)' /\ Offered(s) \in Int /\ Offered(s)' \in Int
  BY <1>1 DEF Offered
<1>3. InOrder(Received(s), log, since[s], Offered(s)')
  BY <1>1, <1>2, InOrderWider DEF Keeps
<1>4. s \in subscribers' \ missed' => Offered(s)' = Offered(s)
  BY DEF Offered
<1>5. QED
  BY <1>3, <1>4 DEF Keeps

\* A new event in the log, for a stream that has been offered all the others.
LEMMA KeepsWhileLogGrows ==
  ASSUME FanoutInv, FanoutInv', NEW s \in Subscriber, Keeps(s), NEW e \in Event,
         log' = Append(log, e), todo = {}, todo' = subscribers,
         UNCHANGED <<subscribers, ch, stream, hand, sent, since, missed>>
  PROVE  Keeps(s)'
<1>1. since[s] \in 0 .. Len(log) /\ Len(log) \in Nat /\ log \in Seq(Event)
  BY LenProperties DEF FanoutInv, TypeOK
<1>2. /\ Len(log') = Len(log) + 1 /\ log' \in Seq(Event)
      /\ \A p \in 1 .. Len(log) : log'[p] = log[p]
      /\ log'[Len(log) + 1] = e
  BY <1>1, AppendProperties
<1>3. \A p \in 1 .. Len(log) : log[p] # e
  BY <1>1, <1>2 DEF FanoutInv, NoRepeats
<1>4. Received(s)' = Received(s) /\ Offered(s) = Len(log)
  BY DEF Received, Offered
<1>5. InOrder(Received(s), log', since[s], Len(log))
  BY <1>1, <1>3, <1>4, InOrderOfLonger DEF Keeps
<1>6. Offered(s)' = IF s \in subscribers THEN Len(log) ELSE Len(log) + 1
  BY <1>1, <1>2 DEF Offered
<1>7. InOrder(Received(s), log', since[s], Offered(s)')
  BY <1>1, <1>5, <1>6, InOrderWider
<1>8. ASSUME s \in subscribers \ missed, stream[s] \in {"select", "sending"}
      PROVE  Received(s) = SubSeq(log', since[s] + 1, Offered(s)')
  <2>1. Received(s) = SubSeq(log, since[s] + 1, Len(log))
    BY <1>4, <1>8 DEF Keeps
  <2>2. SubSeq(log', since[s] + 1, Len(log)) = SubSeq(log, since[s] + 1, Len(log))
    <3>1. CASE since[s] = Len(log)
      BY <1>1, <3>1, SubSeqEmpty
    <3>2. CASE since[s] # Len(log)
      <4>1. since[s] + 1 \in 1 .. Len(log) /\ Len(log) \in 1 .. Len(log)
        BY <1>1, <3>2
      <4>2. log' = log \o <<e>> /\ <<e>> \in Seq(Event)
        BY <1>1, AppendIsConcat
      <4>3. SubSeq(log \o <<e>>, since[s] + 1, Len(log)) = SubSeq(log, since[s] + 1, Len(log))
        <5> DEFINE t == <<e>>
        <5>1. t \in Seq(Event)
          BY <4>2
        <5> HIDE DEF t
        <5>2. SubSeq(log \o t, since[s] + 1, Len(log)) = SubSeq(log, since[s] + 1, Len(log))
          BY <1>1, <4>1, <5>1, SubSeqOfConcat1
        <5>3. QED
          BY <5>2 DEF t
      <4>4. QED
        BY <4>2, <4>3
    <3>3. QED
      BY <3>1, <3>2
  <2>3. QED
    BY <1>6, <1>8, <2>1, <2>2
<1>9. QED
  BY <1>4, <1>7, <1>8 DEF Keeps

\* The stream that is offered the last event, and has room for it.
LEMMA KeepsWhenOffered ==
  ASSUME FanoutInv, NEW s \in Subscriber, Keeps(s), s \in todo,
         ch' = [ch EXCEPT ![s] = Append(@, <<sender, next>>)], todo' = todo \ {s},
         UNCHANGED <<log, subscribers, stream, hand, sent, since, missed>>
  PROVE  Keeps(s)'
<1> DEFINE e == log[Len(log)]
<1>1. /\ Len(log) \in Nat /\ log \in Seq(Event) /\ ch \in [Subscriber -> Seq(Event)]
      /\ ch[s] \in Seq(Event) /\ sent[s] \in Seq(Event) /\ hand[s] \in Event \cup {None}
  BY LenProperties DEF FanoutInv, TypeOK
<1>2. since[s] < Len(log) /\ since[s] \in Nat
  BY <1>1 DEF FanoutInv, TypeOK, Streaming
<1>3. /\ Len(log) \in 1 .. Len(log) /\ e = <<sender, next>> /\ e \in Event
  <2>1. Len(log) \in 1 .. Len(log)
    BY <1>1, <1>2
  <2>2. e = <<sender, next>>
    BY DEF FanoutInv, Sending
  <2>3. QED
    BY <1>1, <2>1, <2>2, ElementOfSeq
<1>4. ch'[s] = Append(ch[s], e)
  BY <1>1, <1>3
<1>5. Received(s) \in Seq(Event) /\ Received(s)' = Append(Received(s), e)
  <2>1. Received(s) = Joined(sent[s], hand[s], ch[s])
    BY DEF Received, Joined
  <2>2. Received(s)' = Joined(sent[s], hand[s], Append(ch[s], e))
    BY <1>4 DEF Received, Joined
  <2>3. e \in Event
    BY <1>3
  <2> HIDE DEF e
  <2>4. Joined(sent[s], hand[s], ch[s]) \in Seq(Event)
    BY <1>1, JoinedIsConcat
  <2>5. Joined(sent[s], hand[s], Append(ch[s], e)) = Append(Joined(sent[s], hand[s], ch[s]), e)
    BY <1>1, <2>3, JoinedOffer
  <2>6. QED
    BY <2>1, <2>2, <2>4, <2>5
<1>6. Offered(s) = Len(log) - 1 /\ Offered(s)' = Len(log)
  BY DEF Offered
<1>7. InOrder(Append(Received(s), e), log, since[s], Len(log))
  <2>1. \A i, j \in 1 .. Len(log) : log[i] = log[j] => i = j
    BY DEF FanoutInv, NoRepeats
  <2>2. InOrder(Received(s), log, since[s], Len(log) - 1)
    BY <1>6 DEF Keeps
  <2>3. QED
    BY <1>1, <1>2, <1>5, <2>1, <2>2, InOrderWithLast
<1>8. ASSUME s \in subscribers \ missed, stream[s] \in {"select", "sending"}
      PROVE  Append(Received(s), e) = SubSeq(log, since[s] + 1, Len(log))
  <2>1. Received(s) = SubSeq(log, since[s] + 1, Len(log) - 1)
    BY <1>6, <1>8 DEF Keeps
  <2>2. since[s] + 1 \in 1 .. Len(log) /\ Len(log) \in since[s] + 1 .. Len(log)
    BY <1>1, <1>2
  <2>3. SubSeq(log, since[s] + 1, Len(log)) = SubSeq(log, since[s] + 1, Len(log) - 1) \o <<e>>
    BY <1>1, <2>2, SubSeqRecursiveSecond
  <2>4. Append(Received(s), e) = Received(s) \o <<e>>
    BY <1>3, <1>5, AppendIsConcat
  <2>5. QED
    BY <2>1, <2>3, <2>4
<1> HIDE DEF e
<1>9. QED
  BY <1>5, <1>6, <1>7, <1>8 DEF Keeps

\* A stream that loses the event in hand, and leaves.
LEMMA KeepsWhenDropped ==
  ASSUME FanoutInv, NEW s \in Subscriber, Keeps(s), SendFailed(s)
  PROVE  Keeps(s)'
<1>1. /\ sent[s] \in Seq(Event) /\ ch[s] \in Seq(Event) /\ hand[s] \in Event
      /\ since[s] \in Nat /\ Len(log) \in Nat
  BY LenProperties DEF FanoutInv, TypeOK, Streaming, SendFailed
<1>2. /\ UNCHANGED <<log, todo, since, sent, ch>>
      /\ hand'[s] = None /\ stream'[s] = "leaving"
  BY DEF SendFailed, FanoutInv, TypeOK
<1> DEFINE r == Joined(sent[s], hand[s], ch[s])
           t == Joined(sent[s], None, ch[s])
<1>3. Received(s) = r /\ Received(s)' = t
  BY <1>2 DEF Received, Joined
<1>4. /\ Len(r) = Len(t) + 1 /\ Len(t) \in Nat /\ Len(sent[s]) \in Nat
      /\ \A i \in 1 .. Len(t) : t[i] = r[IF i <= Len(sent[s]) THEN i ELSE i + 1]
  <2>1. OneLess(t, r, Len(sent[s]))
    BY <1>1, JoinedDrop
  <2> HIDE DEF r, t
  <2>2. QED
    BY <2>1 DEF OneLess
<1>5. Offered(s)' = Offered(s) /\ Offered(s) \in Int
  BY <1>1, <1>2 DEF Offered
<1>6. InOrder(r, log, since[s], Offered(s))
  BY <1>3 DEF Keeps
<1> HIDE DEF r, t
<1>7. InOrder(t, log, since[s], Offered(s))
  BY <1>1, <1>4, <1>5, <1>6, InOrderWithout
<1>8. QED
  BY <1>2, <1>3, <1>5, <1>7 DEF Keeps

\* A stream that registers has received nothing.
LEMMA KeepsWhenSubscribed ==
  ASSUME FanoutInv, NEW s \in Subscriber, Subscribe(s)
  PROVE  Keeps(s)'
<1>1. /\ sent[s] = <<>> /\ ch[s] = <<>> /\ hand[s] = None /\ todo = {}
      /\ Len(log) \in Nat /\ log \in Seq(Event)
  BY LenProperties DEF FanoutInv, TypeOK, Streaming, Sending, Subscribe
<1>2. /\ UNCHANGED <<log, todo, sent, ch, hand>>
      /\ since'[s] = Len(log)
  BY DEF Subscribe, FanoutInv, TypeOK
<1>3. Received(s)' = <<>> /\ Len(<<>>) = 0
  BY <1>1, <1>2 DEF Received
<1>4. Offered(s)' = Len(log)
  BY <1>1, <1>2 DEF Offered
<1>5. SubSeq(log, Len(log) + 1, Len(log)) = <<>>
  BY <1>1, SubSeqEmpty
<1>6. InOrder(<<>>, log, Len(log), Len(log))
  BY <1>3 DEF InOrder
<1>7. QED
  BY <1>2, <1>3, <1>4, <1>5, <1>6 DEF Keeps

\* One step of the whole, for one stream, by action.
LEMMA StepKeeps ==
  ASSUME FanoutInv, FanoutInv', [Next]_vars, NEW s \in Subscriber, Keeps(s)
  PROVE  Keeps(s)'
<1>1. ASSUME NEW c \in Call, Skip(c) PROVE Keeps(s)'
  BY <1>1 DEF Skip, Keeps, Received, Offered
<1>2. ASSUME NEW c \in Call, Begin(c) PROVE Keeps(s)'
  <2>1. <<c, 1>> \in Event /\ todo = {}
    BY <1>2, StreamAssumption DEF Begin, FanoutInv, TypeOK, Event, Sending
  <2>2. QED
    BY <1>2, <2>1, KeepsWhileLogGrows DEF Begin
<1>3. ASSUME NEW t \in Subscriber, Offer(t) PROVE Keeps(s)'
  <2>1. CASE t # s \/ ch' = ch
    <3>1. /\ UNCHANGED <<log, since, stream, hand, sent, subscribers>>
          /\ ch'[s] = ch[s] /\ todo' = todo \ {t}
      BY <1>3, <2>1 DEF Offer, FanoutInv, TypeOK
    <3>2. missed \subseteq missed' /\ (t = s => s \in missed' \/ s \notin todo)
      <4>1. CASE missed' = missed \cup {t}
        BY <4>1
      <4>2. CASE /\ ch' = [ch EXCEPT ![t] = Append(@, <<sender, next>>)]
                 /\ UNCHANGED missed
        <5>1. CASE t # s
          BY <4>2, <5>1
        <5>2. CASE t = s
          <6>1. ch[s] \in Seq(Event) /\ ch \in [Subscriber -> Seq(Event)]
            BY DEF FanoutInv, TypeOK
          <6>2. ch'[s] = Append(ch[s], <<sender, next>>) /\ ch'[s] = ch[s]
            BY <2>1, <4>2, <5>2, <6>1
          <6>3. <<sender, next>> \in Event
            <7>1. sender # None
              BY <1>3 DEF Offer, FanoutInv, Sending
            <7>2. sender \in Call /\ next \in 1 .. trades[sender]
                  /\ trades[sender] \in 0 .. MaxTrades
              BY <7>1 DEF FanoutInv, Sending, TypeOK
            <7>3. QED
              BY <7>2, StreamAssumption DEF Event
          <6>4. Len(Append(ch[s], <<sender, next>>)) = Len(ch[s]) + 1 /\ Len(ch[s]) \in Nat
            BY <6>1, <6>3, AppendProperties, LenProperties
          <6>5. QED
            BY <6>2, <6>4
        <5>3. QED
          BY <5>1, <5>2
      <4>3. QED
        BY <1>3, <4>1, <4>2 DEF Offer
    <3>3. Received(s)' = Received(s)
      BY <3>1 DEF Received
    <3>4. QED
      BY <3>1, <3>2, <3>3, KeepsUntouched
  <2>2. CASE t = s /\ ch' # ch
    BY <1>3, <2>2, KeepsWhenOffered DEF Offer
  <2>3. QED
    BY <2>1, <2>2
<1>4. CASE Advance
  <2>1. todo = {} /\ sender \in Call /\ next \in 1 .. trades[sender] /\ trades[sender] \in 0 .. MaxTrades
    BY <1>4 DEF Advance, FanoutInv, Sending, TypeOK
  <2>2. CASE /\ next < trades[sender] /\ todo' = subscribers
             /\ log' = Append(log, <<sender, next + 1>>)
    <3>1. <<sender, next + 1>> \in Event
      BY <2>1, <2>2, StreamAssumption DEF Event
    <3>2. QED
      BY <1>4, <2>1, <2>2, <3>1, KeepsWhileLogGrows DEF Advance
  <2>3. CASE UNCHANGED <<todo, log>>
    BY <1>4, <2>3 DEF Advance, Keeps, Received, Offered
  <2>4. QED
    BY <1>4, <2>2, <2>3 DEF Advance
<1>5. ASSUME NEW t \in Subscriber, t # s,
             Subscribe(t) \/ Disconnect(t) \/ Receive(t) \/ SendDone(t) \/ Leave(t)
      PROVE  Keeps(s)'
  <2>1. UNCHANGED <<log, todo, missed>>
    BY <1>5 DEF Subscribe, Disconnect, Receive, SendDone, Leave, SendFailed, Stop, Unsubscribe
  <2>2. /\ s \in subscribers' <=> s \in subscribers
        /\ UNCHANGED <<since[s], stream[s], hand[s], sent[s], ch[s]>>
    <3>1. TypeOK
      BY DEF FanoutInv
    <3>2. CASE Subscribe(t)
      BY <1>5, <3>1, <3>2 DEF Subscribe, TypeOK
    <3>3. CASE Disconnect(t)
      BY <1>5, <3>1, <3>3 DEF Disconnect, TypeOK
    <3>4. CASE Receive(t)
      BY <1>5, <3>1, <3>4 DEF Receive, TypeOK
    <3>5. CASE SendDone(t)
      BY <1>5, <3>1, <3>5 DEF SendDone, TypeOK
    <3>6. CASE Leave(t)
      BY <1>5, <3>1, <3>6 DEF Leave, SendFailed, Stop, Unsubscribe, TypeOK
    <3>7. QED
      BY <1>5, <3>2, <3>3, <3>4, <3>5, <3>6
  <2>3. QED
    BY <2>1, <2>2 DEF Keeps, Received, Offered
<1>6. CASE Subscribe(s)
  BY <1>6, KeepsWhenSubscribed
<1>7. CASE Disconnect(s)
  BY <1>7 DEF Disconnect, Keeps, Received, Offered
<1>8. CASE Receive(s)
  <2>1. /\ sent[s] \in Seq(Event) /\ ch[s] \in Seq(Event) /\ ch[s] # <<>>
        /\ hand[s] = None /\ stream[s] = "select"
    BY <1>8 DEF Receive, FanoutInv, TypeOK, Streaming
  <2>2. /\ UNCHANGED <<log, todo, since, sent, subscribers, missed>>
        /\ hand'[s] = Head(ch[s]) /\ ch'[s] = Tail(ch[s])
    BY <1>8 DEF Receive, FanoutInv, TypeOK
  <2>3. Received(s) = Joined(sent[s], None, ch[s])
    BY <2>1 DEF Received, Joined
  <2>4. Received(s)' = Joined(sent[s], Head(ch[s]), Tail(ch[s]))
    BY <2>2 DEF Received, Joined
  <2>5. Received(s)' = Received(s)
    BY <2>1, <2>3, <2>4, JoinedReceive
  <2>6. QED
    BY <2>1, <2>2, <2>5 DEF Keeps, Offered
<1>9. CASE SendDone(s)
  <2>1. /\ sent[s] \in Seq(Event) /\ ch[s] \in Seq(Event) /\ hand[s] \in Event
        /\ stream[s] = "sending"
    BY <1>9 DEF SendDone, FanoutInv, TypeOK, Streaming
  <2>2. /\ UNCHANGED <<log, todo, since, ch, subscribers, missed>>
        /\ hand'[s] = None /\ sent'[s] = Append(sent[s], hand[s])
    BY <1>9 DEF SendDone, FanoutInv, TypeOK
  <2>3. Received(s) = Joined(sent[s], hand[s], ch[s])
    BY DEF Received, Joined
  <2>4. Received(s)' = Joined(Append(sent[s], hand[s]), None, ch[s])
    BY <2>2 DEF Received, Joined
  <2>5. Received(s)' = Received(s)
    BY <2>1, <2>3, <2>4, JoinedSend
  <2>6. QED
    BY <2>1, <2>2, <2>5 DEF Keeps, Offered
<1>10. CASE SendFailed(s)
  BY <1>10, KeepsWhenDropped
<1>11. CASE Stop(s) \/ Unsubscribe(s)
  <2>1. /\ UNCHANGED <<log, todo, since, ch, sent, hand>>
        /\ stream'[s] \notin {"select", "sending"}
    BY <1>11 DEF Stop, Unsubscribe, FanoutInv, TypeOK
  <2>2. QED
    BY <2>1 DEF Keeps, Received, Offered
<1>12. CASE UNCHANGED vars
  BY <1>12 DEF vars, Keeps, Received, Offered
<1>13. CASE Broadcast
  BY <1>1, <1>2, <1>3, <1>4, <1>13 DEF Broadcast
<1>14. ASSUME NEW t \in Subscriber,
              Subscribe(t) \/ Disconnect(t) \/ Receive(t) \/ SendDone(t) \/ Leave(t)
       PROVE  Keeps(s)'
  BY <1>5, <1>6, <1>7, <1>8, <1>9, <1>10, <1>11, <1>14 DEF Leave
<1>15. QED
  BY <1>12, <1>13, <1>14 DEF Next

\* The initial state.
LEMMA InitKeeps == ASSUME Init, NEW s \in Subscriber PROVE Keeps(s)
<1>1. Received(s) = <<>> /\ Len(<<>>) = 0 /\ s \notin subscribers
  BY DEF Init, Received
<1>2. QED
  BY <1>1 DEF Keeps, InOrder

\* The inductive invariant.
THEOREM StreamInvariance == Spec => []StreamInv
<1>1. Init => StreamInv
  BY InitFanoutInv, InitKeeps DEF StreamInv
<1>2. StreamInv /\ [Next]_vars => StreamInv'
  BY StepFanoutInv, StepKeeps DEF StreamInv
<1>3. QED
  BY <1>1, <1>2, PTL DEF Spec

\* Where an event is in the log.
LEMMA PositionOfLogged ==
  ASSUME FanoutInv, NEW p \in 1 .. Len(log)
  PROVE  log[p] \in Range(log) /\ Position(log[p]) = p
<1>1. DOMAIN log = 1 .. Len(log)
  BY LenProperties DEF FanoutInv, TypeOK
<1>2. \A i \in DOMAIN log : log[i] = log[p] => i = p
  BY <1>1 DEF FanoutInv, NoRepeats
<1>3. QED
  BY <1>1, <1>2 DEF Position, Range

\* Whatever a client gets it gets once, in the order of the fan-out, and from
\* its registration on.
THEOREM ReceivedInOrder == Spec => []InOrderOnce
<1>1. ASSUME StreamInv, NEW s \in Subscriber
      PROVE  LET r == Received(s)
             IN /\ \A i \in DOMAIN r : r[i] \in Range(log) /\ Position(r[i]) > since[s]
                /\ \A i, j \in DOMAIN r : i < j => Position(r[i]) < Position(r[j])
  <2> DEFINE r == Received(s)
  <2>1. /\ sent[s] \in Seq(Event) /\ hand[s] \in Event \cup {None} /\ ch[s] \in Seq(Event)
        /\ since[s] \in Nat /\ Len(log) \in Nat
    BY <1>1, LenProperties DEF StreamInv, FanoutInv, TypeOK
  <2>2. r \in Seq(Event)
    BY <2>1, JoinedIsConcat DEF Received, Joined
  <2>3. DOMAIN r = 1 .. Len(r) /\ Len(r) \in Nat
    BY <2>2, LenProperties
  <2>4. InOrder(r, log, since[s], Offered(s)) /\ Offered(s) <= Len(log) /\ Offered(s) \in Int
    BY <1>1, <2>1 DEF StreamInv, Keeps, Offered
  <2> HIDE DEF r
  <2>5. ASSUME NEW i \in 1 .. Len(r)
        PROVE  \E p \in 1 .. Len(log) : /\ p > since[s] /\ log[p] = r[i]
                                        /\ r[i] \in Range(log) /\ Position(r[i]) = p
    <3>1. PICK p \in since[s] + 1 .. Offered(s) : log[p] = r[i]
      BY <2>4 DEF InOrder
    <3>2. p \in 1 .. Len(log) /\ p > since[s]
      BY <2>1, <2>4
    <3>3. QED
      BY <1>1, <3>1, <3>2, PositionOfLogged DEF StreamInv
  <2>6. ASSUME NEW i \in 1 .. Len(r), NEW j \in 1 .. Len(r), i < j
        PROVE  Position(r[i]) < Position(r[j])
    <3>1. PICK p \in 1 .. Len(log) : log[p] = r[i] /\ Position(r[i]) = p
      BY <2>5
    <3>2. PICK q \in 1 .. Len(log) : log[q] = r[j] /\ Position(r[j]) = q
      BY <2>5
    <3>3. p < q
      BY <2>4, <2>6, <3>1, <3>2 DEF InOrder
    <3>4. QED
      BY <3>1, <3>2, <3>3
  <2>7. QED
    BY <2>3, <2>5, <2>6 DEF r
<1>2. StreamInv => InOrderOnce
  BY <1>1 DEF InOrderOnce
<1>3. QED
  BY StreamInvariance, <1>2, PTL

\* A client none of whose events was dropped has a gapless stream.
THEOREM NoGapUnlessDropped == Spec => []GaplessUnlessDropped
<1>1. StreamInv => GaplessUnlessDropped
  <2>1. SUFFICES ASSUME StreamInv, NEW s \in subscribers \ missed,
                        stream[s] \in {"select", "sending"}
                 PROVE  Received(s) = SubSeq(log, since[s] + 1, Offered(s))
    BY DEF GaplessUnlessDropped, Offered
  <2>2. s \in Subscriber
    BY <2>1 DEF StreamInv, FanoutInv, TypeOK
  <2>3. QED
    BY <2>1, <2>2 DEF StreamInv, Keeps
<1>2. QED
  BY StreamInvariance, <1>1, PTL
=============================================================================
