--------------------------- MODULE RealtimeProofs --------------------------
(***************************************************************************)
(* WebSocket sessions, for any number of connections, devices and events   *)
(* and any capacity of the channel.                                        *)
(***************************************************************************)
EXTENDS Realtime, SequenceTheorems, TLAPS

(***************************************************************************)
(* The session map.                                                        *)
(***************************************************************************)
Newest(d) == Last(registered[d])

MapType ==
    /\ sessions \in [Device -> Conn \cup {None}]
    /\ dev \in [Conn -> Device \cup {None}]
    /\ loop \in [Conn -> {"idle", "register", "open", "closing", "closed"}]
    /\ registered \in [Device -> Seq(Conn)]
    /\ replaced \in [Conn -> SUBSET Conn]

\* A connection that has started is one of its device's, and so is the newest.
OfADevice ==
    /\ \A k \in Conn : IF loop[k] = "idle" THEN dev[k] = None
                       ELSE dev[k] \in Device /\ registered[dev[k]] # <<>>
    /\ \A d \in Device : registered[d] # <<>> =>
           Newest(d) \in Conn /\ dev[Newest(d)] = d

\* The newest connection has replaced every other one that can still close.
ReplacesOthers ==
    /\ \A k \in Conn : \A h \in replaced[k] : h # k /\ dev[h] \in Device /\ dev[h] = dev[k]
    /\ \A d \in Device, h \in Conn :
           registered[d] # <<>> /\ dev[h] = d /\ loop[h] # "closed" /\ h # Newest(d)
               => h \in replaced[Newest(d)]

NewestStays ==
    \A d \in Device : registered[d] # <<>> /\ loop[Newest(d)] # "closed" =>
        (sessions[d] = Newest(d) <=> \A h \in replaced[Newest(d)] : loop[h] # "closed")

MapInv == MapType /\ OfADevice /\ ReplacesOthers /\ NewestStays /\ SessionIsNewest

LEMMA MapInit == Init => MapInv
  BY RealtimeAssumption, EmptySeq
     DEF Init, MapInv, MapType, OfADevice, ReplacesOthers, NewestStays, SessionIsNewest

LEMMA MapConnect ==
    ASSUME MapInv, NEW k \in Conn, NEW d \in Device, Connect(k, d)
    PROVE  MapInv'
<1> USE DEF MapInv
<1>1. /\ loop[k] = "idle" /\ dev[k] = None /\ d # None
      /\ loop'[k] = "register" /\ \A h \in Conn \ {k} : loop'[h] = loop[h]
      /\ dev'[k] = d /\ \A h \in Conn \ {k} : dev'[h] = dev[h]
      /\ sessions'[d] = k /\ \A x \in Device \ {d} : sessions'[x] = sessions[x]
      /\ replaced'[k] = {h \in Conn : dev[h] = d /\ loop[h] # "closed"}
      /\ \A h \in Conn \ {k} : replaced'[h] = replaced[h]
      /\ registered'[d] = Append(registered[d], k)
      /\ \A x \in Device \ {d} : registered'[x] = registered[x]
  BY RealtimeAssumption DEF Connect, Inserted, MapType, OfADevice
<1>2. /\ registered'[d] \in Seq(Conn) /\ registered'[d] # <<>> /\ Newest(d)' = k
  BY <1>1, AppendProperties, LenProperties DEF MapType, Newest, Last
<1>3. \A x \in Device \ {d} : Newest(x)' = Newest(x)
  BY <1>1, Zenon DEF Newest
<1>4. MapType'
  <2>1. registered' \in [Device -> Seq(Conn)]
    BY <1>1, <1>2, Zenon DEF MapType, Connect
  <2>2. QED
    BY <2>1, Zenon DEF MapType, Connect, Inserted
<1>5. OfADevice'
  <2>1. \A h \in Conn : IF loop'[h] = "idle" THEN dev'[h] = None
                        ELSE dev'[h] \in Device /\ registered'[dev'[h]] # <<>>
    BY <1>1, <1>2 DEF OfADevice
  <2>2. ASSUME NEW x \in Device, registered'[x] # <<>>
        PROVE  Newest(x)' \in Conn /\ dev'[Newest(x)'] = x
    <3>1. CASE x = d
      BY <1>1, <1>2, <3>1, Zenon
    <3>2. CASE x # d
      BY <1>1, <1>3, <2>2, <3>2, RealtimeAssumption DEF OfADevice
    <3>3. QED
      BY <3>1, <3>2, Zenon
  <2>3. QED
    BY <2>1, <2>2, Zenon DEF OfADevice, Newest
<1>6. ReplacesOthers'
  <2>1. \A h \in replaced'[k] : h # k /\ dev'[h] = d
    BY <1>1, Zenon
  <2>2. \A j \in Conn \ {k} : \A h \in replaced'[j] :
            h # j /\ dev'[h] \in Device /\ dev'[h] = dev'[j]
    <3> SUFFICES ASSUME NEW j \in Conn \ {k}, NEW h \in replaced'[j]
                 PROVE  h # j /\ dev'[h] \in Device /\ dev'[h] = dev'[j]
      BY Zenon
    <3>1. h \in replaced[j] /\ h \in Conn
      BY <1>1, Zenon DEF MapType
    <3>2. h # k
      BY <1>1, <3>1, RealtimeAssumption, Zenon DEF ReplacesOthers
    <3>3. QED
      BY <1>1, <3>1, <3>2 DEF ReplacesOthers
  <2>3. ASSUME NEW x \in Device, NEW h \in Conn, registered'[x] # <<>>, dev'[h] = x,
               loop'[h] # "closed", h # Newest(x)'
        PROVE  h \in replaced'[Newest(x)']
    <3>1. CASE x = d
      BY <1>1, <1>2, <2>3, <3>1, Zenon
    <3>2. CASE x # d
      <4>1. h # k /\ Newest(x) \in Conn /\ Newest(x) # k
        BY <1>1, <2>3, <3>2, RealtimeAssumption DEF OfADevice
      <4>2. QED
        BY <1>1, <1>3, <2>3, <3>2, <4>1 DEF ReplacesOthers
    <3>3. QED
      BY <3>1, <3>2, Zenon
  <2>4. QED
    BY <1>1, <2>1, <2>2, <2>3 DEF ReplacesOthers, Newest
<1>7. NewestStays'
  <2> SUFFICES ASSUME NEW x \in Device, registered'[x] # <<>>, loop'[Newest(x)'] # "closed"
               PROVE  sessions'[x] = Newest(x)' <=>
                          \A h \in replaced'[Newest(x)'] : loop'[h] # "closed"
    BY Zenon DEF NewestStays, Newest
  <2>1. CASE x = d
    BY <1>1, <1>2, <2>1
  <2>2. CASE x # d
    <3>1. Newest(x) \in Conn /\ Newest(x) # k
      BY <1>1, <2>2, RealtimeAssumption DEF OfADevice
    <3>2. \A h \in replaced[Newest(x)] : h \in Conn /\ h # k
      BY <1>1, <3>1, RealtimeAssumption, Zenon DEF ReplacesOthers, MapType
    <3>3. QED
      BY <1>1, <1>3, <2>2, <3>1, <3>2 DEF NewestStays
  <2>3. QED
    BY <2>1, <2>2, Zenon
<1>8. SessionIsNewest'
  BY <1>1, <1>2, <1>3 DEF SessionIsNewest, Newest
<1>9. QED
  BY <1>4, <1>5, <1>6, <1>7, <1>8, Zenon

LEMMA MapClosed ==
    ASSUME MapInv, NEW k \in Conn, SessionClosed(k)
    PROVE  MapInv'
<1> USE DEF MapInv
<1> DEFINE d == dev[k]
<1>1. d \in Device /\ registered[d] # <<>> /\ loop[k] = "closing"
  BY Zenon DEF SessionClosed, OfADevice
<1>2. /\ loop'[k] = "closed" /\ \A h \in Conn \ {k} : loop'[h] = loop[h]
      /\ sessions'[d] = None /\ \A x \in Device \ {d} : sessions'[x] = sessions[x]
      /\ UNCHANGED <<dev, registered, replaced>>
  BY <1>1, Zenon DEF SessionClosed, Removed, MapType
<1>3. \A x \in Device : Newest(x)' = Newest(x)
  BY <1>2, Zenon DEF Newest
<1>4. MapType'
  BY <1>1, <1>2, Zenon DEF MapType, SessionClosed, Removed
<1>5. OfADevice'
  BY <1>1, <1>2, <1>3 DEF OfADevice, MapType
<1>6. ReplacesOthers'
  BY <1>1, <1>2, <1>3 DEF ReplacesOthers
<1>7. NewestStays'
  <2> SUFFICES ASSUME NEW x \in Device, registered[x] # <<>>, loop'[Newest(x)] # "closed"
               PROVE  sessions'[x] = Newest(x) <=>
                          \A h \in replaced[Newest(x)] : loop'[h] # "closed"
    BY <1>2, <1>3 DEF NewestStays
  <2>1. /\ Newest(x) \in Conn /\ Newest(x) # k /\ loop[Newest(x)] # "closed"
        /\ dev[Newest(x)] = x
    BY <1>2, Zenon DEF OfADevice
  <2>2. CASE x = d
    <3>1. k \in replaced[Newest(x)]
      BY <1>1, <2>1, <2>2, Zenon DEF ReplacesOthers
    <3>2. QED
      BY <1>2, <2>1, <2>2, <3>1, RealtimeAssumption
  <2>3. CASE x # d
    <3>1. \A h \in replaced[Newest(x)] : h \in Conn /\ h # k
      BY <2>1, <2>3, Zenon DEF ReplacesOthers, MapType
    <3>2. QED
      BY <1>2, <2>1, <2>3, <3>1 DEF NewestStays
  <2>4. QED
    BY <2>2, <2>3, Zenon
<1>8. SessionIsNewest'
  BY <1>2, Zenon DEF SessionIsNewest
<1>9. QED
  BY <1>4, <1>5, <1>6, <1>7, <1>8, Zenon

\* Any other step moves a loop at most between states that are neither the first
\* nor the last.
LEMMA MapStays ==
    ASSUME MapInv, UNCHANGED <<sessions, dev, registered, replaced>>,
           loop' \in [Conn -> {"idle", "register", "open", "closing", "closed"}],
           \A k \in Conn : /\ loop'[k] = "idle" <=> loop[k] = "idle"
                           /\ loop'[k] = "closed" <=> loop[k] = "closed"
    PROVE  MapInv'
<1> USE DEF MapInv
<1>1. \A x \in Device : Newest(x)' = Newest(x)
  BY Zenon DEF Newest
<1>2. MapType' /\ OfADevice' /\ SessionIsNewest'
  BY <1>1, Zenon DEF MapType, OfADevice, SessionIsNewest
<1>3. ReplacesOthers'
  BY <1>1 DEF ReplacesOthers
<1>4. NewestStays'
  <2>1. \A k \in Conn : replaced[k] \subseteq Conn
    BY Zenon DEF MapType
  <2>2. QED
    BY <1>1, <2>1 DEF NewestStays, OfADevice
<1>5. QED
  BY <1>2, <1>3, <1>4, Zenon

LEMMA MapNext == MapInv /\ [Next]_vars => MapInv'
<1> SUFFICES ASSUME MapInv, [Next]_vars PROVE MapInv'
  BY Zenon
<1>1. CASE \E k \in Conn, d \in Device : Connect(k, d)
  BY <1>1, MapConnect, Zenon
<1>2. CASE \E k \in Conn : SessionClosed(k)
  BY <1>2, MapClosed, Zenon
<1>3. ASSUME NEW k \in Conn, Drained(k) \/ LoopEnds(k)
      PROVE  MapInv'
  <2>1. UNCHANGED <<sessions, dev, registered, replaced>>
    BY <1>3, Zenon DEF Drained, LoopEnds, history
  <2>2. /\ loop' \in [Conn -> {"idle", "register", "open", "closing", "closed"}]
        /\ \A h \in Conn : /\ loop'[h] = "idle" <=> loop[h] = "idle"
                           /\ loop'[h] = "closed" <=> loop[h] = "closed"
    BY <1>3 DEF Drained, LoopEnds, MapInv, MapType
  <2>3. QED
    BY <2>1, <2>2, MapStays, Zenon
<1>4. CASE UNCHANGED <<sessions, dev, loop, registered, replaced>>
  <2>1. loop' \in [Conn -> {"idle", "register", "open", "closing", "closed"}]
    BY <1>4, Zenon DEF MapInv, MapType
  <2>2. QED
    BY <1>4, <2>1, MapStays
<1>5. ASSUME NEW k \in Conn,
             \/ RecvEvent(k) \/ WriteEvent(k) \/ WriteFails(k) \/ RecvNone(k)
             \/ Aborted(k) \/ ClientMute(k) \/ ClientGone(k) \/ \E e \in Event : Ack(k, e)
      PROVE  UNCHANGED <<sessions, dev, loop, registered, replaced>>
  BY <1>5, Zenon DEF RecvEvent, WriteEvent, WriteFails, RecvNone, Aborted, StopSender,
     ClientMute, ClientGone, Ack, server, history
<1>6. ASSUME NEW e \in Event, NEW d \in Device, Deliver(e, d)
      PROVE  UNCHANGED <<sessions, dev, loop, registered, replaced>>
  BY <1>6, Zenon DEF Deliver
<1>7. CASE UNCHANGED vars
  BY <1>4, <1>7, Zenon DEF vars, server, history
<1>8. QED
  BY <1>1, <1>2, <1>3, <1>4, <1>5, <1>6, <1>7, Zenon DEF Next, Task

LEMMA MapInvariant == Spec => []MapInv
  BY MapInit, MapNext, PTL DEF Spec

LEMMA NewestFollows == MapInv => NewestIsRegistered
  BY DEF MapInv, OfADevice, NewestStays, NewestIsRegistered, Newest

\* register_session replaces the entry and on_session_closed only removes it: an
\* entry is always the newest connection's.
THEOREM EntryIsNewest == Spec => []SessionIsNewest
  BY MapInvariant, PTL DEF MapInv

\* The newest connection keeps its entry at least until one that it replaced closes,
\* whose on_session_closed removes the entry of the device.
THEOREM NewestUntilClose == Spec => []NewestIsRegistered
  BY MapInvariant, NewestFollows, PTL

(***************************************************************************)
(* The channel.                                                            *)
(***************************************************************************)
ChannelType ==
    /\ sessions \in [Device -> Conn \cup {None}]
    /\ sender \in [Conn -> {"none", "running", "stopped"}]
    /\ chan \in [Conn -> Seq(Event)] /\ hand \in [Conn -> Event \cup {None}]
    /\ accepted \in [Conn -> Seq(Event)] /\ sent \in [Conn -> Seq(Event)]

ChannelInv == ChannelType /\ SentInOrder

\* What a connection's socket carries, as SentInOrder says of each.
InOrder(k) ==
    IF sender[k] = "stopped" THEN IsPrefix(sent[k], accepted[k])
    ELSE accepted[k] = sent[k] \o InFlight(k)

LEMMA EachInOrder == SentInOrder <=> \A k \in Conn : InOrder(k)
  BY Zenon DEF SentInOrder, InOrder

LEMMA InFlightType ==
    ASSUME ChannelType, NEW k \in Conn
    PROVE  InFlight(k) \in Seq(Event)
<1>1. chan[k] \in Seq(Event) /\ hand[k] \in Event \cup {None}
  BY Zenon DEF ChannelType
<1>2. CASE hand[k] = None
  BY <1>1, <1>2 DEF InFlight
<1>3. CASE hand[k] # None
  <2>1. <<hand[k]>> \in Seq(Event)
    BY <1>1, <1>3
  <2>2. QED
    BY <1>1, <1>3, <2>1, ConcatProperties DEF InFlight
<1>4. QED
  BY <1>2, <1>3, Zenon

LEMMA PrefixOfConcat ==
    ASSUME NEW S, NEW s \in Seq(S), NEW t \in Seq(S)
    PROVE  IsPrefix(s, s \o t)
<1>1. Len(s) \in Nat /\ Len(t) \in Nat /\ Len(s \o t) = Len(s) + Len(t)
  BY LenProperties, ConcatProperties, Zenon
<1>2. SubSeq(s, 1, Len(s)) = SubSeq(s \o t, 1, Len(s))
  <2>1. CASE Len(s) = 0
    BY <2>1, SubSeqEmpty
  <2>2. CASE Len(s) # 0
    BY <1>1, <2>2, SubSeqOfConcat1
  <2>3. QED
    BY <2>1, <2>2, Zenon
<1>3. QED
  BY <1>1, <1>2 DEF IsPrefix

LEMMA Associative ==
    \A a, b, c \in Seq(Event) : (a \o b) \o c = a \o (b \o c)
  BY ConcatAssociative

LEMMA HeadThenTail ==
    ASSUME NEW S, NEW s \in Seq(S), s # <<>>
    PROVE  s = <<Head(s)>> \o Tail(s)
<1>1. Len(s) \in Nat \ {0}
  BY EmptySeq, Zenon
<1>2. SubSeq(s, 1, Len(s)) = <<s[1]>> \o SubSeq(s, 2, Len(s))
  BY <1>1, SubSeqRecursiveFirst
<1>3. Head(s) = s[1] /\ Tail(s) = SubSeq(s, 2, Len(s)) /\ s = SubSeq(s, 1, Len(s))
  <2>1. SubSeq(s, 1, Len(s)) = s
    BY SubSeqFull, Zenon
  <2>2. Head(SubSeq(s, 1, Len(s))) = s[1] /\ Tail(SubSeq(s, 1, Len(s))) = SubSeq(s, 2, Len(s))
    BY <1>1, HeadTailOfSubSeq
  <2>3. QED
    BY <2>1, <2>2, Zenon
<1>4. QED
  BY <1>2, <1>3, Zenon

LEMMA ChannelInit == Init => ChannelInv
<1> SUFFICES ASSUME Init PROVE ChannelInv
  BY Zenon
<1>1. ChannelType
  BY EmptySeq, Zenon DEF Init, ChannelType
<1>2. \A k \in Conn : accepted[k] = <<>> /\ sent[k] = <<>> /\ InFlight(k) = <<>>
                      /\ sender[k] = "none"
  BY Zenon DEF Init, InFlight
<1>3. <<>> \o <<>> = <<>>
  BY ConcatEmptySeq, EmptySeq, Zenon
<1>4. QED
  BY <1>1, <1>2, <1>3, Zenon DEF ChannelInv, SentInOrder

\* A connection whose channel and socket are left alone stays in order.
LEMMA LeftInOrder ==
    ASSUME NEW k \in Conn, InOrder(k),
           sender'[k] = sender[k] \/ (sender[k] # "stopped" /\ sender'[k] # "stopped"),
           chan'[k] = chan[k], hand'[k] = hand[k],
           accepted'[k] = accepted[k], sent'[k] = sent[k]
    PROVE  InOrder(k)'
  BY Zenon DEF InOrder, InFlight

LEMMA ChannelDeliver ==
    ASSUME ChannelInv, NEW e \in Event, NEW d \in Device, Deliver(e, d)
    PROVE  ChannelInv'
<1> USE DEF ChannelInv
<1> DEFINE k == sessions[d]
<1>1. UNCHANGED <<sessions, sender, hand, sent>>
  BY Zenon DEF Deliver
<1>2. CASE UNCHANGED <<chan, accepted>>
  BY <1>1, <1>2 DEF ChannelType, SentInOrder, InFlight
<1>3. CASE /\ k # None /\ sender[k] # "stopped"
           /\ chan' = [chan EXCEPT ![k] = Append(@, e)]
           /\ accepted' = [accepted EXCEPT ![k] = Append(@, e)]
  <2>1. k \in Conn
    BY <1>3, Zenon DEF ChannelType
  <2>2. /\ chan'[k] = chan[k] \o <<e>> /\ accepted'[k] = accepted[k] \o <<e>>
        /\ chan'[k] \in Seq(Event) /\ accepted'[k] \in Seq(Event) /\ <<e>> \in Seq(Event)
        /\ \A h \in Conn \ {k} : chan'[h] = chan[h] /\ accepted'[h] = accepted[h]
    BY <1>3, <2>1, AppendIsConcat, AppendProperties DEF ChannelType
  <2>3. ChannelType'
    BY <1>1, <1>3, <2>1, <2>2, Zenon DEF ChannelType
  <2>4. InFlight(k)' = InFlight(k) \o <<e>>
    <3>1. chan[k] \in Seq(Event) /\ hand[k] \in Event \cup {None}
      BY <2>1, Zenon DEF ChannelType
    <3>2. CASE hand[k] = None
      BY <1>1, <2>2, <3>2, Zenon DEF InFlight
    <3>3. CASE hand[k] # None
      <4>1. <<hand[k]>> \in Seq(Event)
        BY <3>1, <3>3
      <4>2. (<<hand[k]>> \o chan[k]) \o <<e>> = <<hand[k]>> \o (chan[k] \o <<e>>)
        BY <2>2, <3>1, <4>1, Associative, Zenon
      <4>3. QED
        BY <1>1, <2>2, <3>3, <4>2 DEF InFlight
    <3>4. QED
      BY <3>2, <3>3, Zenon
  <2>5. accepted[k] = sent[k] \o InFlight(k) /\ sent[k] \in Seq(Event)
    BY <1>3, <2>1, Zenon DEF SentInOrder, ChannelType
  <2>6. (sent[k] \o InFlight(k)) \o <<e>> = sent[k] \o (InFlight(k) \o <<e>>)
    BY <2>1, <2>2, <2>5, InFlightType, Associative, Zenon
  <2>7. InOrder(k)'
    BY <1>1, <1>3, <2>2, <2>4, <2>5, <2>6, Zenon DEF InOrder
  <2>8. \A h \in Conn \ {k} : InOrder(h)'
    BY <1>1, <2>2, EachInOrder, LeftInOrder
  <2>9. QED
    BY <1>1, <2>1, <2>3, <2>7, <2>8 DEF SentInOrder, InOrder
<1>4. QED
  BY <1>2, <1>3, Zenon DEF Deliver

LEMMA ChannelRecv ==
    ASSUME ChannelInv, NEW k \in Conn, RecvEvent(k)
    PROVE  ChannelInv'
<1> USE DEF ChannelInv
<1>1. /\ hand[k] = None /\ chan[k] \in Seq(Event) /\ chan[k] # <<>>
      /\ hand'[k] = Head(chan[k]) /\ chan'[k] = Tail(chan[k])
      /\ \A h \in Conn \ {k} : hand'[h] = hand[h] /\ chan'[h] = chan[h]
      /\ UNCHANGED <<sessions, sender, sent, accepted>>
  BY Zenon DEF RecvEvent, ChannelType, history
<1>2. Head(chan[k]) \in Event /\ Tail(chan[k]) \in Seq(Event)
  BY <1>1, HeadTailProperties, Zenon
<1>3. ChannelType'
  BY <1>1, <1>2, Zenon DEF ChannelType, RecvEvent
<1>4. InFlight(k)' = InFlight(k)
  BY <1>1, <1>2, HeadThenTail, RealtimeAssumption, Zenon DEF InFlight
<1>5. InOrder(k)'
  BY <1>1, <1>4, EachInOrder, Zenon DEF InOrder
<1>6. \A h \in Conn \ {k} : InOrder(h)'
  BY <1>1, EachInOrder, LeftInOrder
<1>7. QED
  BY <1>3, <1>5, <1>6 DEF SentInOrder, InOrder

LEMMA ChannelWrite ==
    ASSUME ChannelInv, NEW k \in Conn, WriteEvent(k)
    PROVE  ChannelInv'
<1> USE DEF ChannelInv
<1>1. /\ sender[k] = "running" /\ hand[k] \in Event /\ hand[k] # None
      /\ chan[k] \in Seq(Event) /\ sent[k] \in Seq(Event)
      /\ hand'[k] = None /\ sent'[k] = Append(sent[k], hand[k])
      /\ \A h \in Conn \ {k} : hand'[h] = hand[h] /\ sent'[h] = sent[h]
      /\ UNCHANGED <<sessions, sender, chan, accepted>>
  BY Zenon DEF WriteEvent, ChannelType
<1>2. sent'[k] = sent[k] \o <<hand[k]>> /\ sent'[k] \in Seq(Event)
      /\ <<hand[k]>> \in Seq(Event)
  BY <1>1, AppendIsConcat, AppendProperties
<1>3. ChannelType'
  BY <1>1, <1>2, Zenon DEF ChannelType, WriteEvent
<1>4. (sent[k] \o <<hand[k]>>) \o chan[k] = sent[k] \o (<<hand[k]>> \o chan[k])
  BY <1>1, <1>2, Associative, Zenon
<1>5. InOrder(k)'
  BY <1>1, <1>2, <1>4, EachInOrder, Zenon DEF InOrder, InFlight
<1>6. \A h \in Conn \ {k} : InOrder(h)'
  BY <1>1, EachInOrder, LeftInOrder, Zenon
<1>7. QED
  BY <1>3, <1>5, <1>6 DEF SentInOrder, InOrder

LEMMA ChannelStop ==
    ASSUME ChannelInv, NEW k \in Conn, sender[k] = "running", StopSender(k)
    PROVE  ChannelInv'
<1> USE DEF ChannelInv
<1>1. /\ sender'[k] = "stopped"
      /\ \A h \in Conn \ {k} : /\ sender'[h] = sender[h] /\ hand'[h] = hand[h]
                                /\ chan'[h] = chan[h]
      /\ UNCHANGED <<sessions, sent, accepted>>
  BY Zenon DEF StopSender, ChannelType, history
<1>2. ChannelType'
  BY <1>1, EmptySeq, Zenon DEF ChannelType, StopSender
<1>3. IsPrefix(sent[k], accepted[k])
  <2>1. accepted[k] = sent[k] \o InFlight(k) /\ sent[k] \in Seq(Event)
    BY Zenon DEF SentInOrder, ChannelType
  <2>2. QED
    BY <2>1, InFlightType, PrefixOfConcat, Zenon
<1>4. InOrder(k)'
  BY <1>1, <1>3, Zenon DEF InOrder
<1>5. \A h \in Conn \ {k} : InOrder(h)'
  BY <1>1, EachInOrder, LeftInOrder, Zenon
<1>6. QED
  BY <1>2, <1>4, <1>5 DEF SentInOrder, InOrder

\* The steps of the receive loop and of the client, which touch no channel.
LEMMA ChannelStays ==
    ASSUME ChannelInv, sessions' \in [Device -> Conn \cup {None}],
           sender' \in [Conn -> {"none", "running", "stopped"}],
           \A k \in Conn : \/ sender'[k] = sender[k]
                           \/ sender[k] # "stopped" /\ sender'[k] # "stopped",
           UNCHANGED <<chan, hand, accepted, sent>>
    PROVE  ChannelInv'
<1>1. ChannelType'
  BY Zenon DEF ChannelInv, ChannelType
<1>2. \A k \in Conn : InOrder(k)'
  BY EachInOrder, LeftInOrder DEF ChannelInv
<1>3. QED
  BY <1>1, <1>2, Zenon DEF ChannelInv, SentInOrder, InOrder

\* The send task is spawned when register_session returns, and not before.
Spawned ==
    /\ loop \in [Conn -> {"idle", "register", "open", "closing", "closed"}]
    /\ sender \in [Conn -> {"none", "running", "stopped"}]
    /\ \A k \in Conn : loop[k] \in {"idle", "register"} => sender[k] = "none"

LEMMA SpawnedInvariant == Spec => []Spawned
<1>1. Init => Spawned
  BY DEF Init, Spawned
<1>2. Spawned /\ [Next]_vars => Spawned'
  <2> SUFFICES ASSUME Spawned, [Next]_vars PROVE Spawned'
    OBVIOUS
  <2>1. ASSUME NEW k \in Conn, Drained(k) \/ LoopEnds(k) \/ SessionClosed(k) PROVE Spawned'
    BY <2>1, Zenon DEF Drained, LoopEnds, SessionClosed, Spawned
  <2>2. ASSUME NEW k \in Conn, WriteFails(k) \/ RecvNone(k) \/ Aborted(k) PROVE Spawned'
    BY <2>2, Zenon DEF WriteFails, RecvNone, Aborted, StopSender, Spawned
  <2>3. ASSUME NEW k \in Conn, NEW d \in Device, Connect(k, d) PROVE Spawned'
    BY <2>3, Zenon DEF Connect, Spawned
  <2>4. CASE UNCHANGED <<loop, sender>>
    BY <2>4, Zenon DEF Spawned
  <2>5. ASSUME NEW k \in Conn, \/ RecvEvent(k) \/ WriteEvent(k) \/ ClientMute(k)
                                \/ ClientGone(k) \/ \E e \in Event : Ack(k, e)
        PROVE  Spawned'
    BY <2>4, <2>5, Zenon DEF RecvEvent, WriteEvent, ClientMute, ClientGone, Ack, server
  <2>6. CASE \E e \in Event, d \in Device : Deliver(e, d)
    BY <2>4, <2>6, Zenon DEF Deliver
  <2>7. CASE UNCHANGED vars
    BY <2>4, <2>7, Zenon DEF vars, server
  <2>8. QED
    BY <2>1, <2>2, <2>3, <2>5, <2>6, <2>7, Zenon DEF Next, Task
<1>3. QED
  BY <1>1, <1>2, PTL DEF Spec

LEMMA ChannelNext == Spawned /\ ChannelInv /\ [Next]_vars => ChannelInv'
<1> SUFFICES ASSUME Spawned, ChannelInv, [Next]_vars PROVE ChannelInv'
  BY Zenon
<1>1. ASSUME NEW k \in Conn, RecvEvent(k) \/ WriteEvent(k) PROVE ChannelInv'
  BY <1>1, ChannelRecv, ChannelWrite, Zenon
<1>2. ASSUME NEW k \in Conn, WriteFails(k) \/ RecvNone(k) \/ Aborted(k) PROVE ChannelInv'
  BY <1>2, ChannelStop, Zenon DEF WriteFails, RecvNone, Aborted
<1>3. CASE \E e \in Event, d \in Device : Deliver(e, d)
  BY <1>3, ChannelDeliver, Zenon
<1>4. CASE UNCHANGED <<sessions, sender, chan, hand, accepted, sent>>
  BY <1>4, Zenon DEF ChannelInv, ChannelType, SentInOrder, InFlight
<1>5. ASSUME NEW k \in Conn, Drained(k) PROVE ChannelInv'
  <2>1. /\ UNCHANGED <<sessions, chan, hand, accepted, sent>>
        /\ sender' = [sender EXCEPT ![k] = "running"]
    BY <1>5, Zenon DEF Drained, history
  <2>2. sender[k] # "stopped"
    BY <1>5, Zenon DEF Drained, Spawned
  <2>3. QED
    BY <2>1, <2>2, ChannelStays, Zenon DEF ChannelInv, ChannelType
<1>6. ASSUME NEW k \in Conn, NEW d \in Device, Connect(k, d) PROVE ChannelInv'
  <2>1. UNCHANGED <<sender, chan, hand, accepted, sent>>
    BY <1>6, Zenon DEF Connect
  <2>2. sessions' \in [Device -> Conn \cup {None}]
    BY <1>6, Zenon DEF Connect, Inserted, ChannelInv, ChannelType
  <2>3. QED
    BY <2>1, <2>2, ChannelStays, Zenon DEF ChannelInv, ChannelType
<1>7. ASSUME NEW k \in Conn, SessionClosed(k) PROVE ChannelInv'
  <2>1. UNCHANGED <<sender, chan, hand, accepted, sent>>
    BY <1>7, Zenon DEF SessionClosed
  <2>2. sessions' \in [Device -> Conn \cup {None}]
    BY <1>7, Zenon DEF SessionClosed, Removed, ChannelInv, ChannelType
  <2>3. QED
    BY <2>1, <2>2, ChannelStays, Zenon DEF ChannelInv, ChannelType
<1>8. ASSUME NEW k \in Conn,
             LoopEnds(k) \/ ClientMute(k) \/ ClientGone(k) \/ \E e \in Event : Ack(k, e)
      PROVE  ChannelInv'
  BY <1>4, <1>8, Zenon DEF LoopEnds, ClientMute, ClientGone, Ack, server, history
<1>9. CASE UNCHANGED vars
  BY <1>4, <1>9, Zenon DEF vars, server, history
<1>10. QED
  BY <1>1, <1>2, <1>3, <1>5, <1>6, <1>7, <1>8, <1>9, Zenon DEF Next, Task

LEMMA ChannelInvariant == Spec => []ChannelInv
  BY ChannelInit, SpawnedInvariant, ChannelNext, PTL DEF Spec

\* try_send and the send task: a socket carries what its channel took, in order and
\* without a gap, whatever replaces or closes the connection.
THEOREM SocketsInOrder == Spec => []SentInOrder
  BY ChannelInvariant, PTL DEF ChannelInv
=============================================================================
