----------------------------- MODULE WsHub_proofs -----------------------------
(***************************************************************************)
(* The channels of the hub never panic, for any number of clients,         *)
(* projects and messages and any size of buffer.                           *)
(***************************************************************************)
EXTENDS WsHub, SequenceTheorems, TLAPS

USE RoomAssumption, BufferAssumption, MessagesAssumption

\* The only step that closes a channel removes its client from the hub.
LEMMA UnregisterKeeps ==
    ASSUME HubInv, NEW c \in Clients, Unregister(c)
    PROVE  /\ rooms' \in [Projects -> SUBSET Clients]
           /\ closes' \in [Clients -> Nat]
           /\ RoomsSorted'
           /\ left = {}
           /\ \A d \in Clients : /\ closes'[d] <= 1
                                 /\ d \in rooms'[Room[d]] => closes'[d] = 0 /\ Present(d)
                                 /\ closes'[d] = closes[d] \/ Present(d)
<1> USE DEF HubInv, TypeOK, RoomsSorted, LoopInv, ChannelInv, Present
<1>1. left = {}
  BY DEF Unregister, LockFree
<1>2. CASE ~Present(c)
  BY <1>1, <1>2 DEF Unregister
<1>3. CASE Present(c)
  <2>1. /\ rooms' = [rooms EXCEPT ![Room[c]] = @ \ {c}]
        /\ closes' = [closes EXCEPT ![c] = @ + 1]
    BY <1>3 DEF Unregister, CloseSend
  <2>2. /\ rooms' \in [Projects -> SUBSET Clients]
        /\ closes' \in [Clients -> Nat]
    BY <2>1
  <2>3. RoomsSorted'
    BY <2>1
  <2>4. ASSUME NEW d \in Clients
        PROVE  /\ closes'[d] <= 1
               /\ d \in rooms'[Room[d]] => closes'[d] = 0 /\ Present(d)
               /\ closes'[d] = closes[d] \/ Present(d)
    <3>1. CASE d = c
      BY <1>3, <2>1, <3>1
    <3>2. CASE d # c
      <4>1. closes'[d] = closes[d]
        BY <2>1, <3>2
      <4>2. d \in rooms'[Room[d]] => d \in rooms[Room[d]]
        BY <2>1
      <4> QED
        BY <4>1, <4>2
    <3> QED
      BY <3>1, <3>2
  <2> QED
    BY <1>1, <2>2, <2>3, <2>4
<1> QED
  BY <1>2, <1>3

LEMMA HubInvInit == Init => HubInv
  BY DEF Init, HubInv, TypeOK, RoomsSorted, LoopInv, ChannelInv, Present

LEMMA HubInvNext == HubInv /\ [Next]_vars => HubInv'
<1> SUFFICES ASSUME HubInv, [Next]_vars
             PROVE  HubInv'
  OBVIOUS
<1> USE DEF hubVars, clientVars, histVars
<1>1. ASSUME NEW c \in Clients, Register(c)
      PROVE  HubInv'
  <2> USE DEF HubInv, TypeOK, RoomsSorted, LoopInv, ChannelInv, Present
  <2>1. left = {}
    BY <1>1 DEF Register, LockFree
  <2>2. TypeOK'
    BY <1>1 DEF Register
  <2>3. RoomsSorted' /\ LoopInv'
    BY <1>1, <2>1 DEF Register
  <2>4. ChannelInv'
    BY <1>1 DEF Register
  <2> QED
    BY <2>2, <2>3, <2>4
<1>2. ASSUME NEW p \in Projects, Receive(p)
      PROVE  HubInv'
  <2> USE DEF HubInv, TypeOK, RoomsSorted, LoopInv, ChannelInv, Present
  <2>1. TypeOK'
    BY <1>2 DEF Receive
  <2>2. RoomsSorted' /\ ChannelInv'
    BY <1>2 DEF Receive
  <2>3. LoopInv'
    BY <1>2 DEF Receive
  <2> QED
    BY <2>1, <2>2, <2>3
<1>3. ASSUME NEW c \in Clients, Deliver(c)
      PROVE  HubInv'
  <2> USE DEF HubInv, TypeOK, RoomsSorted, LoopInv, ChannelInv, Present
  <2>1. current \in Messages
    BY <1>3 DEF Deliver, Messages
  <2>2. /\ buf' \in [Clients -> Seq(Messages)]
        /\ \A d \in Clients : Len(buf'[d]) <= BufferSize
        /\ kicks' \in [Clients -> Nat]
    <3>1. CASE HasRoom(c)
      <4>1. /\ buf' = [buf EXCEPT ![c] = Append(@, current)]
            /\ kicks' = kicks
        BY <1>3, <3>1 DEF Deliver
      <4>2. /\ Append(buf[c], current) \in Seq(Messages)
            /\ Len(Append(buf[c], current)) <= BufferSize
        BY <2>1, <3>1 DEF HasRoom
      <4> QED
        BY <4>1, <4>2
    <3>2. CASE ~HasRoom(c)
      <4>1. buf' = buf /\ kicks' = [kicks EXCEPT ![c] = @ + 1]
        BY <1>3, <3>2 DEF Deliver, Kicked
      <4> QED
        BY <4>1
    <3> QED
      BY <3>1, <3>2
  <2>3. due' \in [Clients -> Seq(Messages)]
    <3>1. Append(due[c], current) \in Seq(Messages)
      BY <2>1
    <3> QED
      BY <1>3, <3>1 DEF Deliver
  <2>4. TypeOK'
    <3>1. left' \subseteq Clients /\ current' \in 0..NumMessages
      BY <1>3 DEF Deliver
    <3>2. UNCHANGED <<rooms, sent, closes, writer, hand, reader, conn, gone, got>>
      BY <1>3 DEF Deliver
    <3> QED
      BY <2>2, <2>3, <3>1, <3>2
  <2>5. RoomsSorted' /\ ChannelInv' /\ LoopInv'
    BY <1>3 DEF Deliver
  <2> QED
    BY <2>4, <2>5
<1>4. ASSUME NEW c \in Clients, Kick(c)
      PROVE  HubInv'
  <2>1. Unregister(c)
    BY <1>4 DEF Kick
  <2>2. kicks' \in [Clients -> Nat]
    BY <1>4 DEF Kick, HubInv, TypeOK
  <2>3. TypeOK'
    BY <1>4, <2>1, <2>2, UnregisterKeeps DEF Kick, HubInv, TypeOK
  <2>4. RoomsSorted' /\ LoopInv'
    BY <1>4, <2>1, UnregisterKeeps DEF Kick, LoopInv
  <2>5. ChannelInv'
    BY <1>4, <2>1, UnregisterKeeps DEF Kick, HubInv, ChannelInv, Present
  <2> QED
    BY <2>3, <2>4, <2>5 DEF HubInv
<1>5. ASSUME NEW c \in Clients, ReaderUnregister(c)
      PROVE  HubInv'
  <2>1. Unregister(c)
    BY <1>5 DEF ReaderUnregister
  <2>2. TypeOK'
    <3>1. rooms' \in [Projects -> SUBSET Clients] /\ closes' \in [Clients -> Nat]
      BY <2>1, UnregisterKeeps
    <3>2. reader' \in [Clients -> {"none", "read", "unregister", "close", "done"}]
      BY <1>5 DEF ReaderUnregister, HubInv, TypeOK
    <3>3. UNCHANGED <<sent, current, left, kicks, buf, writer, hand, conn, gone,
                      histVars>>
      BY <1>5 DEF ReaderUnregister
    <3> QED
      BY <3>1, <3>2, <3>3 DEF HubInv, TypeOK
  <2>3. RoomsSorted' /\ LoopInv'
    BY <1>5, <2>1, UnregisterKeeps DEF ReaderUnregister, LoopInv
  <2>4. ChannelInv'
    BY <1>5, <2>1, UnregisterKeeps DEF ReaderUnregister, HubInv, ChannelInv, Present
  <2> QED
    BY <2>2, <2>3, <2>4 DEF HubInv
\* The steps of the pumps that leave the hub and the channels alone.
<1>6. ASSUME UNCHANGED <<rooms, current, left, closes>>, TypeOK',
             \A d \in Clients : writer'[d] = "none" <=> writer[d] = "none"
      PROVE  HubInv'
  BY <1>6 DEF HubInv, RoomsSorted, LoopInv, ChannelInv, Present
<1>7. ASSUME NEW c \in Clients, Leave(c)
      PROVE  HubInv'
  <2>1. TypeOK'
    BY <1>7 DEF Leave, HubInv, TypeOK
  <2> QED
    BY <1>6, <1>7, <2>1 DEF Leave
<1>8. ASSUME NEW c \in Clients, WriterTake(c)
      PROVE  HubInv'
  <2>1. /\ Head(buf[c]) \in Messages
        /\ Tail(buf[c]) \in Seq(Messages)
        /\ Len(Tail(buf[c])) <= BufferSize
    BY <1>8 DEF WriterTake, HubInv, TypeOK
  <2>2. TypeOK'
    BY <1>8, <2>1 DEF WriterTake, HubInv, TypeOK
  <2>3. \A d \in Clients : writer'[d] = "none" <=> writer[d] = "none"
    BY <1>8 DEF WriterTake, HubInv, TypeOK
  <2> QED
    BY <1>6, <1>8, <2>2, <2>3 DEF WriterTake
<1>9. ASSUME NEW c \in Clients, WriterWrite(c)
      PROVE  HubInv'
  <2>1. /\ writer[c] # "none"
        /\ \/ writer' = [writer EXCEPT ![c] = "select"]
           \/ writer' = [writer EXCEPT ![c] = "done"]
    BY <1>9 DEF WriterWrite, WriterExit
  <2>2. UNCHANGED <<hubVars, buf, closes, reader, gone, due>>
    BY <1>9 DEF WriterWrite
  <2>3. /\ conn' \in [Clients -> {"open", "closed"}]
        /\ hand' \in [Clients -> Seq(Messages)]
    <3>1. /\ hand' = [hand EXCEPT ![c] = <<>>]
          /\ conn' = conn \/ conn' = [conn EXCEPT ![c] = "closed"]
      BY <1>9 DEF WriterWrite, WriterExit
    <3>2. <<>> \in Seq(Messages)
      OBVIOUS
    <3>3. /\ hand \in [Clients -> Seq(Messages)]
          /\ conn \in [Clients -> {"open", "closed"}]
      BY DEF HubInv, TypeOK
    <3> QED
      BY <3>1, <3>2, <3>3
  <2>4. got' \in [Clients -> Seq(Messages)]
    <3>1. got[c] \o hand[c] \in Seq(Messages)
      BY DEF HubInv, TypeOK
    <3>2. got' = got \/ got' = [got EXCEPT ![c] = @ \o hand[c]]
      BY <1>9 DEF WriterWrite
    <3>3. got \in [Clients -> Seq(Messages)]
      BY DEF HubInv, TypeOK
    <3> QED
      BY <3>1, <3>2, <3>3
  <2>5. TypeOK'
    BY <2>1, <2>2, <2>3, <2>4 DEF HubInv, TypeOK
  <2>6. \A d \in Clients : writer'[d] = "none" <=> writer[d] = "none"
    BY <2>1 DEF HubInv, TypeOK
  <2> QED
    BY <1>6, <2>2, <2>5, <2>6
<1>10. ASSUME NEW c \in Clients, WriterClosed(c) \/ WriterPing(c)
       PROVE  HubInv'
  <2>1. /\ writer[c] # "none"
        /\ writer' = [writer EXCEPT ![c] = "done"]
        /\ UNCHANGED <<hubVars, buf, closes, reader, gone, histVars>>
    BY <1>10 DEF WriterClosed, WriterPing, WriterExit
  <2>2. /\ hand' \in [Clients -> Seq(Messages)]
        /\ conn' \in [Clients -> {"open", "closed"}]
    <3>1. /\ hand' = [hand EXCEPT ![c] = <<>>]
          /\ conn' = [conn EXCEPT ![c] = "closed"]
      BY <1>10 DEF WriterClosed, WriterPing, WriterExit
    <3>2. <<>> \in Seq(Messages)
      OBVIOUS
    <3>3. /\ hand \in [Clients -> Seq(Messages)]
          /\ conn \in [Clients -> {"open", "closed"}]
      BY DEF HubInv, TypeOK
    <3> QED
      BY <3>1, <3>2, <3>3
  <2>3. TypeOK'
    BY <2>1, <2>2 DEF HubInv, TypeOK
  <2>4. \A d \in Clients : writer'[d] = "none" <=> writer[d] = "none"
    BY <2>1 DEF HubInv, TypeOK
  <2> QED
    BY <1>6, <2>1, <2>3, <2>4
<1>11. ASSUME NEW c \in Clients, ReaderFails(c) \/ ReaderClose(c)
       PROVE  HubInv'
  <2>1. /\ reader' \in [Clients -> {"none", "read", "unregister", "close", "done"}]
        /\ conn' \in [Clients -> {"open", "closed"}]
    <3>1. /\ \/ reader' = [reader EXCEPT ![c] = "unregister"]
             \/ reader' = [reader EXCEPT ![c] = "done"]
          /\ conn' = conn \/ conn' = [conn EXCEPT ![c] = "closed"]
      BY <1>11 DEF ReaderFails, ReaderClose
    <3>2. /\ reader \in [Clients -> {"none", "read", "unregister", "close", "done"}]
          /\ conn \in [Clients -> {"open", "closed"}]
      BY DEF HubInv, TypeOK
    <3> QED
      BY <3>1, <3>2
  <2>2. UNCHANGED <<hubVars, buf, closes, writer, hand, gone, histVars>>
    BY <1>11 DEF ReaderFails, ReaderClose
  <2>3. TypeOK'
    BY <2>1, <2>2 DEF HubInv, TypeOK
  <2> QED
    BY <1>6, <2>2, <2>3
<1>12. CASE UNCHANGED vars
  BY <1>12 DEF vars, HubInv, TypeOK, RoomsSorted, LoopInv, ChannelInv, Present
<1> QED
  BY <1>1, <1>2, <1>3, <1>4, <1>5, <1>7, <1>8, <1>9, <1>10, <1>11, <1>12
  DEF Next, WritePump, ReadPump

(***************************************************************************)
(* The hub, its clients and their channels are what TypeOK says.           *)
(***************************************************************************)
THEOREM HubTyped == Spec => []TypeOK
<1>1. HubInv => TypeOK
  BY DEF HubInv
<1> QED
  BY HubInvInit, HubInvNext, <1>1, PTL DEF Spec

(***************************************************************************)
(* The broadcast loop never sends on a closed channel, and no channel is   *)
(* closed twice, whatever the order in which the subscriber, the pumps and *)
(* the unregistering goroutines run.                                       *)
(***************************************************************************)
THEOREM ChannelsNeverPanic == Spec => []NeverPanics
<1>1. HubInv => SendsToOpen
  BY DEF HubInv, TypeOK, LoopInv, ChannelInv, SendsToOpen
<1>2. HubInv => ClosedOnce
  BY DEF HubInv, ChannelInv, ClosedOnce
<1> QED
  BY HubInvInit, HubInvNext, <1>1, <1>2, PTL DEF Spec, NeverPanics

-----------------------------------------------------------------------------
(* No message is missing from a client that stays.                         *)

\* A message that is broadcast joins what is on its way.
LEMMA StreamAppend ==
    ASSUME NEW S, NEW g \in Seq(S), NEW h \in Seq(S), NEW b \in Seq(S), NEW m \in S
    PROVE  g \o h \o Append(b, m) = Append(g \o h \o b, m)
<1> DEFINE gh == g \o h
<1>1. gh \in Seq(S)
  BY ConcatProperties
<1>2. <<m>> \in Seq(S)
  OBVIOUS
<1>3. Append(b, m) = b \o <<m>>
  BY AppendIsConcat
<1>4. gh \o b \in Seq(S)
  BY <1>1, ConcatProperties
<1>5. Append(gh \o b, m) = (gh \o b) \o <<m>>
  BY <1>4, AppendIsConcat
<1> HIDE DEF gh
<1>6. (gh \o b) \o <<m>> = gh \o (b \o <<m>>)
  BY <1>1, <1>2, ConcatAssociative
<1> QED
  BY <1>3, <1>5, <1>6 DEF gh

\* A message that is taken from the channel stays where it was in the order.
LEMMA StreamTake ==
    ASSUME NEW S, NEW g \in Seq(S), NEW b \in Seq(S), b # <<>>
    PROVE  g \o <<Head(b)>> \o Tail(b) = g \o <<>> \o b
<1>1. Head(b) \in S /\ Tail(b) \in Seq(S) /\ <<Head(b)>> \in Seq(S)
  BY HeadTailProperties
<1>2. <<Head(b)>> \o Tail(b) = b
  BY <1>1, HeadTailProperties, ConcatProperties, SeqEqual
<1>3. (g \o <<Head(b)>>) \o Tail(b) = g \o (<<Head(b)>> \o Tail(b))
  BY <1>1, ConcatAssociative
<1>4. g \o <<>> = g
  BY ConcatEmptySeq
<1> QED
  BY <1>2, <1>3, <1>4

\* So does one that is written.
LEMMA StreamWrite ==
    ASSUME NEW S, NEW g \in Seq(S), NEW h \in Seq(S), NEW b \in Seq(S)
    PROVE  (g \o h) \o <<>> \o b = g \o h \o b
<1>1. g \o h \in Seq(S)
  BY ConcatProperties
<1> QED
  BY <1>1, ConcatEmptySeq

GapInv == HubInv /\ PumpInv /\ NoSilentGap

LEMMA GapInvInit == Init => GapInv
<1> SUFFICES ASSUME Init PROVE GapInv
  OBVIOUS
<1>1. HubInv
  BY HubInvInit
<1>2. PumpInv
  BY DEF Init, PumpInv
<1>3. NoSilentGap
  BY DEF Init, NoSilentGap, Present
<1> QED
  BY <1>1, <1>2, <1>3 DEF GapInv

\* A step that leaves the streams and the kicks alone, and adds no client to
\* the hub and no open connection.
LEMMA GapStays ==
    ASSUME GapInv, UNCHANGED <<got, hand, buf, due>>,
           \A c \in Clients : Present(c)' /\ kicks'[c] = 0 /\ conn'[c] = "open"
                                => Present(c) /\ kicks[c] = 0 /\ conn[c] = "open"
    PROVE  NoSilentGap'
BY DEF GapInv, NoSilentGap, Stream

LEMMA GapInvNext == GapInv /\ [Next]_vars => GapInv'
<1> SUFFICES ASSUME GapInv, [Next]_vars
             PROVE  PumpInv' /\ NoSilentGap'
  BY HubInvNext DEF GapInv
<1> USE DEF hubVars, clientVars, histVars
<1>t. TypeOK
  BY DEF GapInv, HubInv
<1>1. ASSUME NEW c \in Clients, Register(c)
      PROVE  PumpInv' /\ NoSilentGap'
  <2>1. PumpInv'
    BY <1>1, <1>t DEF Register, GapInv, PumpInv, TypeOK
  <2>2. got[c] = <<>> /\ hand[c] = <<>> /\ buf[c] = <<>> /\ due[c] = <<>>
    BY <1>1 DEF Register, GapInv, PumpInv
  <2>3. UNCHANGED <<kicks, got, hand, buf, due, conn>>
    BY <1>1 DEF Register
  <2>4. ASSUME NEW d \in Clients, Present(d)', kicks'[d] = 0, conn'[d] = "open"
        PROVE  Stream(d)' = due'[d]
    <3>1. CASE d = c
      <4>1. <<>> \o <<>> \o <<>> = <<>>
        BY ConcatEmptySeq, <<>> \in Seq(Messages)
      <4> QED
        BY <2>2, <2>3, <3>1, <4>1 DEF Stream
    <3>2. CASE d # c
      <4>1. Present(d)
        BY <1>1, <1>t, <2>4, <3>2 DEF Register, Present, TypeOK
      <4> QED
        BY <2>3, <2>4, <4>1 DEF GapInv, NoSilentGap, Stream
    <3> QED
      BY <3>1, <3>2
  <2> QED
    BY <2>1, <2>4 DEF NoSilentGap
<1>2. ASSUME NEW p \in Projects, Receive(p)
      PROVE  PumpInv' /\ NoSilentGap'
  <2>1. PumpInv'
    BY <1>2 DEF Receive, GapInv, PumpInv
  <2> QED
    BY <1>2, <2>1, GapStays DEF Receive, Present
<1>3. ASSUME NEW c \in Clients, Deliver(c)
      PROVE  PumpInv' /\ NoSilentGap'
  <2>1. /\ current \in Messages
        /\ writer[c] # "none"
    BY <1>3, <1>t DEF Deliver, GapInv, HubInv, LoopInv, ChannelInv, TypeOK, Messages
  <2>2. /\ due' = [due EXCEPT ![c] = Append(@, current)]
        /\ \/ HasRoom(c) /\ kicks' = kicks /\ buf' = [buf EXCEPT ![c] = Append(@, current)]
           \/ kicks' = [kicks EXCEPT ![c] = @ + 1] /\ buf' = buf
        /\ UNCHANGED <<rooms, writer, hand, conn, got>>
    BY <1>3 DEF Deliver, Kicked
  <2>3. \A d \in Clients : d # c => /\ due'[d] = due[d] /\ buf'[d] = buf[d]
                                    /\ kicks'[d] = kicks[d]
    BY <2>2, <1>t DEF TypeOK
  <2>4. PumpInv'
    BY <2>1, <2>2, <2>3 DEF GapInv, PumpInv
  <2>5. ASSUME NEW d \in Clients, Present(d)', kicks'[d] = 0, conn'[d] = "open"
        PROVE  Stream(d)' = due'[d]
    <3>1. CASE d # c
      BY <2>2, <2>3, <2>5, <3>1 DEF GapInv, NoSilentGap, Stream, Present
    <3>2. CASE d = c
      <4>1. kicks' = kicks /\ buf' = [buf EXCEPT ![c] = Append(@, current)]
        BY <1>t, <2>2, <2>5, <3>2 DEF TypeOK
      <4>2. got[c] \o hand[c] \o buf[c] = due[c]
        BY <2>2, <2>5, <3>2, <4>1 DEF GapInv, NoSilentGap, Stream, Present
      <4>3. got[c] \in Seq(Messages) /\ hand[c] \in Seq(Messages) /\ buf[c] \in Seq(Messages)
        BY <1>t DEF TypeOK
      <4>4. got[c] \o hand[c] \o Append(buf[c], current) = Append(got[c] \o hand[c] \o buf[c], current)
        <5> DEFINE g == got[c]
                   h == hand[c]
                   b == buf[c]
        <5>1. g \in Seq(Messages) /\ h \in Seq(Messages) /\ b \in Seq(Messages)
          BY <4>3
        <5> HIDE DEF g, h, b
        <5>2. g \o h \o Append(b, current) = Append(g \o h \o b, current)
          BY <2>1, <5>1, StreamAppend
        <5> QED
          BY <5>2 DEF g, h, b
      <4>5. buf'[c] = Append(buf[c], current) /\ due'[c] = Append(due[c], current)
        BY <1>t, <2>2, <4>1 DEF TypeOK
      <4> QED
        BY <2>2, <3>2, <4>2, <4>4, <4>5 DEF Stream
    <3> QED
      BY <3>1, <3>2
  <2> QED
    BY <2>4, <2>5 DEF NoSilentGap
<1>4. ASSUME NEW c \in Clients, Kick(c)
      PROVE  PumpInv' /\ NoSilentGap'
  <2>1. PumpInv'
    BY <1>4, <1>t DEF Kick, GapInv, PumpInv, TypeOK
  <2>2. ASSUME NEW d \in Clients, Present(d)', kicks'[d] = 0
        PROVE  Present(d) /\ kicks[d] = 0
    <3>1. Present(d) /\ d # c
      BY <1>4, <1>t, <2>2 DEF Kick, Unregister, Present, TypeOK
    <3> QED
      BY <1>4, <1>t, <2>2, <3>1 DEF Kick, TypeOK
  <2> QED
    BY <1>4, <2>1, <2>2, GapStays DEF Kick
<1>5. ASSUME NEW c \in Clients, ReadPump(c) \/ Leave(c)
      PROVE  PumpInv' /\ NoSilentGap'
  <2>1. UNCHANGED <<kicks, got, hand, buf, due, writer>>
    BY <1>5 DEF ReadPump, ReaderFails, ReaderUnregister, ReaderClose, Leave
  <2>2. PumpInv'
    BY <2>1 DEF GapInv, PumpInv
  <2>3. ASSUME NEW d \in Clients, Present(d)', conn'[d] = "open"
        PROVE  Present(d) /\ conn[d] = "open"
    <3>1. Present(d)
      <4>1. CASE rooms' = rooms
        BY <2>3, <4>1 DEF Present
      <4>2. CASE ReaderUnregister(c)
        BY <1>t, <2>3, <4>2 DEF ReaderUnregister, Unregister, Present, TypeOK
      <4> QED
        BY <1>5, <4>1, <4>2 DEF ReadPump, ReaderFails, ReaderClose, Leave
    <3>2. conn' = conn \/ conn' = [conn EXCEPT ![c] = "closed"]
      BY <1>5 DEF ReadPump, ReaderFails, ReaderUnregister, ReaderClose, Leave
    <3> QED
      BY <1>t, <2>3, <3>1, <3>2 DEF TypeOK
  <2> QED
    BY <2>1, <2>2, <2>3, GapStays
<1>6. ASSUME NEW c \in Clients, WriterTake(c)
      PROVE  PumpInv' /\ NoSilentGap'
  <2>1. /\ hand[c] = <<>> /\ buf[c] # <<>>
        /\ hand' = [hand EXCEPT ![c] = <<Head(buf[c])>>]
        /\ buf' = [buf EXCEPT ![c] = Tail(@)]
        /\ writer' = [writer EXCEPT ![c] = "write"]
        /\ UNCHANGED <<rooms, kicks, conn, got, due>>
    BY <1>6 DEF WriterTake, GapInv, PumpInv
  <2>2. /\ hand'[c] = <<Head(buf[c])>> /\ buf'[c] = Tail(buf[c]) /\ writer'[c] = "write"
        /\ \A d \in Clients : d # c => /\ hand'[d] = hand[d] /\ buf'[d] = buf[d]
                                       /\ writer'[d] = writer[d]
    BY <1>t, <2>1 DEF TypeOK
  <2>3. PumpInv'
    BY <2>1, <2>2 DEF GapInv, PumpInv
  <2>4. got[c] \in Seq(Messages) /\ buf[c] \in Seq(Messages)
    BY <1>t DEF TypeOK
  <2>5. got[c] \o <<Head(buf[c])>> \o Tail(buf[c]) = got[c] \o <<>> \o buf[c]
    BY <2>1, <2>4, StreamTake
  <2>6. \A d \in Clients : Stream(d)' = Stream(d)
    BY <2>1, <2>2, <2>5 DEF Stream
  <2> QED
    BY <2>1, <2>3, <2>6 DEF GapInv, NoSilentGap, Present
<1>7. ASSUME NEW c \in Clients, WriterWrite(c) \/ WriterClosed(c) \/ WriterPing(c)
      PROVE  PumpInv' /\ NoSilentGap'
  <2>1. /\ writer[c] # "none"
        /\ writer' = [writer EXCEPT ![c] = "select"] \/ writer' = [writer EXCEPT ![c] = "done"]
        /\ hand' = [hand EXCEPT ![c] = <<>>]
        /\ UNCHANGED <<rooms, kicks, buf, due>>
    BY <1>7 DEF WriterWrite, WriterClosed, WriterPing, WriterExit
  <2>2. \/ got' = [got EXCEPT ![c] = @ \o hand[c]] /\ conn' = conn
        \/ got' = got /\ conn' = [conn EXCEPT ![c] = "closed"]
    BY <1>7 DEF WriterWrite, WriterClosed, WriterPing, WriterExit
  <2>3. /\ hand'[c] = <<>> /\ writer'[c] \in {"select", "done"}
        /\ \A d \in Clients : d # c => /\ hand'[d] = hand[d] /\ got'[d] = got[d]
                                       /\ writer'[d] = writer[d] /\ conn'[d] = conn[d]
    BY <1>t, <2>1, <2>2 DEF TypeOK
  <2>4. PumpInv'
    BY <2>1, <2>3 DEF GapInv, PumpInv
  <2>5. got[c] \in Seq(Messages) /\ hand[c] \in Seq(Messages) /\ buf[c] \in Seq(Messages)
    BY <1>t DEF TypeOK
  <2>6. (got[c] \o hand[c]) \o <<>> \o buf[c] = got[c] \o hand[c] \o buf[c]
    BY <2>5, StreamWrite
  <2>7. conn'[c] = "open" => conn[c] = "open" /\ got'[c] = got[c] \o hand[c]
    BY <1>t, <2>2 DEF TypeOK
  <2>8. \A d \in Clients : conn'[d] = "open" => conn[d] = "open" /\ Stream(d)' = Stream(d)
    BY <2>1, <2>3, <2>6, <2>7 DEF Stream
  <2> QED
    BY <2>1, <2>4, <2>8 DEF GapInv, NoSilentGap, Present
<1>8. CASE UNCHANGED vars
  BY <1>8, GapStays DEF vars, GapInv, PumpInv, Present
<1> QED
  BY <1>1, <1>2, <1>3, <1>4, <1>5, <1>6, <1>7, <1>8 DEF Next, WritePump

(***************************************************************************)
(* No dashboard stays connected with a message missing, for any number of  *)
(* clients and messages and any size of buffer.                            *)
(***************************************************************************)
THEOREM NothingMissing == Spec => []NoSilentGap
<1>1. GapInv => NoSilentGap
  BY DEF GapInv
<1> QED
  BY GapInvInit, GapInvNext, <1>1, PTL DEF Spec
-----------------------------------------------------------------------------
(* The hub implements Broadcast.                                           *)

\* A message that is coming is put into the channel.
LEMMA InboxDeliver ==
    ASSUME NEW S, NEW h \in Seq(S), NEW b \in Seq(S), NEW m \in S
    PROVE  h \o Append(b, m) \o <<>> = h \o b \o <<m>>
<1>1. <<m>> \in Seq(S) /\ <<>> \in Seq(S) /\ Append(b, m) \in Seq(S) /\ Append(b, m) = b \o <<m>>
  BY AppendIsConcat, AppendProperties, EmptySeq
<1>2. h \o Append(b, m) \in Seq(S)
  BY <1>1, ConcatProperties
<1>3. (h \o Append(b, m)) \o <<>> = h \o Append(b, m)
  BY <1>2, ConcatEmptySeq
<1>4. (h \o b) \o <<m>> = h \o (b \o <<m>>)
  BY <1>1, ConcatAssociative
<1> QED
  BY <1>1, <1>3, <1>4

\* A message that is published comes last.
LEMMA InboxPublish ==
    ASSUME NEW S, NEW h \in Seq(S), NEW b \in Seq(S), NEW m \in S
    PROVE  h \o b \o <<m>> = Append(h \o b \o <<>>, m)
<1>1. h \o b \in Seq(S)
  BY ConcatProperties
<1>2. (h \o b) \o <<>> = h \o b
  BY <1>1, ConcatEmptySeq
<1>3. Append(h \o b, m) = (h \o b) \o <<m>>
  BY <1>1, AppendIsConcat
<1> QED
  BY <1>2, <1>3

\* A message that does not fit is the last one.
LEMMA InboxDrop ==
    ASSUME NEW S, NEW h \in Seq(S), NEW b \in Seq(S), NEW m \in S
    PROVE  /\ Len(h \o b \o <<m>>) = Len(h) + Len(b) + 1
           /\ LET i == h \o b \o <<m>> IN h \o b \o <<>> = SubSeq(i, 1, Len(i) - 1)
<1>1. h \o b \in Seq(S) /\ Len(h \o b) = Len(h) + Len(b) /\ Len(h \o b) \in Nat
  BY ConcatProperties, LenProperties
<1>2. (h \o b) \o <<>> = h \o b
  BY <1>1, ConcatEmptySeq
<1> DEFINE s == h \o b
           i == s \o <<m>>
<1>3. s \in Seq(S) /\ Len(s) \in Nat
  BY <1>1
<1> HIDE DEF s
<1>4. /\ i = Append(s, m) /\ i \in Seq(S) /\ Len(i) = Len(s) + 1
      /\ \A k \in 1..Len(s) : i[k] = s[k]
  BY <1>3, AppendIsConcat, AppendProperties
<1>5. \A k \in 1..Len(s) : i[k] \in S
  BY <1>3, <1>4, ElementOfSeq
<1> HIDE DEF i
<1>6. /\ SubSeq(i, 1, Len(s)) \in Seq(S)
      /\ Len(SubSeq(i, 1, Len(s))) = Len(s)
      /\ \A k \in 1..Len(s) : SubSeq(i, 1, Len(s))[k] = i[k]
  <2>1. Len(s) \in Int /\ 1 \in Int
    BY <1>3
  <2>2. /\ SubSeq(i, 1, Len(s)) \in Seq(S)
        /\ Len(SubSeq(i, 1, Len(s))) = IF 1 <= Len(s) THEN Len(s) - 1 + 1 ELSE 0
        /\ \A k \in 1..(Len(s) - 1 + 1) : SubSeq(i, 1, Len(s))[k] = i[1 + k - 1]
    BY <1>5, <2>1, SubSeqProperties
  <2> QED
    BY <1>3, <2>2
<1>7. SubSeq(i, 1, Len(s)) = s
  BY <1>3, <1>4, <1>6, SeqEqual
<1>8. Len(i) - 1 = Len(s) /\ Len(s) = Len(h) + Len(b)
  BY <1>1, <1>3, <1>4 DEF s
<1>9. s = SubSeq(i, 1, Len(i) - 1) /\ Len(i) = Len(h) + Len(b) + 1
  BY <1>3, <1>4, <1>7, <1>8
<1> QED
  BY <1>2, <1>9 DEF s, i

\* The oldest message is taken in hand.
LEMMA InboxTake ==
    ASSUME NEW S, NEW b \in Seq(S), b # <<>>, NEW x \in Seq(S)
    PROVE  <<Head(b)>> \o Tail(b) \o x = <<>> \o b \o x
<1>1. Head(b) \in S /\ Tail(b) \in Seq(S) /\ <<Head(b)>> \in Seq(S)
  BY HeadTailProperties
<1>2. <<Head(b)>> \o Tail(b) = b
  BY <1>1, HeadTailProperties, ConcatProperties, SeqEqual
<1>3. <<>> \o b = b
  BY ConcatEmptySeq
<1> QED
  BY <1>2, <1>3

\* What is in hand is the head of what is on its way.
LEMMA InboxTail ==
    ASSUME NEW S, NEW h \in Seq(S), NEW b \in Seq(S), NEW x \in Seq(S), Len(h) = 1
    PROVE  Tail(h \o b \o x) = b \o x
<1> DEFINE t == b \o x
           i == h \o t
<1>1. t \in Seq(S)
  BY ConcatProperties
<1>2. h \o b \o x = i
  BY ConcatAssociative
<1>3. b \o x = t
  OBVIOUS
<1> HIDE DEF t
<1>4. /\ i \in Seq(S) /\ Len(i) = 1 + Len(t) /\ Len(t) \in Nat
      /\ \A k \in 1..(1 + Len(t)) : i[k] = IF k <= 1 THEN h[k] ELSE t[k - 1]
  <2>1. /\ h \o t \in Seq(S) /\ Len(h \o t) = Len(h) + Len(t)
        /\ \A k \in 1..(Len(h) + Len(t)) :
              (h \o t)[k] = IF k <= Len(h) THEN h[k] ELSE t[k - Len(h)]
    BY <1>1, ConcatProperties
  <2>2. Len(t) \in Nat
    BY <1>1, LenProperties
  <2> QED
    BY <2>1, <2>2
<1> HIDE DEF i
<1>5. i # <<>>
  BY <1>4, EmptySeq
<1>6. Tail(i) = t
  <2>1. /\ Tail(i) \in Seq(S) /\ Len(Tail(i)) = Len(t)
        /\ \A k \in 1..Len(t) : Tail(i)[k] = i[k + 1]
    BY <1>4, <1>5, HeadTailProperties
  <2>2. \A k \in 1..Len(t) : i[k + 1] = t[k]
    BY <1>4
  <2> QED
    BY <1>1, <2>1, <2>2, SeqEqual
<1> QED
  BY <1>2, <1>3, <1>6

LEMMA InboxHead ==
    ASSUME NEW S, NEW h \in Seq(S), NEW b \in Seq(S), NEW x \in Seq(S), Len(h) = 1
    PROVE  \E e \in S : h = <<e>> /\ Head(h \o b \o x) = e
<1> DEFINE t == b \o x
           i == h \o t
<1>1. t \in Seq(S) /\ Len(t) \in Nat
  BY ConcatProperties, LenProperties
<1>2. h \o b \o x = i
  BY ConcatAssociative
<1> HIDE DEF t
<1>3. i \in Seq(S) /\ i[1] = h[1] /\ Len(i) = 1 + Len(t)
  <2>1. /\ h \o t \in Seq(S) /\ Len(h \o t) = Len(h) + Len(t)
        /\ \A k \in 1..(Len(h) + Len(t)) :
              (h \o t)[k] = IF k <= Len(h) THEN h[k] ELSE t[k - Len(h)]
    BY <1>1, ConcatProperties
  <2> QED
    BY <1>1, <2>1
<1> HIDE DEF i
<1>4. Head(i) = h[1] /\ h[1] \in S
  BY <1>3, <1>1, ElementOfSeq
<1>5. h = <<h[1]>>
  BY <1>4, SeqEqual
<1> QED
  BY <1>2, <1>4, <1>5

LEMMA InboxSome ==
    ASSUME NEW S, NEW h \in Seq(S), NEW b \in Seq(S), NEW x \in Seq(S), Len(h) = 1
    PROVE  h \o b \o x # <<>>
<1>1. /\ h \o b \in Seq(S) /\ Len(h \o b) = Len(h) + Len(b)
      /\ Len(b) \in Nat /\ Len(x) \in Nat
  BY ConcatProperties, LenProperties
<1>2. Len((h \o b) \o x) = Len(h \o b) + Len(x)
  BY <1>1, ConcatProperties
<1>3. Len((h \o b) \o x) > 0
  BY <1>1, <1>2
<1> QED
  BY <1>3, EmptySeq

LEMMA ReaderInvInit == Init => ReaderInv
BY DEF Init, ReaderInv

LEMMA ReaderInvNext == GapInv /\ ReaderInv /\ [Next]_vars => ReaderInv'
<1> SUFFICES ASSUME GapInv, ReaderInv, [Next]_vars
             PROVE  ReaderInv'
  OBVIOUS
<1>t. TypeOK
  BY DEF GapInv, HubInv
<1> USE DEF hubVars, clientVars, histVars
<1>1. ASSUME UNCHANGED <<reader, conn, gone, writer, hand>>
      PROVE  ReaderInv'
  BY <1>1 DEF ReaderInv
<1>2. ASSUME NEW c \in Clients,
             \A d \in Clients : d # c => /\ reader'[d] = reader[d] /\ conn'[d] = conn[d]
                                         /\ (d \in gone => d \in gone')
                                         /\ writer'[d] = writer[d] /\ hand'[d] = hand[d],
             reader'[c] = "unregister" => conn'[c] = "closed" \/ c \in gone',
             writer'[c] = "write" => Len(hand'[c]) = 1
      PROVE  ReaderInv'
  BY <1>2 DEF ReaderInv
<1>3. ASSUME NEW c \in Clients, Register(c) \/ Leave(c)
      PROVE  ReaderInv'
  BY <1>2, <1>3, <1>t DEF Register, Leave, ReaderInv, TypeOK
<1>4. ASSUME NEW c \in Clients, ReadPump(c)
      PROVE  ReaderInv'
  BY <1>2, <1>4, <1>t DEF ReadPump, ReaderFails, ReaderUnregister, ReaderClose, ReaderInv, TypeOK
<1>5. ASSUME NEW c \in Clients, WriterTake(c)
      PROVE  ReaderInv'
  <2>1. hand'[c] = <<Head(buf[c])>>
    BY <1>5, <1>t DEF WriterTake, TypeOK
  <2>2. Len(hand'[c]) = 1
    BY <2>1
  <2> QED
    BY <1>2, <1>5, <1>t, <2>2 DEF WriterTake, ReaderInv, TypeOK
<1>6. ASSUME NEW c \in Clients, WriterWrite(c) \/ WriterClosed(c) \/ WriterPing(c)
      PROVE  ReaderInv'
  <2>1. writer' = [writer EXCEPT ![c] = "select"] \/ writer' = [writer EXCEPT ![c] = "done"]
    BY <1>6 DEF WriterWrite, WriterClosed, WriterPing, WriterExit
  <2>2. conn' = conn \/ conn' = [conn EXCEPT ![c] = "closed"]
    BY <1>6 DEF WriterWrite, WriterClosed, WriterPing, WriterExit
  <2>3. hand' = [hand EXCEPT ![c] = <<>>] /\ UNCHANGED <<reader, gone>>
    BY <1>6 DEF WriterWrite, WriterClosed, WriterPing, WriterExit
  <2>4. reader[c] = "unregister" => conn[c] = "closed" \/ c \in gone
    BY DEF ReaderInv
  <2>5. writer'[c] # "write" /\ (conn[c] = "closed" => conn'[c] = "closed")
    BY <1>t, <2>1, <2>2 DEF TypeOK
  <2>6. \A d \in Clients : d # c => /\ writer'[d] = writer[d] /\ conn'[d] = conn[d]
                                    /\ hand'[d] = hand[d]
    BY <1>t, <2>1, <2>2, <2>3 DEF TypeOK
  <2> QED
    BY <1>2, <2>3, <2>4, <2>5, <2>6
<1>7. CASE \/ \E p \in Projects : Receive(p)
           \/ \E c \in Clients : Deliver(c) \/ Kick(c)
           \/ UNCHANGED vars
  BY <1>1, <1>7 DEF Receive, Deliver, Kick, vars
<1> QED
  BY <1>3, <1>4, <1>5, <1>6, <1>7 DEF Next, WritePump

-----------------------------------------------------------------------------

\* The mapped state.
StatusOf == [c \in Clients |-> Status(c)]
InboxOf  == [c \in Clients |-> Inbox(c)]
Open     == {c \in Clients : conn[c] = "open"}

\* What a step of Broadcast does to the mapped state.
LEMMA MappedStep ==
    ASSUME \/ UNCHANGED <<sent, StatusOf, InboxOf, got, Open, gone>>
           \/ \E p \in Projects :
                /\ sent' = sent + 1
                /\ InboxOf' = [c \in Clients |->
                                 IF StatusOf[c] \in {"member", "slow"} /\ Room[c] = p
                                 THEN Append(InboxOf[c], sent') ELSE InboxOf[c]]
                /\ UNCHANGED <<StatusOf, got, Open, gone>>
           \/ \E c \in Clients :
                \/ /\ StatusOf[c] = "new"
                   /\ StatusOf' = [StatusOf EXCEPT ![c] = "member"]
                   /\ UNCHANGED <<sent, InboxOf, got, Open, gone>>
                \/ /\ StatusOf[c] \in {"member", "slow"}
                   /\ Len(InboxOf[c]) > BufferSize
                   /\ InboxOf' = [InboxOf EXCEPT ![c] = SubSeq(@, 1, Len(@) - 1)]
                   /\ StatusOf' = [StatusOf EXCEPT ![c] = "slow"]
                   /\ UNCHANGED <<sent, got, Open, gone>>
                \/ /\ StatusOf[c] \in {"member", "slow"}
                   /\ StatusOf[c] = "slow" \/ c \notin Open \/ c \in gone
                   /\ StatusOf' = [StatusOf EXCEPT ![c] = "out"]
                   /\ UNCHANGED <<sent, InboxOf, got, Open, gone>>
                \/ /\ c \in Open
                   /\ InboxOf[c] # <<>>
                   /\ got' = [got EXCEPT ![c] = Append(@, Head(InboxOf[c]))]
                   /\ InboxOf' = [InboxOf EXCEPT ![c] = Tail(@)]
                   /\ UNCHANGED <<sent, StatusOf, Open, gone>>
                \/ /\ Open' = Open \ {c}
                   /\ \/ UNCHANGED InboxOf
                      \/ InboxOf[c] # <<>> /\ InboxOf' = [InboxOf EXCEPT ![c] = Tail(@)]
                   /\ UNCHANGED <<sent, StatusOf, got, gone>>
                \/ /\ gone' = gone \cup {c}
                   /\ UNCHANGED <<sent, StatusOf, InboxOf, got, Open>>
    PROVE  [Abstract!Next]_(Abstract!vars)
BY DEF StatusOf, InboxOf, Open, Abstract!Next, Abstract!vars, Abstract!Publish, Abstract!Join,
   Abstract!Drop, Abstract!Leave, Abstract!Write, Abstract!Close, Abstract!Depart,
   Abstract!InRoom

\* The parts of the mapped state, client by client.
LEMMA MappedTypes ==
    ASSUME HubInv, NEW c \in Clients
    PROVE  /\ hand[c] \in Seq(Messages) /\ buf[c] \in Seq(Messages) /\ got[c] \in Seq(Messages)
           /\ Coming(c) \in Seq(Messages)
           /\ c \in left => current \in Messages
           /\ StatusOf[c] = Status(c) /\ InboxOf[c] = Inbox(c)
           /\ Status(c) \in {"new", "member", "slow", "out"}
<1>1. c \in left => current \in Messages
  BY DEF HubInv, TypeOK, LoopInv, Messages
<1>2. Coming(c) \in Seq(Messages)
  BY <1>1 DEF Coming
<1> QED
  BY <1>1, <1>2 DEF HubInv, TypeOK, StatusOf, InboxOf, Status

\* Nothing happens to a client that is the same, and nothing to anybody
\* whose mapped state is the same.
LEMMA SameStatus ==
    ASSUME NEW c \in Clients, Present(c)' <=> Present(c), kicks'[c] = kicks[c],
           writer'[c] = "none" <=> writer[c] = "none"
    PROVE  Status(c)' = Status(c)
BY DEF Status

LEMMA SameInbox ==
    ASSUME NEW c \in Clients, hand'[c] = hand[c], buf'[c] = buf[c],
           c \in left' <=> c \in left, c \in left => current' = current
    PROVE  Inbox(c)' = Inbox(c)
BY DEF Inbox, Coming

LEMMA SameStatusAll ==
    ASSUME \A c \in Clients : Status(c)' = Status(c)
    PROVE  StatusOf' = StatusOf
BY DEF StatusOf

LEMMA SameInboxAll ==
    ASSUME \A c \in Clients : Inbox(c)' = Inbox(c)
    PROVE  InboxOf' = InboxOf
BY DEF InboxOf

LEMMA OneStatus ==
    ASSUME NEW c \in Clients, NEW x, Status(c)' = x,
           \A d \in Clients : d # c => Status(d)' = Status(d)
    PROVE  StatusOf' = [StatusOf EXCEPT ![c] = x]
BY DEF StatusOf

LEMMA OneInbox ==
    ASSUME NEW c \in Clients, NEW x, Inbox(c)' = x,
           \A d \in Clients : d # c => Inbox(d)' = Inbox(d)
    PROVE  InboxOf' = [InboxOf EXCEPT ![c] = x]
BY DEF InboxOf

\* A client that is unregistered.
LEMMA UnregisterLeaves ==
    ASSUME HubInv, NEW c \in Clients, Unregister(c), UNCHANGED <<sent, current, left, buf, writer,
             hand, conn, gone, got>>,
           \A d \in Clients : d # c => kicks'[d] = kicks[d],
           ~Present(c)  \/ kicks[c] > 0 \/ (kicks'[c] = kicks[c] /\ (conn[c] = "closed" \/ c \in gone))
    PROVE  [Abstract!Next]_(Abstract!vars)
<1>t. TypeOK /\ RoomsSorted /\ ChannelInv
  BY DEF HubInv
<1>1. UNCHANGED <<sent, InboxOf, got, Open, gone>>
  BY SameInbox, SameInboxAll DEF Open
<1>2. \A d \in Clients : d # c => (Present(d)' <=> Present(d))
  BY <1>t DEF Unregister, Present, TypeOK
<1>3. \A d \in Clients : d # c => Status(d)' = Status(d)
  BY <1>2, SameStatus
<1>4. ~Present(c)'
  BY <1>t DEF Unregister, Present, TypeOK
<1>5. CASE ~Present(c)
  <2>1. Status(c)' = Status(c)
    BY <1>4, <1>5 DEF Status
  <2> QED
    BY <1>1, <1>3, <2>1, SameStatusAll, MappedStep
<1>6. CASE Present(c)
  <2>1. writer[c] # "none"
    BY <1>t, <1>6 DEF ChannelInv
  <2>2. Status(c)' = "out" /\ Status(c) \in {"member", "slow"} /\ (kicks[c] > 0 => Status(c) = "slow")
    BY <1>4, <1>6, <2>1 DEF Status
  <2>3. StatusOf' = [StatusOf EXCEPT ![c] = "out"]
    BY <1>3, <2>2, OneStatus
  <2>4. StatusOf[c] = Status(c)
    BY MappedTypes
  <2>5. StatusOf[c] = "slow" \/ c \notin Open \/ c \in gone
    BY <1>6, <2>2, <2>4 DEF Open
  <2> QED
    BY <1>1, <2>2, <2>3, <2>4, <2>5, MappedStep
<1> QED
  BY <1>5, <1>6

LEMMA StepImplements ==
    GapInv /\ ReaderInv /\ [Next]_vars => [Abstract!Next]_(Abstract!vars)
<1> SUFFICES ASSUME GapInv, ReaderInv, [Next]_vars
             PROVE  [Abstract!Next]_(Abstract!vars)
  OBVIOUS
<1>t. TypeOK /\ HubInv /\ RoomsSorted /\ LoopInv /\ ChannelInv /\ PumpInv
  BY DEF GapInv, HubInv
<1> USE DEF hubVars, clientVars, histVars
<1>1. ASSUME NEW c \in Clients, Register(c)
      PROVE  [Abstract!Next]_(Abstract!vars)
  <2>1. /\ rooms' = [rooms EXCEPT ![Room[c]] = @ \cup {c}]
        /\ writer' = [writer EXCEPT ![c] = "select"]
        /\ writer[c] = "none" /\ kicks[c] = 0 /\ left = {}
        /\ UNCHANGED <<sent, current, left, kicks, buf, hand, conn, gone, got>>
    BY <1>1, <1>t DEF Register, LockFree, PumpInv, LoopInv
  <2>2. UNCHANGED <<sent, InboxOf, got, Open, gone>>
    BY <2>1, SameInbox, SameInboxAll DEF Open
  <2>3. Status(c) = "new" /\ StatusOf[c] = "new"
    BY <1>t, <2>1, MappedTypes DEF Status
  <2>4. Status(c)' = "member"
    BY <1>t, <2>1 DEF Status, Present, TypeOK
  <2>5. \A d \in Clients : d # c => Status(d)' = Status(d)
    <3>1. \A d \in Clients : d # c => (Present(d)' <=> Present(d)) /\ writer'[d] = writer[d]
      BY <1>t, <2>1 DEF Present, TypeOK
    <3> QED
      BY <2>1, <3>1, SameStatus
  <2>6. StatusOf' = [StatusOf EXCEPT ![c] = "member"]
    BY <2>4, <2>5, OneStatus
  <2> QED
    BY <2>2, <2>3, <2>6, MappedStep
<1>2. ASSUME NEW p \in Projects, Receive(p)
      PROVE  [Abstract!Next]_(Abstract!vars)
  <2>1. /\ sent' = sent + 1 /\ sent' \in Messages /\ left = {}
        /\ \/ rooms[p] = {} /\ left' = {}
           \/ current' = sent' /\ left' = rooms[p]
        /\ UNCHANGED <<rooms, kicks, buf, writer, hand, conn, gone, got>>
    BY <1>2, <1>t DEF Receive, LoopInv, TypeOK, Messages
  <2>2. UNCHANGED <<StatusOf, got, Open, gone>>
    BY <2>1, SameStatus, SameStatusAll DEF Open, Present
  <2>3. left' = rooms[p] /\ \A c \in rooms[p] : current' = sent'
    BY <2>1
  <2>4. ASSUME NEW c \in Clients
        PROVE  Inbox(c)' = IF StatusOf[c] \in {"member", "slow"} /\ Room[c] = p
                           THEN Append(InboxOf[c], sent') ELSE InboxOf[c]
    <3>1. c \in rooms[p] <=> StatusOf[c] \in {"member", "slow"} /\ Room[c] = p
      <4>1. StatusOf[c] \in {"member", "slow"} <=> Present(c)
        BY <1>t, MappedTypes DEF Status, ChannelInv
      <4>2. c \in rooms[p] <=> Present(c) /\ Room[c] = p
        BY <1>t DEF RoomsSorted, Present
      <4> QED
        BY <4>1, <4>2
    <3>2. /\ Inbox(c) = hand[c] \o buf[c] \o <<>> /\ InboxOf[c] = Inbox(c)
          /\ hand[c] \in Seq(Messages) /\ buf[c] \in Seq(Messages)
      BY <1>t, <2>1, MappedTypes DEF Inbox, Coming
    <3>3. CASE c \in rooms[p]
      <4>1. Inbox(c)' = hand[c] \o buf[c] \o <<sent'>>
        BY <2>1, <2>3, <3>3 DEF Inbox, Coming
      <4> DEFINE h == hand[c]
                 b == buf[c]
                 m == sent'
      <4>2. h \in Seq(Messages) /\ b \in Seq(Messages) /\ m \in Messages
        BY <2>1, <3>2
      <4> HIDE DEF h, b, m
      <4>3. h \o b \o <<m>> = Append(h \o b \o <<>>, m)
        BY <4>2, InboxPublish
      <4> QED
        BY <3>1, <3>2, <3>3, <4>1, <4>3 DEF h, b, m
    <3>4. CASE c \notin rooms[p]
      <4>1. Inbox(c)' = hand[c] \o buf[c] \o <<>>
        BY <2>1, <2>3, <3>4 DEF Inbox, Coming
      <4> QED
        BY <3>1, <3>2, <3>4, <4>1
    <3> QED
      BY <3>3, <3>4
  <2>5. InboxOf' = [c \in Clients |-> IF StatusOf[c] \in {"member", "slow"} /\ Room[c] = p
                                     THEN Append(InboxOf[c], sent') ELSE InboxOf[c]]
    <3>1. InboxOf' = [c \in Clients |-> Inbox(c)']
      BY DEF InboxOf
    <3> QED
      BY <2>4, <3>1
  <2> QED
    BY <2>1, <2>2, <2>5, MappedStep
<1>3. ASSUME NEW c \in Clients, Deliver(c)
      PROVE  [Abstract!Next]_(Abstract!vars)
  <2>1. /\ c \in left /\ left' = left \ {c} /\ Present(c) /\ writer[c] # "none"
        /\ current' = IF left' = {} THEN 0 ELSE current
        /\ \/ HasRoom(c) /\ kicks' = kicks /\ buf' = [buf EXCEPT ![c] = Append(@, current)]
           \/ ~HasRoom(c) /\ kicks' = [kicks EXCEPT ![c] = @ + 1] /\ buf' = buf
        /\ UNCHANGED <<rooms, sent, writer, hand, conn, gone, got>>
    BY <1>3, <1>t DEF Deliver, Kicked, LoopInv, ChannelInv
  <2>2. UNCHANGED <<sent, got, Open, gone>>
    BY <2>1 DEF Open
  <2>3. \A d \in Clients : d # c => Inbox(d)' = Inbox(d) /\ Status(d)' = Status(d)
    <3>1. ASSUME NEW d \in Clients, d # c
          PROVE  /\ buf'[d] = buf[d] /\ kicks'[d] = kicks[d]
                 /\ (d \in left' <=> d \in left) /\ (d \in left => current' = current)
      BY <1>t, <2>1, <3>1 DEF TypeOK
    <3> QED
      BY <2>1, <3>1, SameInbox, SameStatus DEF Present
  <2> DEFINE h == hand[c]
             b == buf[c]
             m == current
  <2>4. h \in Seq(Messages) /\ b \in Seq(Messages) /\ m \in Messages
    BY <1>t, <2>1, MappedTypes
  <2>5. InboxOf[c] = h \o b \o <<m>>
    BY <1>t, <2>1, MappedTypes DEF Inbox, Coming
  <2>6. CASE HasRoom(c)
    <3>1. Inbox(c)' = h \o Append(b, m) \o <<>>
      BY <1>t, <2>1, <2>6 DEF Inbox, Coming, TypeOK
    <3>2. h \o Append(b, m) \o <<>> = h \o b \o <<m>>
      <4> HIDE DEF h, b, m
      <4> QED
        BY <2>4, InboxDeliver
    <3>3. Inbox(c)' = Inbox(c)
      BY <2>1, <3>1, <3>2 DEF Inbox, Coming
    <3>4. UNCHANGED <<InboxOf, StatusOf>>
      <4>1. Status(c)' = Status(c)
        BY <2>1, <2>6, SameStatus DEF Present
      <4> QED
        BY <2>3, <3>3, <4>1, SameInboxAll, SameStatusAll
    <3> QED
      BY <2>2, <3>4, MappedStep
  <2>7. CASE ~HasRoom(c)
    <3>1. Inbox(c)' = h \o b \o <<>>
      BY <2>1, <2>7 DEF Inbox, Coming
    <3>2. /\ Len(h \o b \o <<m>>) = Len(h) + Len(b) + 1
          /\ h \o b \o <<>> = SubSeq(h \o b \o <<m>>, 1, Len(h \o b \o <<m>>) - 1)
      <4> HIDE DEF h, b, m
      <4> QED
        BY <2>4, InboxDrop
    <3>3. InboxOf' = [InboxOf EXCEPT ![c] = SubSeq(@, 1, Len(@) - 1)]
      <4>1. InboxOf' = [InboxOf EXCEPT ![c] = h \o b \o <<>>]
        BY <2>3, <3>1, OneInbox
      <4>2. InboxOf' = [InboxOf EXCEPT ![c] = SubSeq(InboxOf[c], 1, Len(InboxOf[c]) - 1)]
        <5> HIDE DEF h, b, m
        <5> QED
          BY <2>5, <3>2, <4>1
      <4> QED
        BY <4>2
    <3>4. StatusOf' = [StatusOf EXCEPT ![c] = "slow"]
      <4>1. kicks'[c] > 0
        BY <1>t, <2>1, <2>7 DEF TypeOK
      <4>2. Status(c)' = "slow"
        BY <2>1, <4>1 DEF Status, Present
      <4> QED
        BY <2>3, <4>2, OneStatus
    <3>5. StatusOf[c] \in {"member", "slow"}
      BY <1>t, <2>1, MappedTypes DEF Status
    <3>6. Len(InboxOf[c]) > BufferSize
      <4>1. Len(buf[c]) >= BufferSize /\ Len(buf[c]) \in Nat /\ Len(hand[c]) \in Nat
        BY <1>t, <2>1, <2>4, <2>7, LenProperties DEF HasRoom
      <4>2. Len(InboxOf[c]) = Len(hand[c]) + Len(buf[c]) + 1
        BY <2>5, <3>2
      <4> DEFINE i == Len(hand[c])
                 j == Len(buf[c])
                 k == Len(InboxOf[c])
      <4>3. i \in Nat /\ j \in Nat /\ j >= BufferSize /\ k = i + j + 1
        BY <4>1, <4>2
      <4> HIDE DEF i, j, k
      <4>4. k > BufferSize
        BY <4>3, BufferAssumption
      <4> QED
        BY <4>4 DEF k
    <3> QED
      BY <2>2, <3>3, <3>4, <3>5, <3>6, MappedStep
  <2> QED
    BY <2>6, <2>7
<1>4. ASSUME NEW c \in Clients, Kick(c)
      PROVE  [Abstract!Next]_(Abstract!vars)
  <2>1. /\ Unregister(c) /\ kicks[c] > 0
        /\ \A d \in Clients : d # c => kicks'[d] = kicks[d]
        /\ UNCHANGED <<sent, current, left, buf, writer, hand, conn, gone, got>>
    BY <1>4, <1>t DEF Kick, TypeOK
  <2> QED
    BY <1>t, <2>1, UnregisterLeaves
<1>5. ASSUME NEW c \in Clients, ReaderUnregister(c)
      PROVE  [Abstract!Next]_(Abstract!vars)
  <2>1. /\ Unregister(c) /\ (conn[c] = "closed" \/ c \in gone)
        /\ UNCHANGED <<sent, current, left, kicks, buf, writer, hand, conn, gone, got>>
    BY <1>5 DEF ReaderUnregister, ReaderInv
  <2> QED
    BY <1>t, <2>1, UnregisterLeaves
\* The other steps of the pumps leave the hub alone.
<1>6. ASSUME UNCHANGED hubVars, \A c \in Clients : writer'[c] = "none" <=> writer[c] = "none"
      PROVE  UNCHANGED <<sent, StatusOf>>
  BY <1>6, SameStatus, SameStatusAll DEF Present
<1>7. ASSUME NEW c \in Clients, Leave(c)
      PROVE  [Abstract!Next]_(Abstract!vars)
  <2>1. UNCHANGED <<sent, StatusOf>> /\ UNCHANGED <<InboxOf, got, Open>> /\ gone' = gone \cup {c}
    BY <1>6, <1>7, SameInbox, SameInboxAll DEF Leave, Open
  <2> QED
    BY <2>1, MappedStep
<1>8. ASSUME NEW c \in Clients, WriterTake(c)
      PROVE  [Abstract!Next]_(Abstract!vars)
  <2>1. /\ buf[c] # <<>> /\ hand[c] = <<>>
        /\ hand' = [hand EXCEPT ![c] = <<Head(buf[c])>>]
        /\ buf' = [buf EXCEPT ![c] = Tail(@)]
        /\ writer[c] = "select" /\ writer' = [writer EXCEPT ![c] = "write"]
        /\ UNCHANGED <<hubVars, conn, gone, got>>
    BY <1>8, <1>t DEF WriterTake, PumpInv
  <2>2. UNCHANGED <<sent, StatusOf, got, Open, gone>>
    BY <1>6, <1>t, <2>1 DEF Open, TypeOK
  <2>3. /\ buf[c] \in Seq(Messages) /\ Coming(c) \in Seq(Messages)
        /\ Coming(c)' = Coming(c)
    BY <1>t, <2>1, MappedTypes DEF Coming
  <2>4. Inbox(c)' = Inbox(c)
    <3>1. <<Head(buf[c])>> \o Tail(buf[c]) \o Coming(c) = <<>> \o buf[c] \o Coming(c)
      BY <2>1, <2>3, InboxTake
    <3>2. hand'[c] = <<Head(buf[c])>> /\ buf'[c] = Tail(buf[c])
      BY <1>t, <2>1 DEF TypeOK
    <3> QED
      BY <2>1, <2>3, <3>1, <3>2 DEF Inbox
  <2>5. \A d \in Clients : d # c => Inbox(d)' = Inbox(d)
    <3>1. \A d \in Clients : d # c => hand'[d] = hand[d] /\ buf'[d] = buf[d]
      BY <1>t, <2>1 DEF TypeOK
    <3> QED
      BY <2>1, <3>1, SameInbox
  <2> QED
    BY <2>2, <2>4, <2>5, SameInboxAll, MappedStep
<1>9. ASSUME NEW c \in Clients, WriterWrite(c) \/ WriterClosed(c) \/ WriterPing(c)
      PROVE  [Abstract!Next]_(Abstract!vars)
  <2>1. /\ writer[c] # "none" /\ hand' = [hand EXCEPT ![c] = <<>>]
        /\ \/ writer' = [writer EXCEPT ![c] = "select"]
           \/ writer' = [writer EXCEPT ![c] = "done"]
        /\ \/ /\ conn[c] = "open" /\ conn' = conn /\ writer[c] = "write"
              /\ got' = [got EXCEPT ![c] = @ \o hand[c]]
           \/ /\ conn' = [conn EXCEPT ![c] = "closed"] /\ got' = got
        /\ UNCHANGED <<hubVars, buf, gone>>
    BY <1>9 DEF WriterWrite, WriterClosed, WriterPing, WriterExit
  <2>2. UNCHANGED <<sent, StatusOf, gone>>
    BY <1>6, <1>t, <2>1 DEF TypeOK
  <2>3. \A d \in Clients : d # c => Inbox(d)' = Inbox(d)
    <3>1. \A d \in Clients : d # c => hand'[d] = hand[d]
      BY <1>t, <2>1 DEF TypeOK
    <3> QED
      BY <2>1, <3>1, SameInbox
  <2> DEFINE h == hand[c]
             b == buf[c]
             x == Coming(c)
             g == got[c]
  <2>4. /\ h \in Seq(Messages) /\ b \in Seq(Messages) /\ x \in Seq(Messages)
        /\ g \in Seq(Messages)
    BY <1>t, MappedTypes
  <2>5. InboxOf[c] = h \o b \o x
    BY <1>t, MappedTypes DEF Inbox
  <2>6. Inbox(c)' = <<>> \o b \o x
    <3>1. Coming(c)' = Coming(c)
      BY <2>1 DEF Coming
    <3>2. hand'[c] = <<>> /\ buf'[c] = buf[c]
      BY <1>t, <2>1 DEF TypeOK
    <3> QED
      BY <3>1, <3>2 DEF Inbox
  <2>7. CASE writer[c] # "write"
    <3>1. h = <<>>
      BY <1>t, <2>7 DEF PumpInv
    <3>2. InboxOf' = InboxOf
      <4>1. Inbox(c)' = Inbox(c)
        BY <2>6, <3>1 DEF Inbox
      <4> QED
        BY <2>3, <4>1, SameInboxAll
    <3>3. conn' = [conn EXCEPT ![c] = "closed"] /\ got' = got
      BY <2>1, <2>7
    <3>4. Open' = Open \ {c}
      BY <1>t, <3>3 DEF Open, TypeOK
    <3> QED
      BY <2>2, <3>2, <3>3, <3>4, MappedStep
  <2>8. CASE writer[c] = "write"
    <3>1. Len(h) = 1
      BY <2>8 DEF ReaderInv
    <3>2. /\ h \o b \o x # <<>>
          /\ Tail(h \o b \o x) = b \o x
          /\ \E e \in Messages : h = <<e>> /\ Head(h \o b \o x) = e
      <4> HIDE DEF h, b, x
      <4>1. Tail(h \o b \o x) = b \o x
        BY <2>4, <3>1, InboxTail, Zenon
      <4>2. \E e \in Messages : h = <<e>> /\ Head(h \o b \o x) = e
        BY <2>4, <3>1, InboxHead
      <4>3. h \o b \o x # <<>>
        BY <2>4, <3>1, InboxSome
      <4> QED
        BY <4>1, <4>2, <4>3
    <3>3. Append(g, Head(h \o b \o x)) = g \o h
      <4>1. PICK e \in Messages : h = <<e>> /\ Head(h \o b \o x) = e
        BY <3>2
      <4>2. Append(g, e) = g \o <<e>>
        BY <2>4, AppendIsConcat
      <4> HIDE DEF h, b, x, g
      <4> QED
        BY <4>1, <4>2
    <3>4. <<>> \o b \o x = b \o x
      BY <2>4, ConcatEmptySeq
    <3>5. InboxOf' = [InboxOf EXCEPT ![c] = Tail(@)] /\ InboxOf[c] # <<>>
      <4>1. Inbox(c)' = Tail(InboxOf[c])
        BY <2>5, <2>6, <3>2, <3>4
      <4>2. InboxOf' = [InboxOf EXCEPT ![c] = Tail(InboxOf[c])]
        BY <2>3, <4>1, OneInbox
      <4> QED
        BY <2>5, <3>2, <4>2
    <3>6. CASE conn[c] = "open" /\ conn' = conn /\ got' = [got EXCEPT ![c] = @ \o hand[c]]
      <4>1. c \in Open /\ Open' = Open
        BY <3>6 DEF Open
      <4>2. got' = [got EXCEPT ![c] = Append(@, Head(InboxOf[c]))]
        <5>1. got' = [got EXCEPT ![c] = got[c] \o hand[c]]
          BY <3>6
        <5>2. got[c] \o hand[c] = Append(got[c], Head(InboxOf[c]))
          BY <2>5, <3>3
        <5> QED
          BY <5>1, <5>2
      <4> QED
        BY <2>2, <3>5, <4>1, <4>2, MappedStep
    <3>7. CASE conn' = [conn EXCEPT ![c] = "closed"] /\ got' = got
      <4>1. Open' = Open \ {c}
        BY <1>t, <3>7 DEF Open, TypeOK
      <4> QED
        BY <2>2, <3>5, <3>7, <4>1, MappedStep
    <3> QED
      BY <2>1, <3>6, <3>7
  <2> QED
    BY <2>7, <2>8
<1>10. ASSUME NEW c \in Clients, ReaderFails(c) \/ ReaderClose(c)
       PROVE  [Abstract!Next]_(Abstract!vars)
  <2>1. /\ UNCHANGED <<hubVars, buf, writer, hand, gone, got>>
        /\ conn' = conn \/ conn' = [conn EXCEPT ![c] = "closed"]
    BY <1>10 DEF ReaderFails, ReaderClose
  <2>2. UNCHANGED <<sent, StatusOf, InboxOf, got, gone>>
    BY <1>6, <2>1, SameInbox, SameInboxAll
  <2>3. Open' = Open \/ Open' = Open \ {c}
    BY <1>t, <2>1 DEF Open, TypeOK
  <2> QED
    BY <2>2, <2>3, MappedStep
<1>11. CASE UNCHANGED vars
  <2>1. UNCHANGED <<sent, StatusOf>> /\ UNCHANGED <<InboxOf, got, Open, gone>>
    BY <1>6, <1>11, SameInbox, SameInboxAll DEF vars, Open
  <2> QED
    BY <2>1, MappedStep
<1> QED
  BY <1>1, <1>2, <1>3, <1>4, <1>5, <1>7, <1>8, <1>9, <1>10, <1>11
  DEF Next, WritePump, ReadPump

(***************************************************************************)
(* The hub implements Broadcast: although the loop of BroadcastToProject,  *)
(* two pumps for each client and any number of unregistering goroutines    *)
(* interleave, every behaviour is one of an atomic broadcast to the        *)
(* members of a room, which drops a message of a client, and the client    *)
(* with it, only when more than BufferSize of them wait.                   *)
(***************************************************************************)
THEOREM HubImplementsBroadcast == Spec => ImplementsBroadcast
<1>1. Init => Abstract!Init
  <2> SUFFICES ASSUME Init
               PROVE  /\ sent = 0 /\ got = [c \in Clients |-> <<>>] /\ gone = {}
                      /\ StatusOf = [c \in Clients |-> "new"]
                      /\ InboxOf = [c \in Clients |-> <<>>]
                      /\ Open = Clients
    BY DEF StatusOf, InboxOf, Open, Abstract!Init
  <2>1. ASSUME NEW c \in Clients
        PROVE  Status(c) = "new"
    <3>1. writer[c] = "none" /\ ~Present(c)
      BY RoomAssumption DEF Init, Present
    <3> QED
      BY <3>1 DEF Status
  <2>2. \A c \in Clients : Inbox(c) = <<>> \o <<>> \o <<>>
    BY DEF Init, Inbox, Coming
  <2>3. <<>> \o <<>> \o <<>> = <<>>
    BY ConcatEmptySeq, <<>> \in Seq(Messages)
  <2> QED
    BY <2>1, <2>2, <2>3 DEF Init, StatusOf, InboxOf, Open
<1>2. QED
  BY <1>1, GapInvInit, GapInvNext, ReaderInvInit, ReaderInvNext, StepImplements, PTL
  DEF Spec, ImplementsBroadcast, Abstract!Spec
=============================================================================
