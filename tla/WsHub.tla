-------------------------------- MODULE WsHub --------------------------------
(***************************************************************************)
(* The WebSocket hub of the API process.  One subscriber goroutine takes   *)
(* the messages of Redis publish/subscribe and hands each to the clients   *)
(* of its project, without ever blocking: a client whose buffer is full is *)
(* unregistered by a goroutine of its own.  Each client has two pumps, and *)
(* either may end first.                                                   *)
(*                                                                         *)
(* A send on a closed Go channel panics, and so does closing it twice; the *)
(* mutex of the hub is all that keeps the three kinds of goroutine apart.  *)
(***************************************************************************)
EXTENDS Naturals, Sequences

CONSTANTS
    Clients,      \* connections that may be made
    Projects,     \* projects messages are published for
    Room,         \* the project a client watches
    BufferSize,   \* sendBufferSize (16 in the code)
    NumMessages   \* bound on the messages published

ASSUME RoomAssumption     == Room \in [Clients -> Projects]
ASSUME BufferAssumption   == BufferSize \in Nat
ASSUME MessagesAssumption == NumMessages \in Nat

VARIABLES
    \* the hub
    rooms,     \* clients registered per project; an empty room has no entry
    sent,      \* messages taken from the subscription so far
    current,   \* the message BroadcastToProject is sending (0: none)
    left,      \* clients its loop has not come to yet
    kicks,     \* goroutines started to unregister a client
    \* the clients
    buf,       \* Client.send
    closes,    \* times Client.send was closed
    writer,    \* WritePump
    hand,      \* the message WritePump has taken from the channel
    reader,    \* ReadPump
    conn,      \* whether the server has closed the connection
    gone,      \* peers that have left, or cannot be reached any more
    \* history
    got,       \* messages written to the connection
    due        \* messages broadcast to the project since the client joined

hubVars    == <<rooms, sent, current, left, kicks>>
clientVars == <<buf, closes, writer, hand, reader, conn, gone>>
histVars   == <<got, due>>
vars == <<hubVars, clientVars, histVars>>

Messages == 1..NumMessages

TypeOK ==
    /\ rooms \in [Projects -> SUBSET Clients]
    /\ sent \in 0..NumMessages
    /\ current \in 0..NumMessages
    /\ left \subseteq Clients
    /\ kicks \in [Clients -> Nat]
    /\ buf \in [Clients -> Seq(Messages)]
    /\ \A c \in Clients : Len(buf[c]) <= BufferSize
    /\ closes \in [Clients -> Nat]
    /\ writer \in [Clients -> {"none", "select", "write", "done"}]
    /\ hand \in [Clients -> Seq(Messages)]
    /\ reader \in [Clients -> {"none", "read", "unregister", "close", "done"}]
    /\ conn \in [Clients -> {"open", "closed"}]
    /\ gone \subseteq Clients
    /\ got \in [Clients -> Seq(Messages)]
    /\ due \in [Clients -> Seq(Messages)]

Init ==
    /\ rooms = [p \in Projects |-> {}]
    /\ sent = 0
    /\ current = 0
    /\ left = {}
    /\ kicks = [c \in Clients |-> 0]
    /\ buf = [c \in Clients |-> <<>>]
    /\ closes = [c \in Clients |-> 0]
    /\ writer = [c \in Clients |-> "none"]
    /\ hand = [c \in Clients |-> <<>>]
    /\ reader = [c \in Clients |-> "none"]
    /\ conn = [c \in Clients |-> "open"]
    /\ gone = {}
    /\ got = [c \in Clients |-> <<>>]
    /\ due = [c \in Clients |-> <<>>]

-----------------------------------------------------------------------------
(* The hub.                                                                *)

\* Mutant: unregister takes the read lock, like the broadcast.
AlwaysFree == TRUE

\* h.mu.Lock(): nobody is broadcasting.
LockFree == current = 0

\* HandleConnection: a client is registered, then its pumps are started.
Register(c) ==
    /\ writer[c] = "none"
    /\ LockFree
    /\ rooms' = [rooms EXCEPT ![Room[c]] = @ \cup {c}]
    /\ writer' = [writer EXCEPT ![c] = "select"]
    /\ reader' = [reader EXCEPT ![c] = "read"]
    /\ UNCHANGED <<sent, current, left, kicks, buf, closes, hand, conn, gone,
                   histVars>>

\* Mutant: unregister without its test of membership.
AlwaysPresent(c) == TRUE

\* rooms[client.projectID][client]
Present(c) == c \in rooms[Room[c]]

\* Mutant: unregister leaves the channel open.
LeaveOpen(c) == closes

\* close(client.send)
CloseSend(c) == [closes EXCEPT ![c] = @ + 1]

\* unregister, in one critical section; the second call for a client finds
\* it gone.
Unregister(c) ==
    /\ LockFree
    /\ \/ /\ Present(c)
          /\ rooms' = [rooms EXCEPT ![Room[c]] = @ \ {c}]
          /\ closes' = CloseSend(c)
       \/ ~Present(c) /\ UNCHANGED <<rooms, closes>>

\* RunSubscriber takes a message; BroadcastToProject takes the read lock
\* when somebody watches the project, and returns otherwise.
Receive(p) ==
    /\ current = 0
    /\ sent < NumMessages
    /\ sent' = sent + 1
    /\ \/ rooms[p] = {} /\ UNCHANGED <<current, left>>
       \/ rooms[p] # {} /\ current' = sent' /\ left' = rooms[p]
    /\ UNCHANGED <<rooms, kicks, clientVars, histVars>>

\* Mutant: a client is given up while its buffer still has room.
HasRoomEarly(c) == Len(buf[c]) + 1 < BufferSize

\* Mutant: the send is tried once too often, and blocks.
HasRoomLate(c) == Len(buf[c]) <= BufferSize

\* The send does not block.
HasRoom(c) == Len(buf[c]) < BufferSize

\* Mutant: a full buffer only costs the client the message.
DropOnly(c) == kicks

\* go h.unregister(client)
Kicked(c) == [kicks EXCEPT ![c] = @ + 1]

\* One turn of the loop of BroadcastToProject.
Deliver(c) ==
    /\ c \in left
    /\ left' = left \ {c}
    /\ current' = IF left' = {} THEN 0 ELSE current
    /\ due' = [due EXCEPT ![c] = Append(@, current)]
    /\ \/ /\ HasRoom(c)
          /\ buf' = [buf EXCEPT ![c] = Append(@, current)]
          /\ UNCHANGED kicks
       \/ /\ ~HasRoom(c)
          /\ kicks' = Kicked(c)
          /\ UNCHANGED buf
    /\ UNCHANGED <<rooms, sent, closes, writer, hand, reader, conn, gone, got>>

Kick(c) ==
    /\ kicks[c] > 0
    /\ Unregister(c)
    /\ kicks' = [kicks EXCEPT ![c] = @ - 1]
    /\ UNCHANGED <<sent, current, left, buf, writer, hand, reader, conn, gone,
                   histVars>>

-----------------------------------------------------------------------------
(* The pumps of a client.                                                  *)

\* The browser closes the page, or the network is gone.
Leave(c) ==
    /\ writer[c] # "none"
    /\ c \notin gone
    /\ gone' = gone \cup {c}
    /\ UNCHANGED <<hubVars, buf, closes, writer, hand, reader, conn, histVars>>

\* WritePump returns and closes the connection.
WriterExit(c) ==
    /\ writer' = [writer EXCEPT ![c] = "done"]
    /\ hand' = [hand EXCEPT ![c] = <<>>]
    /\ conn' = [conn EXCEPT ![c] = "closed"]

\* A receive from Client.send: what is buffered comes out of a closed
\* channel first.
WriterTake(c) ==
    /\ writer[c] = "select"
    /\ buf[c] # <<>>
    /\ hand' = [hand EXCEPT ![c] = <<Head(buf[c])>>]
    /\ buf' = [buf EXCEPT ![c] = Tail(@)]
    /\ writer' = [writer EXCEPT ![c] = "write"]
    /\ UNCHANGED <<hubVars, closes, reader, conn, gone, histVars>>

\* WriteMessage succeeds, or fails because the connection is closed or
\* broken or the deadline has passed.
WriterWrite(c) ==
    /\ writer[c] = "write"
    /\ \/ /\ conn[c] = "open"
          /\ got' = [got EXCEPT ![c] = @ \o hand[c]]
          /\ writer' = [writer EXCEPT ![c] = "select"]
          /\ hand' = [hand EXCEPT ![c] = <<>>]
          /\ UNCHANGED conn
       \/ WriterExit(c) /\ UNCHANGED got
    /\ UNCHANGED <<hubVars, buf, closes, reader, gone, due>>

\* The channel is closed and empty: a close frame, and the end.
WriterClosed(c) ==
    /\ writer[c] = "select"
    /\ buf[c] = <<>>
    /\ closes[c] > 0
    /\ WriterExit(c)
    /\ UNCHANGED <<hubVars, buf, closes, reader, gone, histVars>>

\* A ping fails.
WriterPing(c) ==
    /\ writer[c] = "select"
    /\ conn[c] = "closed" \/ c \in gone
    /\ WriterExit(c)
    /\ UNCHANGED <<hubVars, buf, closes, reader, gone, histVars>>

\* ReadMessage fails: a close frame, a closed connection, or no pong in time.
ReaderFails(c) ==
    /\ reader[c] = "read"
    /\ conn[c] = "closed" \/ c \in gone
    /\ reader' = [reader EXCEPT ![c] = "unregister"]
    /\ UNCHANGED <<hubVars, buf, closes, writer, hand, conn, gone, histVars>>

ReaderUnregister(c) ==
    /\ reader[c] = "unregister"
    /\ Unregister(c)
    /\ reader' = [reader EXCEPT ![c] = "close"]
    /\ UNCHANGED <<sent, current, left, kicks, buf, writer, hand, conn, gone,
                   histVars>>

ReaderClose(c) ==
    /\ reader[c] = "close"
    /\ reader' = [reader EXCEPT ![c] = "done"]
    /\ conn' = [conn EXCEPT ![c] = "closed"]
    /\ UNCHANGED <<hubVars, buf, closes, writer, hand, gone, histVars>>

WritePump(c) == WriterTake(c) \/ WriterWrite(c) \/ WriterClosed(c) \/ WriterPing(c)
ReadPump(c)  == ReaderFails(c) \/ ReaderUnregister(c) \/ ReaderClose(c)

Next ==
    \/ \E p \in Projects : Receive(p)
    \/ \E c \in Clients :
         Register(c) \/ Deliver(c) \/ Kick(c) \/ Leave(c) \/ WritePump(c) \/ ReadPump(c)

(***************************************************************************)
(* Goroutines run, those that wait for the lock included: a pending Lock   *)
(* of a sync.RWMutex keeps new readers out, so that the broadcast it waits *)
(* for is the last one before it.  (Weak fairness says so only because the *)
(* broadcasts of the model are bounded.)                                   *)
(***************************************************************************)
Fairness ==
    \A c \in Clients :
        /\ WF_vars(Deliver(c))
        /\ WF_vars(WritePump(c))
        /\ WF_vars(ReadPump(c))
        /\ WF_vars(Kick(c))

Spec     == Init /\ [][Next]_vars
FairSpec == Spec /\ Fairness

-----------------------------------------------------------------------------
(* Properties.                                                             *)

(***************************************************************************)
(* The broadcast loop never comes to a client whose channel was closed     *)
(* meanwhile by a pump or by a goroutine of an earlier broadcast (hub.go   *)
(* line 70 would panic and take the API down).                             *)
(***************************************************************************)
SendsToOpen == \A c \in left : closes[c] = 0

(***************************************************************************)
(* unregister is called by ReadPump and by any number of goroutines of     *)
(* broadcasts that found the buffer full, and closes the channel once.     *)
(***************************************************************************)
ClosedOnce == \A c \in Clients : closes[c] <= 1

(***************************************************************************)
(* No goroutine of the hub panics, whatever the order in which they run.   *)
(***************************************************************************)
NeverPanics == SendsToOpen /\ ClosedOnce

Stream(c) == got[c] \o hand[c] \o buf[c]

(***************************************************************************)
(* A client is served everything broadcast to its project since it joined, *)
(* in order and without a gap, or it is on its way out of the hub: no      *)
(* dashboard stays connected with a message missing.                       *)
(***************************************************************************)
NoSilentGap ==
    \A c \in Clients :
        Present(c) /\ kicks[c] = 0 /\ conn[c] = "open" => Stream(c) = due[c]

Released(c) == ~Present(c) /\ writer[c] = "done" /\ reader[c] = "done"

(***************************************************************************)
(* A client that has left, or was too slow, is forgotten by the hub, and   *)
(* both its goroutines end.                                                *)
(***************************************************************************)
EventuallyReleased ==
    \A c \in Clients : (c \in gone \/ kicks[c] > 0) ~> Released(c)

(***************************************************************************)
(* The hub implements Broadcast.                                           *)
(***************************************************************************)
Status(c) == CASE writer[c] = "none"               -> "new"
               [] writer[c] # "none" /\ ~Present(c) -> "out"
               [] Present(c) /\ kicks[c] > 0        -> "slow"
               [] OTHER                             -> "member"

\* What the loop has not come to yet is already on its way.
Coming(c) == IF c \in left THEN <<current>> ELSE <<>>
Inbox(c)  == hand[c] \o buf[c] \o Coming(c)

Abstract == INSTANCE Broadcast WITH
    Capacity  <- BufferSize,
    published <- sent,
    status    <- [c \in Clients |-> Status(c)],
    inbox     <- [c \in Clients |-> Inbox(c)],
    open      <- {c \in Clients : conn[c] = "open"}

(***************************************************************************)
(* The loop of BroadcastToProject, the pumps and the goroutines that       *)
(* unregister clients are steps of an atomic broadcast to the members of   *)
(* a room; the read lock is what makes the whole loop one instant.         *)
(***************************************************************************)
ImplementsBroadcast == Abstract!Spec

-----------------------------------------------------------------------------
(* The inductive invariant of WsHub_proofs.                                *)

\* Rooms hold clients of their project only.
RoomsSorted == \A p \in Projects : \A c \in rooms[p] : Room[c] = p

\* The lock is held for as long as the loop has somebody left, and the
\* clients left are still registered.
LoopInv == /\ left # {} => current # 0
           /\ \A c \in left : Present(c)

\* The life of a channel: open until its client is unregistered.
ChannelInv ==
    \A c \in Clients :
        /\ closes[c] <= 1
        /\ Present(c) => closes[c] = 0 /\ writer[c] # "none"
        /\ writer[c] = "none" => closes[c] = 0

HubInv == TypeOK /\ RoomsSorted /\ LoopInv /\ ChannelInv

\* For NoSilentGap: a client starts with nothing, and the message that is
\* neither written nor in the channel is in the hand of its WritePump.
PumpInv ==
    \A c \in Clients :
        /\ writer[c] = "none" => /\ kicks[c] = 0
                                /\ got[c] = <<>> /\ buf[c] = <<>> /\ due[c] = <<>>
        /\ writer[c] # "write" => hand[c] = <<>>

\* For ImplementsBroadcast: ReadPump ends, and a message is in the hand of
\* WritePump, only for a reason.
ReaderInv ==
    \A c \in Clients :
        /\ reader[c] = "unregister" => conn[c] = "closed" \/ c \in gone
        /\ writer[c] = "write" => Len(hand[c]) = 1
=============================================================================
