------------------------------ MODULE Broadcast ------------------------------
(***************************************************************************)
(* What the hub promises the dashboards, without a lock, a loop, a channel *)
(* or a goroutine: a message reaches all the members of its room at one    *)
(* instant, in the order of publication; a client loses the newest message *)
(* only when it has left more than Capacity of them waiting, and is marked *)
(* for it; and nobody leaves a room but the slow, the disconnected and     *)
(* those whose peer has gone.                                              *)
(***************************************************************************)
EXTENDS Naturals, Sequences

CONSTANTS
    Clients,
    Projects,
    Room,      \* the project a client watches
    Capacity   \* messages that may wait for a client that is not yet slow

VARIABLES
    published,  \* messages published so far, which are 1..published
    status,     \* "new", then a "member" or a "slow" one, then "out"
    inbox,      \* messages on their way to a client, in order
    got,        \* messages a client has received
    open,       \* clients whose connection the server has not closed
    gone        \* peers that have left

vars == <<published, status, inbox, got, open, gone>>

InRoom(c) == status[c] \in {"member", "slow"}

Init ==
    /\ published = 0
    /\ status = [c \in Clients |-> "new"]
    /\ inbox = [c \in Clients |-> <<>>]
    /\ got = [c \in Clients |-> <<>>]
    /\ open = Clients
    /\ gone = {}

Join(c) ==
    /\ status[c] = "new"
    /\ status' = [status EXCEPT ![c] = "member"]
    /\ UNCHANGED <<published, inbox, got, open, gone>>

\* Everybody in the room, and nobody else.
Publish(p) ==
    /\ published' = published + 1
    /\ inbox' = [c \in Clients |-> IF InRoom(c) /\ Room[c] = p
                                   THEN Append(inbox[c], published')
                                   ELSE inbox[c]]
    /\ UNCHANGED <<status, got, open, gone>>

\* The client is too slow for the newest of its messages.
Drop(c) ==
    /\ InRoom(c)
    /\ Len(inbox[c]) > Capacity
    /\ inbox' = [inbox EXCEPT ![c] = SubSeq(@, 1, Len(@) - 1)]
    /\ status' = [status EXCEPT ![c] = "slow"]
    /\ UNCHANGED <<published, got, open, gone>>

Leave(c) ==
    /\ InRoom(c)
    /\ status[c] = "slow" \/ c \notin open \/ c \in gone
    /\ status' = [status EXCEPT ![c] = "out"]
    /\ UNCHANGED <<published, inbox, got, open, gone>>

\* The oldest of its messages reaches the client.
Write(c) ==
    /\ c \in open
    /\ inbox[c] # <<>>
    /\ got' = [got EXCEPT ![c] = Append(@, Head(inbox[c]))]
    /\ inbox' = [inbox EXCEPT ![c] = Tail(@)]
    /\ UNCHANGED <<published, status, open, gone>>

\* The connection is closed, with or without a message in transit.
Close(c) ==
    /\ open' = open \ {c}
    /\ \/ UNCHANGED inbox
       \/ inbox[c] # <<>> /\ inbox' = [inbox EXCEPT ![c] = Tail(@)]
    /\ UNCHANGED <<published, status, got, gone>>

Depart(c) ==
    /\ gone' = gone \cup {c}
    /\ UNCHANGED <<published, status, inbox, got, open>>

Next ==
    \/ \E p \in Projects : Publish(p)
    \/ \E c \in Clients :
         Join(c) \/ Drop(c) \/ Leave(c) \/ Write(c) \/ Close(c) \/ Depart(c)

Spec == Init /\ [][Next]_vars
=============================================================================
