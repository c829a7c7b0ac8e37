------------------------------- MODULE MCWsHub -------------------------------
(* Small instances of WsHub for TLC.                                       *)
EXTENDS WsHub

CONSTANTS c1, c2, p1, p2

\* Both clients watch one project; nobody watches the other.
MCRoom == [c \in Clients |-> p1]
=============================================================================
