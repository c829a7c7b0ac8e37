---------------------------- MODULE EventDelivery ----------------------------
(***************************************************************************)
(* What the ingest pipeline promises of the events it accepts, and no      *)
(* more: at-least-once delivery into one of two homes.  An event may be    *)
(* saved, or buried in the dead-letter stream, or even both, and again     *)
(* after it was settled; but it is settled (forgotten by the queue) only   *)
(* when at least one home has it or its burial was tried and reported as   *)
(* failed, and it is settled in the end.                                   *)
(***************************************************************************)
CONSTANT Events

VARIABLES
    accepted,  \* events the API has accepted
    saved,     \* events that are rows of Postgres
    dead,      \* events in the dead-letter stream
    refused,   \* events whose burial was reported as failed
    settled    \* events the queue has forgotten

vars == <<accepted, saved, dead, refused, settled>>

Init ==
    /\ accepted = {} /\ saved = {} /\ dead = {}
    /\ refused = {} /\ settled = {}

Accept(e) ==
    /\ e \notin accepted
    /\ accepted' = accepted \cup {e}
    /\ UNCHANGED <<saved, dead, refused, settled>>

Save(e) ==
    /\ e \in accepted
    /\ saved' = saved \cup {e}
    /\ UNCHANGED <<accepted, dead, refused, settled>>

Bury(e) ==
    /\ e \in accepted
    /\ dead' = dead \cup {e}
    /\ UNCHANGED <<accepted, saved, refused, settled>>

\* The dead-letter stream answers with an error; it may have the event.
Refuse(e) ==
    /\ e \in accepted
    /\ refused' = refused \cup {e}
    /\ dead' \in {dead, dead \cup {e}}
    /\ UNCHANGED <<accepted, saved, settled>>

Settle(e) ==
    /\ e \in saved \cup dead \cup refused
    /\ settled' = settled \cup {e}
    /\ UNCHANGED <<accepted, saved, dead, refused>>

Next == \E e \in Events : Accept(e) \/ Save(e) \/ Bury(e) \/ Refuse(e) \/ Settle(e)

Spec == Init /\ [][Next]_vars

\* Nothing accepted stays in the queue for ever.
AcceptedSettles == \A e \in Events : (e \in accepted) ~> (e \in settled)
=============================================================================
