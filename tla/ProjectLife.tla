----------------------------- MODULE ProjectLife -----------------------------
(***************************************************************************)
(* One project from its creation to its deletion and after: its key and    *)
(* the ingest API (ProjectKeys) fill the stream from which the worker      *)
(* stores the issues that the dashboard lists (IssueList).  The two share  *)
(* the row of the project, the events that get past the key, and the       *)
(* deletion, which takes the issues with it.                               *)
(***************************************************************************)
EXTENDS ProjectKeys, FiniteSets

CONSTANTS
    Watched,       \* the key of the project whose issues are listed
    Fingerprints,  \* see IssueList
    Limit,
    MaxEvents

\* One project; the other key is nobody's.
ASSUME WatchedAssumption == Keys = {Watched, Wrong} /\ Watched # Wrong
ASSUME ListAssumption ==
    Limit \in Nat \ {0} /\ MaxEvents \in Nat /\ IsFiniteSet(Fingerprints)

VARIABLES clock, backlog, lastSeen, walk

alive == row[Watched] \in Users

Issues == INSTANCE IssueList

issueVars == <<clock, backlog, lastSeen, walk>>
lifeVars  == <<vars, issueVars>>

IssuesTyped == Issues!TypeOK

\* The types of both parts.
LifeTypeOK == TypeOK /\ IssuesTyped

LifeInit == Init /\ Issues!Init

\* The event joins the stream.
PushEvent(r) == Push(r) /\ \E f \in Fingerprints : Issues!Accept(f)

\* One statement deletes the row and, by the foreign keys, its issues.
DropProject(d) ==
    /\ Drop(d)
    /\ \/ alive /\ ~alive' /\ Issues!Cascade
       \/ alive' = alive /\ UNCHANGED issueVars

LifeNext ==
    \/ Inner /\ UNCHANGED issueVars
    \/ \E r \in Requests : PushEvent(r)
    \/ \E d \in Removers : DropProject(d)
    \/ (Issues!Work \/ Issues!Browse) /\ UNCHANGED vars

LifeSpec == LifeInit /\ [][LifeNext]_lifeVars

-----------------------------------------------------------------------------
\* The properties of the issues, stated where they are defined.
WalkComplete           == Issues!WalkComplete
NoIssueOutlivesProject == Issues!NoIssueOutlivesProject
=============================================================================
