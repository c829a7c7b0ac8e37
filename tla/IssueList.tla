------------------------------ MODULE IssueList ------------------------------
(***************************************************************************)
(* The issues of a project as the dashboard pages through them while the   *)
(* worker stores events.  An event carries the time at which the API took  *)
(* it; the worker sets last_seen of its issue to that time, in the order   *)
(* in which it gets events stored, which retries change.  A page is one    *)
(* SELECT ... ORDER BY last_seen DESC LIMIT ... OFFSET ... and the number  *)
(* of all rows with it; the pages of a walk are separate requests.  Times  *)
(* may tie, and how a page orders tied rows is up to its query.            *)
(***************************************************************************)
EXTENDS Integers, FiniteSets

CONSTANTS
    Fingerprints,  \* each groups the events of one issue
    Limit,         \* rows of a page, at least one
    MaxEvents      \* bound on the times of the events

VARIABLES
    alive,     \* the project exists
    clock,     \* the time of the last event accepted, 0 before the first
    backlog,   \* accepted events that are not settled
    lastSeen,  \* issues: last_seen, 0 without a row
    walk       \* a client that pages through the list

data == <<clock, backlog, lastSeen>>
vars == <<alive, data, walk>>

Events == [fp : Fingerprints, time : 1..MaxEvents]

\* listed: the issues there were when the walk began; touched: those stored
\* during it; doubtful: those that a page could not place, see Passed and Split.
NoWalk == [pc |-> "idle", page |-> 1, shown |-> {}, listed |-> {}, touched |-> {},
           doubtful |-> {}]

TypeOK ==
    /\ alive \in BOOLEAN
    /\ clock \in 0..MaxEvents
    /\ backlog \subseteq Events
    /\ lastSeen \in [Fingerprints -> 0..MaxEvents]
    /\ walk \in [pc : {"idle", "owner", "select", "end"}, page : Nat \ {0},
                 shown : SUBSET Fingerprints, listed : SUBSET Fingerprints,
                 touched : SUBSET Fingerprints, doubtful : SUBSET Fingerprints]

Init ==
    /\ alive = FALSE
    /\ clock = 0 /\ backlog = {}
    /\ lastSeen = [f \in Fingerprints |-> 0]
    /\ walk = NoWalk

Rows == {f \in Fingerprints : lastSeen[f] > 0}

\* ORDER BY last_seen DESC: f comes before g.
Sooner(f, g) == lastSeen[f] > lastSeen[g]

\* The rows before f.
Rank(f) == Cardinality({g \in Rows : Sooner(g, f)})

-----------------------------------------------------------------------------
(* Events.                                                                 *)

\* OccurredAt is the clock of the API, which need not move between events.
Accept(f) ==
    \E time \in {clock, clock + 1} \cap (1..MaxEvents) :
        /\ clock' = time
        /\ backlog' = backlog \cup {[fp |-> f, time |-> time]}
        /\ UNCHANGED <<lastSeen, walk>>

\* The rows that the issue of an older event falls behind, or level with.
Passed(e) == {f \in Rows : Sooner(e.fp, f) /\ e.time <= lastSeen[f]}

\* Mutant: issues without the foreign key, like events.
StorableAnyway == TRUE

\* The foreign key of issues.
Storable == alive

\* ON CONFLICT DO UPDATE SET last_seen = EXCLUDED.last_seen.  The event stays
\* in the backlog when the rest of its processing fails.
Store(e) ==
    /\ e \in backlog
    /\ Storable
    /\ lastSeen' = [lastSeen EXCEPT ![e.fp] = e.time]
    /\ backlog' = backlog \ {e} \/ backlog' = backlog
    /\ walk' = IF walk.pc = "idle" THEN walk
               ELSE [walk EXCEPT !.touched = @ \cup {e.fp},
                                 !.doubtful = @ \cup Passed(e)]
    /\ UNCHANGED clock

\* Its retries used up, the event goes to the dead-letter stream.
Bury(e) ==
    /\ e \in backlog
    /\ backlog' = backlog \ {e}
    /\ UNCHANGED <<clock, lastSeen, walk>>

\* The rows go with their project.
Cascade ==
    /\ lastSeen' = [f \in Fingerprints |-> 0]
    /\ UNCHANGED <<clock, backlog, walk>>

-----------------------------------------------------------------------------
(* The list.                                                               *)

\* Mutant: OFFSET page * limit, as if pages were numbered from 0.
WindowFromZero(n) == (n * Limit)..((n + 1) * Limit - 1)

\* LIMIT and OFFSET: the places of the list that page n shows.
Window(n) == ((n - 1) * Limit)..(n * Limit - 1)

\* The rows with the time of f, and the places they share.
Tied(f)   == {g \in Rows : lastSeen[g] = lastSeen[f]}
Places(f) == Rank(f)..(Rank(f) + Cardinality(Tied(f)) - 1)

\* What the query of page n may return: it is free to order tied rows, and
\* free to order them otherwise in the query of the next page.
Pages(n) ==
    {S \in SUBSET Rows :
       \A f \in Rows : Cardinality(S \cap Tied(f)) = Cardinality(Places(f) \cap Window(n))}

\* The rows that share places inside page n and outside it.
Split(n) ==
    {f \in Rows : Places(f) \cap Window(n) # {} /\ ~(Places(f) \subseteq Window(n))}

\* COUNT(*) OVER () comes with the rows: an empty page has no total.
Total(n) == IF Cardinality(Rows) > (n - 1) * Limit THEN Cardinality(Rows) ELSE 0

\* Mutant: the page is taken as it comes.
PageAsSent(raw) == raw

\* A page below 1 is page 1.
PageOf(raw) == IF raw < 1 THEN 1 ELSE raw

Open ==
    /\ walk.pc = "idle"
    /\ \E raw \in {0, 1} :
         walk' = [NoWalk EXCEPT !.pc = "owner", !.page = PageOf(raw), !.listed = Rows]
    /\ UNCHANGED data

\* GetByID of the project and its owner: without the project the walk ends.
CheckOwner ==
    /\ walk.pc = "owner"
    /\ walk' = IF alive THEN [walk EXCEPT !.pc = "select"] ELSE NoWalk
    /\ UNCHANGED data

\* The client asks for the next page until the total is reached.
Select ==
    /\ walk.pc = "select"
    /\ \E S \in Pages(walk.page), last \in {walk.page * Limit >= Total(walk.page)} :
         walk' = [walk EXCEPT !.shown = @ \cup S,
                              !.doubtful = @ \cup Split(walk.page),
                              !.pc = IF last THEN "end" ELSE "owner",
                              !.page = IF last THEN @ ELSE @ + 1]
    /\ UNCHANGED data

Close ==
    /\ walk.pc = "end"
    /\ walk' = NoWalk
    /\ UNCHANGED data

-----------------------------------------------------------------------------
Work == \E e \in backlog : Store(e) \/ Bury(e)

Browse == Open \/ CheckOwner \/ Select \/ Close

\* The project comes and goes as ProjectKeys says.
Next ==
    \/ (Work \/ Browse \/ \E f \in Fingerprints : Accept(f)) /\ UNCHANGED alive
    \/ ~alive /\ clock = 0 /\ alive' = TRUE /\ UNCHANGED <<data, walk>>
    \/ alive /\ alive' = FALSE /\ Cascade

Spec == Init /\ [][Next]_vars

-----------------------------------------------------------------------------
(* Properties.                                                             *)

(***************************************************************************)
(* Paging by offset over a list that moves: a walk through all pages shows *)
(* every issue that was there at its start and held still: it was not      *)
(* stored meanwhile, no issue that took an older time fell behind it, and  *)
(* no page cut through rows with the time it has.  Issues that are stored  *)
(* move to the front and push the others towards the pages to come         *)
(* (issue_repo.go:58-89); an older event stored late (issue_repo.go:42)    *)
(* pulls those it passes, and nothing else, towards pages already read.    *)
(***************************************************************************)
WalkComplete ==
    walk.pc = "end" /\ alive
        => walk.listed \ (walk.touched \cup walk.doubtful) \subseteq walk.shown

(***************************************************************************)
(* "Cascade ke issues/..." (project.go:34): a deleted project has no       *)
(* issues, not even from events that its key, still cached, let in later   *)
(* or that the worker still held.                                          *)
(***************************************************************************)
NoIssueOutlivesProject == ~alive => Rows = {}
=============================================================================
