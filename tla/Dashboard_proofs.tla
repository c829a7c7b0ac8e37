-------------------------- MODULE Dashboard_proofs --------------------------
(***************************************************************************)
(* Proofs about Dashboard, for all sets of users, projects, rules,         *)
(* monitors, issues and requests, and any number of calls and faults.      *)
(***************************************************************************)
EXTENDS Dashboard, FiniteSetTheorems, TLAPS

PCs == {"idle", "project", "fetch", "owner", "write", "audit", "read", "slug", "page"}
Ops == {"create", "list", "get", "edit", "delete", "children", "page"}
Changes == {"create", "edit", "delete"}

\* What the invariant says of a request.
Sound(q) == q \in Reqs /\ Shape(q) /\ Checked(q) /\ Born(q) /\ Copy(q)

-----------------------------------------------------------------------------
(* Rows and patches.                                                       *)

\* A merge is what the patch asks for; both stay rows of the same project.
LEMMA MergeIsAsked ==
    ASSUME NEW row \in Row, NEW patch \in Patches
    PROVE  /\ Merge(row, patch) \in Row /\ Asked(row, patch) = Merge(row, patch)
           /\ Merge(row, patch).project = row.project
<1>1. Merge(row, patch) \in Row /\ Merge(row, patch).project = row.project
  BY DEF Merge, Row, Patches
<1>2. DOMAIN row = {"project", "mode", "size"} /\ DOMAIN patch = {"mode", "size"}
  BY DEF Row, Patches
<1>3. \A f \in {"project", "mode", "size"} : Asked(row, patch)[f] = Merge(row, patch)[f]
  BY <1>2 DEF Asked, Merge, Row, Patches
<1>4. Asked(row, patch) = Merge(row, patch)
  BY <1>2, <1>3 DEF Asked, Merge, Row, Patches
<1>5. QED BY <1>1, <1>4

LEMMA MovedRequest ==
    ASSUME TypeOK, NEW r \in Requests, NEW pc \in PCs
    PROVE  LET q == [req[r] EXCEPT !.pc = pc] IN
           /\ [req EXCEPT ![r].pc = pc] = [req EXCEPT ![r] = q]
           /\ q \in Reqs /\ q.pc = pc
           /\ q.op = req[r].op /\ q.user = req[r].user /\ q.project = req[r].project
           /\ q.item = req[r].item /\ q.row = req[r].row /\ q.patch = req[r].patch
           /\ q.stale = req[r].stale
<1>1. req[r] \in Reqs
  BY DEF TypeOK
<1>2. QED BY <1>1 DEF Reqs, PCs

LEMMA QuietSound == Sound(Quiet) /\ Quiet.pc = "idle" /\ ~Creating(Quiet)
<1>1. Quiet \in Reqs
  BY DEF Quiet, Reqs
<1>2. Shape(Quiet)
  BY DEF Shape, Quiet
<1>3. QED BY <1>1, <1>2 DEF Sound, Quiet, Checked, Born, Copy, Creating, Holding

LEMMA SoundRequests ==
    ASSUME DashInv
    PROVE  /\ \A r \in Requests : Sound(req[r])
           /\ req = [r \in Requests |-> req[r]]
BY DEF DashInv, ReqInv, TypeOK, Sound

-----------------------------------------------------------------------------
(* Frames: what a step leaves intact.                                      *)

\* A step that changes one request and no row.
LEMMA RequestFrame ==
    ASSUME DashInv, NEW r \in Requests, NEW q, Sound(q),
           req' = [req EXCEPT ![r] = q],
           \A s \in Requests \ {r} :
               Creating(q) /\ Creating(req[s]) => req[s].item # q.item,
           UNCHANGED rows
    PROVE  /\ req' \in [Requests -> Reqs] /\ ReqInv' /\ Single' /\ RowInv'
           /\ RowsValid' /\ EditsKept'
<1>1. \A s \in Requests : req'[s] = IF s = r THEN q ELSE req[s]
  BY DEF DashInv, TypeOK
<1>2. UNCHANGED <<item, meant, tangled>>
  BY DEF rows
<1>3. \A s \in Requests : Sound(req'[s])
  BY <1>1, SoundRequests
<1>4. req' \in [Requests -> Reqs]
  BY DEF DashInv, TypeOK, Sound
<1>5. ReqInv'
  BY <1>2, <1>3 DEF ReqInv, Sound, Shape, Checked, Born, Copy
<1>6. Single'
  BY <1>1 DEF DashInv, Single, Creating
<1>7. RowInv' /\ RowsValid' /\ EditsKept'
  BY <1>2 DEF DashInv, RowInv, RowsValid, EditsKept
<1>8. QED BY <1>4, <1>5, <1>6, <1>7

\* A step that records nothing and leaves the requests that record alone.
LEMMA AuditFrame ==
    ASSUME DashInv,
           \A s \in Requests : req[s].pc = "audit" => req'[s] = req[s],
           UNCHANGED <<rows, projects, audit, done, unsure>>
    PROVE  AuditComplete'
BY DEF DashInv, AuditComplete, rows

\* A step of one request that changes nothing but what was served.
LEMMA QuietStep ==
    ASSUME DashInv, NEW r \in Requests, NEW q, Sound(q), req[r].pc # "audit",
           req' = [req EXCEPT ![r] = q],
           \A s \in Requests \ {r} :
               Creating(q) /\ Creating(req[s]) => req[s].item # q.item,
           UNCHANGED <<projects, rows, status, audit, done, unsure, faults, reports>>,
           page' \in {"none", "not_found", "operational", "degraded_performance",
                      "major_outage"},
           calls' \in 0..MaxCalls,
           \/ served' = served
           \/ /\ Serve(r)
              /\ req[r].user \in Users /\ req[r].project \in Projects
              /\ Owner[req[r].project] = req[r].user
    PROVE  DashInv'
<1>1. /\ req' \in [Requests -> Reqs] /\ ReqInv' /\ Single' /\ RowInv'
      /\ RowsValid' /\ EditsKept'
  BY RequestFrame
<1>2. AuditComplete'
  <2>1. \A s \in Requests : req[s].pc = "audit" => req'[s] = req[s]
    BY DEF DashInv, TypeOK
  <2>2. QED BY <2>1, AuditFrame
<1>3. served' \subseteq Users \X Projects /\ TenantsApart'
  BY DEF DashInv, TypeOK, TenantsApart, Serve
<1>4. TypeOK'
  <2>1. UNCHANGED <<projects, item, meant, tangled, status, audit, done, unsure, faults, reports>>
    BY DEF rows
  <2>2. QED BY <1>1, <1>3, <2>1 DEF DashInv, TypeOK
<1>5. QED BY <1>1, <1>2, <1>3, <1>4 DEF DashInv

\* The answer, and the move to another statement, as such steps.
LEMMA AnswerIsQuiet ==
    ASSUME DashInv, NEW r \in Requests, Answer(r)
    PROVE  /\ Sound(Quiet) /\ req' = [req EXCEPT ![r] = Quiet]
           /\ \A s \in Requests \ {r} :
                Creating(Quiet) /\ Creating(req[s]) => req[s].item # Quiet.item
BY QuietSound DEF Answer

-----------------------------------------------------------------------------
(* The handlers.                                                           *)

\* A request that asks for nothing yet.
Asks(q) ==
    /\ q \in Reqs /\ Shape(q) /\ q.pc \in {"project", "fetch", "slug"}
    /\ q.op = "create" => /\ q.pc = "project" /\ Fresh(q.item)
                          /\ q.row.project = q.project

LEMMA OnProjectAsks ==
    ASSUME NEW r, NEW op \in {"create", "list"}, NEW u \in Users, NEW p \in Projects,
           NEW i \in Items \cup {None}, NEW row \in Row \cup {None},
           op = "create" => /\ row \in Row /\ i \in Rules \cup Monitors
                            /\ Fresh(i) /\ row.project = p,
           OnProject(r, op, u, p, i, row)
    PROVE  \E q : Asks(q) /\ Ask(r, q)
<1> DEFINE q == [Quiet EXCEPT !.pc = "project", !.op = op, !.user = u, !.project = p,
                              !.item = i, !.row = row]
<1>1. /\ q.pc = "project" /\ q.op = op /\ q.user = u /\ q.project = p
      /\ q.item = i /\ q.row = row
  BY DEF Quiet
<1>2. q \in Reqs
  BY QuietSound DEF Sound, Reqs
<1>3. Asks(q)
  BY <1>1, <1>2 DEF Asks, Shape
<1>4. Ask(r, q)
  BY DEF OnProject
<1>5. QED BY <1>3, <1>4

LEMMA OnItemAsks ==
    ASSUME NEW r, NEW op \in {"get", "edit", "delete", "children"}, NEW u \in Users,
           NEW i \in Items, NEW patch \in Patches \cup {None},
           op = "edit" => patch \in Patches, OnItem(r, op, u, i, patch)
    PROVE  \E q : Asks(q) /\ Ask(r, q)
<1> DEFINE q == [Quiet EXCEPT !.pc = "fetch", !.op = op, !.user = u, !.item = i,
                              !.patch = patch]
<1>1. /\ q.pc = "fetch" /\ q.op = op /\ q.user = u /\ q.item = i /\ q.patch = patch
  BY DEF Quiet
<1>2. q \in Reqs
  BY QuietSound DEF Sound, Reqs
<1>3. Asks(q)
  BY <1>1, <1>2 DEF Asks, Shape
<1>4. Ask(r, q)
  BY DEF OnItem
<1>5. QED BY <1>3, <1>4

LEMMA HandleAsks ==
    ASSUME NEW r \in Requests, Handle(r)
    PROVE  \E q : Asks(q) /\ Ask(r, q)
<1>1. ASSUME StatusPage(r) PROVE \E q : Asks(q) /\ Ask(r, q)
  <2>1. PICK p \in Projects :
               Ask(r, [Quiet EXCEPT !.pc = "slug", !.op = "page", !.project = p])
    BY <1>1 DEF StatusPage
  <2> DEFINE q == [Quiet EXCEPT !.pc = "slug", !.op = "page", !.project = p]
  <2>2. q.pc = "slug" /\ q.op = "page" /\ q.project = p
    BY DEF Quiet
  <2>3. q \in Reqs
    BY QuietSound DEF Sound, Reqs
  <2>4. Asks(q)
    BY <2>2, <2>3 DEF Asks, Shape
  <2>5. QED BY <2>1, <2>4
<1>2. ASSUME NEW u \in Users,
             CreateRule(r, u) \/ CreateMonitor(r, u)
      PROVE  \E q : Asks(q) /\ Ask(r, q)
  <2>1. PICK p \in Projects, i \in Rules \cup Monitors, c \in Conditions \cup Channels,
             n \in Sizes :
               Fresh(i) /\ OnProject(r, "create", u, p, i,
                                     [project |-> p, mode |-> c, size |-> n])
    BY <1>2 DEF CreateRule, CreateMonitor
  <2> DEFINE row == [project |-> p, mode |-> c, size |-> n]
  <2>2. row \in Row /\ row.project = p /\ i \in Items
    BY DEF Row, Items
  <2> HIDE DEF row
  <2>3. QED BY <2>1, <2>2, OnProjectAsks DEF row
<1>3. ASSUME NEW u \in Users, ListRules(r, u) \/ ListMonitors(r, u)
      PROVE  \E q : Asks(q) /\ Ask(r, q)
  BY <1>3, OnProjectAsks DEF ListRules, ListMonitors
<1>4. ASSUME NEW u \in Users, EditRule(r, u) \/ EditMonitor(r, u)
      PROVE  \E q : Asks(q) /\ Ask(r, q)
  <2>1. PICK i \in Items, c \in Conditions \cup Channels \cup {None}, n \in Sizes \cup {None} :
               OnItem(r, "edit", u, i, [mode |-> c, size |-> n])
    BY <1>4 DEF EditRule, EditMonitor, Items
  <2>2. [mode |-> c, size |-> n] \in Patches
    BY DEF Patches
  <2>3. QED BY <2>1, <2>2, OnItemAsks
<1>5. ASSUME NEW u \in Users,
             \/ DeleteRule(r, u) \/ DeleteMonitor(r, u) \/ GetMonitor(r, u)
             \/ ListChecks(r, u) \/ GetIssue(r, u) \/ ListEvents(r, u)
      PROVE  \E q : Asks(q) /\ Ask(r, q)
  BY <1>5, OnItemAsks
     DEF DeleteRule, DeleteMonitor, GetMonitor, ListChecks, GetIssue, ListEvents, Items
<1>6. QED BY <1>1, <1>2, <1>3, <1>4, <1>5 DEF Handle

LEMMA HandleStep ==
    ASSUME DashInv, NEW r \in Requests, Handle(r)
    PROVE  DashInv'
<1>1. PICK q : Asks(q) /\ Ask(r, q)
  BY HandleAsks
<1>2. Sound(q)
  BY <1>1 DEF Asks, Sound, Checked, Born, Copy, Creating, Holding, Fresh
<1>3. \A s \in Requests \ {r} : Creating(q) /\ Creating(req[s]) => req[s].item # q.item
  BY <1>1 DEF Asks, Creating, Fresh
<1>4. /\ req[r].pc # "audit" /\ req' = [req EXCEPT ![r] = q]
      /\ UNCHANGED <<projects, rows, status, audit, done, unsure, faults, reports, page, served>>
      /\ calls < MaxCalls /\ calls' = calls + 1
  BY <1>1 DEF Ask
<1>5. /\ page' \in {"none", "not_found", "operational", "degraded_performance", "major_outage"}
      /\ calls' \in 0..MaxCalls
  BY <1>4, DashboardBoundsAssumption DEF DashInv, TypeOK
<1>6. QED BY <1>2, <1>3, <1>4, <1>5, QuietStep

-----------------------------------------------------------------------------
(* The statements that change no row.                                      *)

\* What the step of a request may be, given where it moves.
LEMMA MoveStep ==
    ASSUME DashInv, NEW r \in Requests, NEW pc \in PCs, Goto(r, pc),
           req[r].pc # "audit", ~Creating(req[r]) => ~Creating([req[r] EXCEPT !.pc = pc]),
           Shape([req[r] EXCEPT !.pc = pc]), Checked([req[r] EXCEPT !.pc = pc]),
           Born([req[r] EXCEPT !.pc = pc]), Copy([req[r] EXCEPT !.pc = pc]),
           UNCHANGED <<projects, rows, status, audit, done, unsure, budgets>>,
           page' \in {"none", "not_found", "operational", "degraded_performance",
                      "major_outage"},
           \/ served' = served
           \/ /\ Serve(r)
              /\ req[r].user \in Users /\ req[r].project \in Projects
              /\ Owner[req[r].project] = req[r].user
    PROVE  DashInv'
<1> DEFINE q == [req[r] EXCEPT !.pc = pc]
<1>1. TypeOK
  BY DEF DashInv
<1>2. q \in Reqs /\ q.item = req[r].item /\ req' = [req EXCEPT ![r] = q]
  BY <1>1, MovedRequest DEF Goto
<1>3. Sound(q)
  BY <1>2 DEF Sound
<1>4. \A s \in Requests \ {r} : Creating(q) /\ Creating(req[s]) => req[s].item # q.item
  BY <1>2 DEF DashInv, Single
<1>5. UNCHANGED <<faults, reports, calls>> /\ calls' \in 0..MaxCalls
  BY <1>1 DEF budgets, TypeOK
<1> HIDE DEF q
<1>6. QED BY <1>2, <1>3, <1>4, <1>5, QuietStep

\* The request is answered.
LEMMA AnswerStep ==
    ASSUME DashInv, NEW r \in Requests, Answer(r), req[r].pc # "audit",
           UNCHANGED <<projects, rows, status, audit, done, unsure, budgets>>,
           page' \in {"none", "not_found", "operational", "degraded_performance",
                      "major_outage"},
           \/ served' = served
           \/ /\ Serve(r)
              /\ req[r].user \in Users /\ req[r].project \in Projects
              /\ Owner[req[r].project] = req[r].user
    PROVE  DashInv'
<1>1. UNCHANGED <<faults, reports, calls>> /\ calls' \in 0..MaxCalls
  BY DEF budgets, DashInv, TypeOK
<1>2. QED BY <1>1, AnswerIsQuiet, QuietStep

LEMMA PageType ==
    ASSUME DashInv, UNCHANGED page
    PROVE  page' \in {"none", "not_found", "operational", "degraded_performance",
                      "major_outage"}
BY DEF DashInv, TypeOK

LEMMA OwnProjectStep ==
    ASSUME DashInv, NEW r \in Requests, OwnProject(r)
    PROVE  DashInv'
<1>1. /\ req[r].pc = "project" /\ Sound(req[r])
      /\ UNCHANGED <<projects, rows, status, audit, page, done, unsure, served, budgets>>
  BY SoundRequests DEF OwnProject
<1>2. CASE Answer(r)
  BY <1>1, <1>2, AnswerStep, PageType
<1>3. CASE Owns(r) /\ req[r].op = "create" /\ Valid(req[r].item, req[r].row)
           /\ Goto(r, "write")
  <2> DEFINE q == [req[r] EXCEPT !.pc = "write"]
  <2>1. /\ q.pc = "write" /\ q.op = "create" /\ q.user = req[r].user
        /\ q.project = req[r].project /\ q.item = req[r].item /\ q.row = req[r].row
        /\ q.patch = req[r].patch /\ q.stale = req[r].stale
    BY <1>3, MovedRequest DEF PCs, DashInv
  <2> HIDE DEF q
  <2>2. Shape(q)
    BY <1>1, <1>3, <2>1 DEF Sound, Shape, Items
  <2>3. Checked(q)
    BY <1>3, <2>1 DEF Checked, Owns
  <2>4. Born(q) /\ Copy(q) /\ Creating(req[r])
    BY <1>1, <1>3, <2>1 DEF Sound, Born, Copy, Creating, Holding
  <2>5. QED BY <1>1, <1>3, <2>2, <2>3, <2>4, MoveStep, PageType DEF q, PCs
<1>4. CASE Owns(r) /\ req[r].op = "list" /\ Goto(r, "read")
  <2> DEFINE q == [req[r] EXCEPT !.pc = "read"]
  <2>1. /\ q.pc = "read" /\ q.op = "list" /\ q.user = req[r].user
        /\ q.project = req[r].project /\ q.item = req[r].item /\ q.row = req[r].row
        /\ q.patch = req[r].patch /\ q.stale = req[r].stale
    BY <1>4, MovedRequest DEF PCs, DashInv
  <2> HIDE DEF q
  <2>2. Shape(q)
    BY <1>1, <1>4, <2>1 DEF Sound, Shape
  <2>3. Checked(q)
    BY <1>4, <2>1 DEF Checked, Owns
  <2>4. Born(q) /\ Copy(q) /\ ~Creating(q)
    BY <2>1 DEF Born, Copy, Creating, Holding
  <2>5. QED BY <1>1, <1>4, <2>2, <2>3, <2>4, MoveStep, PageType DEF q, PCs
<1>5. QED BY <1>2, <1>3, <1>4 DEF OwnProject

LEMMA FetchStep ==
    ASSUME DashInv, NEW r \in Requests, Fetch(r)
    PROVE  DashInv'
<1> DEFINE i == req[r].item
<1>1. /\ req[r].pc = "fetch" /\ Sound(req[r]) /\ i \in Items
      /\ UNCHANGED <<projects, rows, status, audit, page, done, unsure, served, budgets>>
  BY SoundRequests DEF Fetch, Sound, Shape
<1>2. CASE Answer(r)
  BY <1>1, <1>2, AnswerStep, PageType
<1>3. CASE /\ item[i] # None
           /\ req' = [req EXCEPT ![r].pc = "owner", ![r].row = item[i],
                                 ![r].project = item[i].project]
  <2> DEFINE q == [req[r] EXCEPT !.pc = "owner", !.row = item[i], !.project = item[i].project]
  <2>1. req[r] \in Reqs /\ item[i] \in Row /\ item[i].project \in Projects
    BY <1>1, <1>3 DEF DashInv, TypeOK, Row
  <2>2. /\ q \in Reqs /\ q.pc = "owner" /\ q.op = req[r].op /\ q.user = req[r].user
        /\ q.project = item[i].project /\ q.item = i /\ q.row = item[i]
        /\ q.patch = req[r].patch
    BY <2>1 DEF Reqs
  <2>3. req' = [req EXCEPT ![r] = q]
    BY <1>3, <2>1 DEF DashInv, TypeOK, Reqs
  <2> HIDE DEF q
  <2>4. Shape(q)
    BY <1>1, <2>1, <2>2 DEF Sound, Shape
  <2>5. q.op # "create"
    BY <1>1, <2>2 DEF Sound, Shape
  <2>6. Born(q)
    BY <1>1, <1>3, <2>2, <2>5 DEF Born, Creating, DashInv, RowInv
  <2>7. Copy(q)
    BY <1>1, <1>3, <2>2 DEF Copy, DashInv, EditsKept
  <2>8. Checked(q) /\ ~Creating(q)
    BY <2>2 DEF Checked, Creating
  <2>9. UNCHANGED <<faults, reports, calls>> /\ calls' \in 0..MaxCalls
    BY <1>1 DEF budgets, DashInv, TypeOK
  <2>10. Sound(q)
    BY <2>2, <2>4, <2>6, <2>7, <2>8 DEF Sound
  <2>11. QED BY <1>1, <2>3, <2>8, <2>9, <2>10, QuietStep, PageType
<1>4. QED BY <1>2, <1>3 DEF Fetch

LEMMA OwnItemStep ==
    ASSUME DashInv, NEW r \in Requests, OwnItem(r)
    PROVE  DashInv'
<1> DEFINE merged == Merge(req[r].row, req[r].patch)
<1>1. /\ req[r].pc = "owner" /\ Sound(req[r]) /\ req[r].op # "create"
      /\ UNCHANGED <<projects, rows, status, audit, page, done, unsure, budgets>>
  BY SoundRequests DEF OwnItem, Sound, Shape
<1>2. /\ req[r].user \in Users /\ req[r].project \in Projects /\ req[r].item \in Items
      /\ req[r].row \in Row /\ req[r] \in Reqs
      /\ req[r].op = "edit" => req[r].patch \in Patches
  BY <1>1 DEF Sound, Shape
<1>3. CASE Answer(r) /\ (served' = served \/ (Owns(r) /\ Serve(r)))
  BY <1>1, <1>2, <1>3, AnswerStep, PageType DEF Owns
<1>4. CASE Owns(r) /\ req[r].op = "children" /\ Goto(r, "read") /\ UNCHANGED served
  <2> DEFINE q == [req[r] EXCEPT !.pc = "read"]
  <2>1. /\ q.pc = "read" /\ q.op = "children" /\ q.user = req[r].user
        /\ q.project = req[r].project
    BY <1>4, MovedRequest DEF PCs, DashInv
  <2> HIDE DEF q
  <2>2. Shape(q) /\ Checked(q)
    BY <1>2, <1>4, <2>1 DEF Shape, Checked, Owns
  <2>3. Born(q) /\ Copy(q) /\ ~Creating(q)
    BY <2>1 DEF Born, Copy, Creating, Holding
  <2>4. QED BY <1>1, <1>4, <2>2, <2>3, MoveStep, PageType DEF q, PCs
<1>5. CASE Owns(r) /\ req[r].op = "delete" /\ Goto(r, "write") /\ UNCHANGED served
  <2> DEFINE q == [req[r] EXCEPT !.pc = "write"]
  <2>1. /\ q.pc = "write" /\ q.op = "delete" /\ q.user = req[r].user
        /\ q.project = req[r].project /\ q.item = req[r].item /\ q.row = req[r].row
    BY <1>5, MovedRequest DEF PCs, DashInv
  <2> HIDE DEF q
  <2>2. Shape(q) /\ Checked(q)
    BY <1>2, <1>5, <2>1 DEF Shape, Checked, Owns
  <2>3. Born(q) /\ Copy(q) /\ ~Creating(q)
    BY <1>1, <2>1 DEF Sound, Born, Copy, Creating, Holding
  <2>4. QED BY <1>1, <1>5, <2>2, <2>3, MoveStep, PageType DEF q, PCs
<1>6. CASE /\ Owns(r) /\ req[r].op = "edit" /\ Valid(req[r].item, merged)
           /\ req' = [req EXCEPT ![r].pc = "write", ![r].row = merged]
           /\ UNCHANGED served
  <2> DEFINE q == [req[r] EXCEPT !.pc = "write", !.row = merged]
  <2>1. /\ merged \in Row /\ merged.project = req[r].row.project
        /\ Asked(req[r].row, req[r].patch) = merged
    BY <1>2, <1>6, MergeIsAsked
  <2> HIDE DEF merged
  <2>2. /\ q \in Reqs /\ q.pc = "write" /\ q.op = "edit" /\ q.user = req[r].user
        /\ q.project = req[r].project /\ q.item = req[r].item /\ q.row = merged
        /\ q.patch = req[r].patch /\ q.stale = req[r].stale
    BY <1>2, <1>6, <2>1 DEF Reqs
  <2>3. req' = [req EXCEPT ![r] = q]
    BY <1>2, <1>6 DEF DashInv, TypeOK, Reqs
  <2> HIDE DEF q
  <2>4. Shape(q) /\ Checked(q)
    BY <1>2, <1>6, <2>1, <2>2 DEF Shape, Checked, Owns
  <2>5. Born(q)
    BY <1>1, <1>6, <2>1, <2>2 DEF Sound, Born, Creating, Holding
  <2>6. Copy(q) /\ ~Creating(q)
    BY <1>1, <1>6, <2>1, <2>2 DEF Sound, Copy, Creating
  <2>7. UNCHANGED <<faults, reports, calls>> /\ calls' \in 0..MaxCalls
    BY <1>1 DEF budgets, DashInv, TypeOK
  <2>8. Sound(q)
    BY <2>2, <2>4, <2>5, <2>6 DEF Sound
  <2>9. QED BY <1>1, <1>6, <2>3, <2>6, <2>7, <2>8, QuietStep, PageType
<1>7. QED BY <1>3, <1>4, <1>5, <1>6 DEF OwnItem

LEMMA ReadStep ==
    ASSUME DashInv, NEW r \in Requests, Read(r) \/ FindSlug(r) \/ ReadPage(r)
    PROVE  DashInv'
<1>1. Sound(req[r])
  BY SoundRequests
<1>2. CASE Read(r)
  <2>1. /\ req[r].user \in Users /\ req[r].project \in Projects
        /\ Owner[req[r].project] = req[r].user
    BY <1>1, <1>2 DEF Read, Sound, Shape, Checked
  <2>2. QED BY <1>2, <2>1, AnswerStep, PageType DEF Read
<1>3. CASE FindSlug(r)
  <2>1. CASE Goto(r, "page") /\ UNCHANGED page
    <3> DEFINE q == [req[r] EXCEPT !.pc = "page"]
    <3>1. q.pc = "page" /\ q.project = req[r].project
      BY MovedRequest DEF PCs, DashInv
    <3> HIDE DEF q
    <3>2. Shape(q) /\ Checked(q) /\ Born(q) /\ Copy(q) /\ ~Creating(q)
      BY <1>1, <1>3, <3>1
         DEF FindSlug, Sound, Shape, Checked, Born, Copy, Creating, Holding
    <3>3. QED BY <1>3, <2>1, <3>2, MoveStep, PageType DEF FindSlug, q, PCs
  <2>2. CASE Answer(r) /\ page' = "not_found"
    BY <1>3, <2>2, AnswerStep DEF FindSlug
  <2>3. QED BY <1>3, <2>1, <2>2 DEF FindSlug
<1>4. CASE ReadPage(r)
  <2>1. page' \in {"operational", "major_outage", "degraded_performance"}
    BY <1>4 DEF ReadPage, Overall
  <2>2. QED BY <1>4, <2>1, AnswerStep DEF ReadPage
<1>5. QED BY <1>2, <1>3, <1>4

-----------------------------------------------------------------------------
(* The statements that write.                                              *)

\* A request that is over, or has only its audit entry left to write; what it
\* did to a rule is unsure if its write reported an error.
LEMMA EndSound ==
    ASSUME DashInv, NEW r \in Requests, req[r].pc = "write",
           NEW pc \in {"audit", "idle"}, Leads(r, pc)
    PROVE  LET q == [req[r] EXCEPT !.pc = pc] IN
           /\ q \in Reqs /\ Shape(q) /\ Checked(q) /\ ~Creating(q) /\ ~Holding(q)
           /\ q.pc = pc /\ q.op = req[r].op /\ q.op \in Changes /\ q.item = req[r].item
           /\ [req EXCEPT ![r].pc = pc] = [req EXCEPT ![r] = q]
           /\ req[r].item \in Rules => pc = "audit" \/ <<req[r].item, req[r].op>> \in unsure'
           /\ unsure \subseteq unsure' /\ unsure' \subseteq Rules \X Changes
           /\ faults' \in 0..MaxFaults
<1> DEFINE q == [req[r] EXCEPT !.pc = pc]
<1>1. pc = "audit" => req[r].item \in Rules
  BY DEF Leads, NextPc
<1>2. /\ [req EXCEPT ![r].pc = pc] = [req EXCEPT ![r] = q]
      /\ q \in Reqs /\ q.pc = pc /\ q.op = req[r].op /\ q.item = req[r].item
  <2>1. pc \in PCs
    BY DEF PCs
  <2>2. QED BY <2>1, MovedRequest DEF DashInv
<1> HIDE DEF q
<1>3. req[r].op \in Changes
  BY SoundRequests DEF Sound, Shape, Changes
<1>4. Shape(q) /\ Checked(q) /\ ~Creating(q) /\ ~Holding(q)
  BY <1>1, <1>2, <1>3 DEF Shape, Checked, Creating, Holding, Changes
<1>5. /\ req[r].item \in Rules => pc = "audit" \/ <<req[r].item, req[r].op>> \in unsure'
      /\ unsure \subseteq unsure'
  BY DEF Leads, NextPc, Doubt
<1>6. unsure' \subseteq Rules \X Changes /\ faults' \in 0..MaxFaults
  <2>1. unsure \subseteq Rules \X Changes /\ faults \in 0..MaxFaults
    BY DEF DashInv, TypeOK, Changes
  <2>2. CASE UNCHANGED <<unsure, faults>>
    BY <2>1, <2>2
  <2>3. CASE req[r].item \in Rules /\ Doubt(r)
    BY <1>3, <2>1, <2>3, DashboardBoundsAssumption DEF Doubt
  <2>4. QED BY <2>2, <2>3 DEF Leads
<1>7. QED BY <1>2, <1>3, <1>4, <1>5, <1>6 DEF q

\* Such a request claims nothing of the rows.
LEMMA EndClaimsNothing ==
    ASSUME NEW r \in Requests, req'[r].pc \in {"audit", "idle"}
    PROVE  Born(req[r])' /\ Copy(req[r])'
BY DEF Born, Copy, Creating, Holding

\* What was done is in the log, or about to be.
LEMMA Accounted ==
    ASSUME DashInv, NEW i \in Rules, NEW op \in done[i], <<i, op>> \notin unsure
    PROVE  \/ op \in audit[i]
           \/ \E r \in Requests : req[r].pc = "audit" /\ req[r].item = i /\ req[r].op = op
BY DEF DashInv, AuditComplete

\* The log stays complete when one request does something to an item.
LEMMA DidAccounted ==
    ASSUME DashInv, NEW r \in Requests, req[r].pc = "write",
           NEW q, q.op = req[r].op, q.item = req[r].item, req'[r] = q,
           req[r].item \in Rules => q.pc = "audit" \/ <<req[r].item, req[r].op>> \in unsure',
           \A s \in Requests \ {r} : req[s].pc = "audit" => req'[s] = req[s],
           Did(r) \/ UNCHANGED done, UNCHANGED audit, unsure \subseteq unsure',
           NEW i \in Rules, NEW op \in done'[i], <<i, op>> \notin unsure'
    PROVE  \/ op \in audit'[i]
           \/ \E s \in Requests : req'[s].pc = "audit" /\ req'[s].item = i /\ req'[s].op = op
<1>1. op \in done[i] \/ (i = req[r].item /\ op = req[r].op)
  BY DEF Did, DashInv, TypeOK
<1>2. CASE i = req[r].item /\ op = req[r].op
  BY <1>2
<1>3. CASE op \in done[i]
  <2>1. CASE op \in audit[i]
    BY <2>1
  <2>2. ASSUME NEW s \in Requests, req[s].pc = "audit", req[s].item = i, req[s].op = op
        PROVE  req'[s].pc = "audit" /\ req'[s].item = i /\ req'[s].op = op
    BY <2>2
  <2>3. <<i, op>> \notin unsure
    OBVIOUS
  <2>4. QED BY <1>3, <2>1, <2>2, <2>3, Accounted
<1>4. QED BY <1>1, <1>2, <1>3

LEMMA DidType ==
    ASSUME DashInv, NEW r \in Requests, req[r].op \in Changes, Did(r)
    PROVE  done' \in [Rules -> SUBSET Changes]
BY DEF Did, DashInv, TypeOK, Changes

\* Whatever is served by a statement that writes is the user's own.
LEMMA WriteServes ==
    ASSUME DashInv, NEW r \in Requests, req[r].pc = "write", Serve(r) \/ UNCHANGED served
    PROVE  served' \subseteq Users \X Projects /\ TenantsApart'
<1>1. /\ req[r].user \in Users /\ req[r].project \in Projects
      /\ Owner[req[r].project] = req[r].user
  BY SoundRequests DEF Sound, Shape, Checked
<1>2. QED BY <1>1 DEF Serve, DashInv, TypeOK, TenantsApart

LEMMA InsertStep ==
    ASSUME DashInv, NEW r \in Requests, Insert(r)
    PROVE  DashInv'
<1> DEFINE i == req[r].item
           row == req[r].row
<1>1. /\ req[r].pc = "write" /\ req[r].op = "create" /\ Sound(req[r])
      /\ UNCHANGED <<projects, tangled, status, audit, page, calls, reports>>
  BY SoundRequests DEF Insert
<1>2. CASE /\ req[r].project \notin projects /\ Answer(r)
           /\ UNCHANGED <<item, meant, done, served, unsure, faults>>
  BY <1>1, <1>2, AnswerStep, PageType DEF rows, budgets
<1>3. ASSUME NEW pc \in {"audit", "idle"}, Leads(r, pc), Goto(r, pc),
             req[r].project \in projects,
             item' = [item EXCEPT ![i] = row], meant' = [meant EXCEPT ![i] = row],
             Did(r), Serve(r)
      PROVE  DashInv'
  <2> DEFINE q == [req[r] EXCEPT !.pc = pc]
  <2>1. /\ i \in Rules \cup Monitors /\ i \in Items /\ row \in Row /\ Valid(i, row)
        /\ meant[i] = None /\ Creating(req[r])
    BY <1>1 DEF Sound, Shape, Checked, Born, Creating, Items
  <2>2. /\ q \in Reqs /\ Shape(q) /\ Checked(q) /\ ~Creating(q) /\ ~Holding(q)
        /\ q.pc \in {"audit", "idle"}
        /\ i \in Rules => q.pc = "audit" \/ <<i, req[r].op>> \in unsure'
        /\ q.op = req[r].op /\ q.op \in Changes /\ q.item = i
        /\ req' = [req EXCEPT ![r] = q]
        /\ unsure \subseteq unsure' /\ unsure' \subseteq Rules \X Changes
        /\ faults' \in 0..MaxFaults
    BY <1>1, <1>3, EndSound DEF Goto
  <2> HIDE DEF q
  <2>3. \A s \in Requests : req'[s] = IF s = r THEN q ELSE req[s]
    BY <2>2 DEF DashInv, TypeOK
  <2>4. /\ item' \in [Items -> Row \cup {None}] /\ meant' \in [Items -> Row \cup {None}]
        /\ \A j \in Items : /\ item'[j] = IF j = i THEN row ELSE item[j]
                            /\ meant'[j] = IF j = i THEN row ELSE meant[j]
    BY <1>3, <2>1 DEF DashInv, TypeOK
  <2>5. row # None
    BY <2>1, NoneAssumption
  <2> HIDE DEF i, row
  <2>6. ReqInv'
    <3>1. ASSUME NEW s \in Requests, s # r PROVE Born(req[s])' /\ Copy(req[s])'
      <4>1. Sound(req[s])
        BY SoundRequests
      <4>2. Creating(req[s]) => req[s].item # i /\ req[s].item \in Items
        BY <2>1, <3>1, <4>1 DEF DashInv, Single, Sound, Shape, Creating, Items, i
      <4>3. Holding(req[s]) => req[s].item # i /\ req[s].item \in Items
        BY <2>1, <4>1 DEF Sound, Shape, Born, Holding
      <4>4. Born(req[s])'
        BY <2>3, <2>4, <3>1, <4>1, <4>2, <4>3 DEF Sound, Born, Creating, Holding
      <4>5. Copy(req[s])'
        BY <1>1, <2>3, <2>4, <3>1, <4>1, <4>3 DEF Sound, Copy, Holding, Shape
      <4>6. QED BY <4>4, <4>5
    <3>2. Born(req[r])' /\ Copy(req[r])'
      BY <2>2, <2>3, EndClaimsNothing
    <3>3. \A s \in Requests : Shape(req[s])' /\ Checked(req[s])'
      BY <2>2, <2>3, SoundRequests DEF Sound, Shape, Checked
    <3>4. QED BY <3>1, <3>2, <3>3 DEF ReqInv
  <2>7. Single'
    BY <2>2, <2>3 DEF DashInv, Single, Creating
  <2>8. RowInv' /\ EditsKept'
    BY <1>1, <2>1, <2>4, <2>5 DEF DashInv, RowInv, EditsKept
  <2>9. RowsValid'
    BY <2>1, <2>4 DEF DashInv, RowsValid, Items
  <2>10. AuditComplete'
    <3>1. ASSUME NEW j \in Rules, meant'[j] # None, item'[j] = None
          PROVE  "delete" \in done'[j] \/ meant'[j].project \notin projects'
      BY <1>1, <1>3, <2>4, <2>5, <3>1 DEF DashInv, AuditComplete, TypeOK, Did, Items
    <3>2. ASSUME NEW j \in Rules, NEW op \in done'[j], <<j, op>> \notin unsure'
          PROVE  \/ op \in audit'[j]
                 \/ \E s \in Requests :
                      req'[s].pc = "audit" /\ req'[s].item = j /\ req'[s].op = op
      BY <1>1, <1>3, <2>2, <2>3, <3>2, DidAccounted DEF i
    <3>3. QED BY <3>1, <3>2 DEF AuditComplete
  <2>11. served' \subseteq Users \X Projects /\ TenantsApart'
    BY <1>1, <1>3, WriteServes
  <2>12. done' \in [Rules -> SUBSET Changes]
    BY <1>3, <2>2, DidType
  <2>13. req' \in [Requests -> Reqs]
    BY <2>2 DEF DashInv, TypeOK
  <2>14. TypeOK'
    BY <1>1, <2>2, <2>4, <2>11, <2>12, <2>13 DEF DashInv, TypeOK, Changes
  <2>15. QED BY <2>6, <2>7, <2>8, <2>9, <2>10, <2>11, <2>14 DEF DashInv
<1>4. QED BY <1>2, <1>3 DEF Insert

LEMMA UpdateStep ==
    ASSUME DashInv, NEW r \in Requests, Update(r)
    PROVE  DashInv'
<1> DEFINE i == req[r].item
<1>1. /\ req[r].pc = "write" /\ req[r].op = "edit" /\ Sound(req[r])
      /\ UNCHANGED <<projects, status, audit, page, calls, reports>>
  BY SoundRequests DEF Update
<1>2. ASSUME NEW pc \in {"audit", "idle"}, Leads(r, pc)
      PROVE  LET q == [req[r] EXCEPT !.pc = pc] IN
             /\ q \in Reqs /\ Shape(q) /\ Checked(q) /\ ~Creating(q) /\ ~Holding(q)
             /\ q.pc \in {"audit", "idle"}
             /\ i \in Rules => q.pc = "audit" \/ <<i, req[r].op>> \in unsure'
             /\ q.op = req[r].op /\ q.op \in Changes /\ q.item = i
             /\ [req EXCEPT ![r].pc = pc] = [req EXCEPT ![r] = q]
             /\ unsure \subseteq unsure' /\ unsure' \subseteq Rules \X Changes
             /\ faults' \in 0..MaxFaults
  BY <1>1, <1>2, EndSound
<1>3. /\ i \in Items /\ req[r].row \in Row /\ req[r].patch \in Patches
      /\ Valid(i, req[r].row) /\ meant[i] # None
      /\ req[r].row.project = meant[i].project
  BY <1>1 DEF Sound, Shape, Checked, Born, Holding
<1>4. meant[i] \in Row /\ None \notin Row
  BY <1>3, NoneAssumption DEF DashInv, TypeOK
<1>5. CASE item[i] = None /\ Goto(r, NextPc(i)) /\ UNCHANGED <<rows, done, served, unsure, faults>>
  <2> DEFINE q == [req[r] EXCEPT !.pc = NextPc(i)]
  <2>0. NextPc(i) \in {"audit", "idle"} /\ Leads(r, NextPc(i))
    BY <1>5 DEF NextPc, Leads
  <2>1. req' = [req EXCEPT ![r] = q] /\ Sound(q) /\ ~Creating(q)
    BY <1>2, <1>5, <2>0 DEF Goto, Sound, Born, Copy, Holding, Creating
  <2> HIDE DEF q
  <2>2. calls' \in 0..MaxCalls
    BY <1>1 DEF DashInv, TypeOK
  <2>3. QED BY <1>1, <1>5, <2>1, <2>2, QuietStep, PageType
<1>6. ASSUME NEW pc \in {"audit", "idle"}, Leads(r, pc), Outdate(r, pc),
             item[i] # None,
             item' = [item EXCEPT ![i] = AllFields(r)],
             meant' = [meant EXCEPT ![i] = Asked(@, req[r].patch)],
             tangled' = IF req[r].stale THEN tangled \cup {i} ELSE tangled,
             Did(r), Serve(r)
      PROVE  DashInv'
  <2> DEFINE row == req[r].row
             q == [req[r] EXCEPT !.pc = pc]
             next == Asked(meant[i], req[r].patch)
  <2>1. next \in Row /\ next.project = meant[i].project
    BY <1>3, <1>4, MergeIsAsked
  <2>2. ~req[r].stale /\ i \notin tangled => row = next
    BY <1>1 DEF Sound, Copy
  <2>3. /\ item' \in [Items -> Row \cup {None}] /\ meant' \in [Items -> Row \cup {None}]
        /\ \A j \in Items : /\ item'[j] = IF j = i THEN row ELSE item[j]
                            /\ meant'[j] = IF j = i THEN next ELSE meant[j]
        /\ tangled \subseteq tangled' /\ tangled' \subseteq tangled \cup {i}
        /\ tangled' \subseteq Items /\ (req[r].stale => i \in tangled')
    BY <1>3, <1>6, <2>1 DEF DashInv, TypeOK, AllFields
  <2>4. req'[r] = q
    BY <1>6 DEF Outdate
  <2>q. /\ q \in Reqs /\ Shape(q) /\ Checked(q) /\ ~Creating(q) /\ ~Holding(q)
        /\ q.pc \in {"audit", "idle"}
        /\ i \in Rules => q.pc = "audit" \/ <<i, req[r].op>> \in unsure'
        /\ q.op = req[r].op /\ q.op \in Changes /\ q.item = i
        /\ unsure \subseteq unsure' /\ unsure' \subseteq Rules \X Changes
        /\ faults' \in 0..MaxFaults
    BY <1>2, <1>6
  <2> HIDE DEF q
  <2>5. ASSUME NEW s \in Requests, s # r
        PROVE  /\ req'[s] \in Reqs
               /\ req'[s].pc = req[s].pc /\ req'[s].op = req[s].op
               /\ req'[s].user = req[s].user /\ req'[s].project = req[s].project
               /\ req'[s].item = req[s].item /\ req'[s].row = req[s].row
               /\ req'[s].patch = req[s].patch
               /\ req'[s] = req[s]
                  \/ (req'[s].stale /\ req[s].pc \in {"owner", "write"})
               /\ req[s].item = i /\ req[s].pc \in {"owner", "write"} => req'[s].stale
    <3>1. req'[s] = IF req[s].item = i /\ req[s].pc \in {"owner", "write"}
                    THEN [req[s] EXCEPT !.stale = TRUE] ELSE req[s]
      BY <1>6, <2>5 DEF Outdate
    <3>2. req[s] \in Reqs
      BY DEF DashInv, TypeOK
    <3> HIDE DEF i
    <3>3. CASE req[s].item = i /\ req[s].pc \in {"owner", "write"}
      <4>1. req'[s] = [req[s] EXCEPT !.stale = TRUE]
        BY <3>1, <3>3
      <4> QED
        BY <3>2, <3>3, <4>1 DEF Reqs
    <3>4. CASE ~(req[s].item = i /\ req[s].pc \in {"owner", "write"})
      BY <3>1, <3>2, <3>4
    <3> QED
      BY <3>3, <3>4
  <2>6. req' \in [Requests -> Reqs]
    BY <1>6, <2>q, <2>4, <2>5 DEF Outdate
  <2> HIDE DEF i, row, next
  <2>7. ReqInv'
    <3>1. ASSUME NEW s \in Requests, s # r
          PROVE  Shape(req[s])' /\ Checked(req[s])' /\ Born(req[s])' /\ Copy(req[s])'
      <4>1. Sound(req[s])
        BY SoundRequests
      <4>2. Shape(req[s])'
        BY <2>5, <3>1, <4>1 DEF Sound, Shape
      <4>3. Checked(req[s])'
        BY <2>5, <3>1, <4>1 DEF Sound, Checked
      <4>4. Creating(req[s]) => req[s].item \in Items /\ req[s].item # i
        BY <1>3, <4>1 DEF Sound, Shape, Born, Creating, Items
      <4>5. Holding(req[s]) => req[s].item \in Items
        BY <4>1 DEF Sound, Shape, Holding
      <4>6. Born(req[s])'
        BY <1>4, <2>1, <2>3, <2>5, <3>1, <4>1, <4>4, <4>5
           DEF Sound, Born, Creating, Holding
      <4>7. Copy(req[s])'
        BY <2>3, <2>5, <3>1, <4>1, <4>5 DEF Sound, Copy, Holding
      <4>8. QED BY <4>2, <4>3, <4>6, <4>7
    <3>2. Born(req[r])' /\ Copy(req[r])'
      BY <2>q, <2>4, EndClaimsNothing
    <3>3. Shape(req[r])' /\ Checked(req[r])'
      BY <2>q, <2>4 DEF Shape, Checked
    <3>4. QED BY <3>1, <3>2, <3>3 DEF ReqInv
  <2>8. Single'
    BY <2>q, <2>4, <2>5 DEF DashInv, Single, Creating
  <2>9. RowInv'
    BY <1>3, <1>4, <2>1, <2>3 DEF DashInv, RowInv, row
  <2>10. EditsKept'
    BY <2>2, <2>3 DEF DashInv, EditsKept
  <2>11. RowsValid'
    BY <1>3, <2>3 DEF DashInv, RowsValid, Items, row
  <2>12. AuditComplete'
    <3>1. ASSUME NEW j \in Rules, meant'[j] # None, item'[j] = None
          PROVE  "delete" \in done'[j] \/ meant'[j].project \notin projects'
      <4>1. j # i /\ item[j] = None /\ meant'[j] = meant[j] /\ meant[j] # None
        BY <1>3, <1>4, <2>3, <3>1 DEF Items, row
      <4>2. QED BY <1>1, <1>6, <3>1, <4>1 DEF DashInv, AuditComplete, TypeOK, Did
    <3>2. ASSUME NEW j \in Rules, NEW op \in done'[j], <<j, op>> \notin unsure'
          PROVE  \/ op \in audit'[j]
                 \/ \E s \in Requests :
                      req'[s].pc = "audit" /\ req'[s].item = j /\ req'[s].op = op
      <4>1. \A s \in Requests \ {r} : req[s].pc = "audit" => req'[s] = req[s]
        BY <2>5
      <4>2. QED BY <1>1, <1>6, <2>q, <2>4, <3>2, <4>1, DidAccounted DEF i
    <3>3. QED BY <3>1, <3>2 DEF AuditComplete
  <2>13. served' \subseteq Users \X Projects /\ TenantsApart'
    BY <1>1, <1>6, WriteServes
  <2>14. done' \in [Rules -> SUBSET Changes]
    BY <1>6, <2>q, DidType
  <2>15. TypeOK'
    BY <1>1, <2>q, <2>3, <2>6, <2>13, <2>14 DEF DashInv, TypeOK, Changes
  <2>16. QED
    BY <2>7, <2>8, <2>9, <2>10, <2>11, <2>12, <2>13, <2>15 DEF DashInv
<1>7. QED BY <1>1, <1>5, <1>6 DEF Update

LEMMA DeleteStep ==
    ASSUME DashInv, NEW r \in Requests, Delete(r)
    PROVE  DashInv'
<1>pc. PICK pc \in {"audit", "idle"} : Leads(r, pc) /\ Goto(r, pc)
  BY DEF Delete
<1> DEFINE i == req[r].item
           q == [req[r] EXCEPT !.pc = pc]
<1>1. /\ req[r].pc = "write" /\ req[r].op = "delete" /\ Sound(req[r])
      /\ item' = [item EXCEPT ![i] = None] /\ Did(r) /\ Serve(r)
      /\ UNCHANGED <<projects, meant, tangled, status, audit, page, calls, reports>>
  BY SoundRequests DEF Delete
<1>2. /\ q \in Reqs /\ Shape(q) /\ Checked(q) /\ ~Creating(q) /\ ~Holding(q)
      /\ q.pc \in {"audit", "idle"}
      /\ i \in Rules => q.pc = "audit" \/ <<i, req[r].op>> \in unsure'
      /\ q.op = req[r].op /\ q.op \in Changes /\ q.item = i
      /\ req' = [req EXCEPT ![r] = q]
      /\ unsure \subseteq unsure' /\ unsure' \subseteq Rules \X Changes
      /\ faults' \in 0..MaxFaults
  BY <1>pc, <1>1, EndSound DEF Goto
<1> HIDE DEF q
<1>3. \A s \in Requests : req'[s] = IF s = r THEN q ELSE req[s]
  BY <1>2 DEF DashInv, TypeOK
<1>4. i \in Items
  BY <1>1 DEF Sound, Shape
<1>5. /\ item' \in [Items -> Row \cup {None}]
      /\ \A j \in Items : item'[j] = IF j = i THEN None ELSE item[j]
  BY <1>1, <1>4 DEF DashInv, TypeOK
<1> HIDE DEF i
<1>6. ReqInv'
  <2>1. ASSUME NEW s \in Requests, s # r PROVE Born(req[s])' /\ Copy(req[s])'
    <3>1. Sound(req[s])
      BY SoundRequests
    <3>2. Creating(req[s]) => req[s].item \in Items
      BY <3>1 DEF Sound, Shape, Creating, Items
    <3>3. Born(req[s])'
      BY <1>1, <1>3, <1>5, <2>1, <3>1, <3>2 DEF Sound, Born, Creating, Holding
    <3>4. Copy(req[s])'
      BY <1>1, <1>3, <2>1, <3>1 DEF Sound, Copy
    <3>5. QED BY <3>3, <3>4
  <2>2. Born(req[r])' /\ Copy(req[r])'
    BY <1>2, <1>3, EndClaimsNothing
  <2>3. \A s \in Requests : Shape(req[s])' /\ Checked(req[s])'
    BY <1>2, <1>3, SoundRequests DEF Sound, Shape, Checked
  <2>4. QED BY <2>1, <2>2, <2>3 DEF ReqInv
<1>7. Single'
  BY <1>2, <1>3 DEF DashInv, Single, Creating
<1>8. RowInv' /\ EditsKept'
  BY <1>1, <1>5 DEF DashInv, RowInv, EditsKept
<1>9. RowsValid'
  BY <1>5 DEF DashInv, RowsValid, Items
<1>10. AuditComplete'
  <2>1. ASSUME NEW j \in Rules, meant'[j] # None, item'[j] = None
        PROVE  "delete" \in done'[j] \/ meant'[j].project \notin projects'
    <3>1. CASE j = i
      BY <1>1, <3>1 DEF DashInv, TypeOK, Did, i
    <3>2. CASE j # i
      BY <1>1, <1>5, <2>1, <3>2 DEF DashInv, AuditComplete, TypeOK, Did, Items, i
    <3>3. QED BY <3>1, <3>2
  <2>2. ASSUME NEW j \in Rules, NEW op \in done'[j], <<j, op>> \notin unsure'
        PROVE  \/ op \in audit'[j]
               \/ \E s \in Requests :
                    req'[s].pc = "audit" /\ req'[s].item = j /\ req'[s].op = op
    BY <1>1, <1>2, <1>3, <2>2, DidAccounted DEF i
  <2>3. QED BY <2>1, <2>2 DEF AuditComplete
<1>11. served' \subseteq Users \X Projects /\ TenantsApart'
  BY <1>1, WriteServes
<1>12. done' \in [Rules -> SUBSET Changes]
  BY <1>1, <1>2, DidType
<1>13. req' \in [Requests -> Reqs]
  BY <1>2 DEF DashInv, TypeOK
<1>14. TypeOK'
  BY <1>1, <1>2, <1>5, <1>11, <1>12, <1>13 DEF DashInv, TypeOK, Changes
<1>15. QED BY <1>6, <1>7, <1>8, <1>9, <1>10, <1>11, <1>14 DEF DashInv

\* A failing statement only ends the request.
LEMMA FailStep ==
    ASSUME DashInv, NEW r \in Requests, Fail(r)
    PROVE  DashInv'
BY AnswerStep, PageType DEF Fail

LEMMA RecordStep ==
    ASSUME DashInv, NEW r \in Requests, Record(r)
    PROVE  DashInv'
<1> DEFINE i == req[r].item
           op == req[r].op
<1>1. /\ req[r].pc = "audit" /\ Answer(r)
      /\ UNCHANGED <<projects, rows, status, page, done, served, calls, reports>>
  BY DEF Record
<1>2. i \in Rules /\ op \in Changes
  BY <1>1, SoundRequests DEF Sound, Shape, Changes
<1>3. /\ req' \in [Requests -> Reqs] /\ ReqInv' /\ Single' /\ RowInv'
      /\ RowsValid' /\ EditsKept'
  BY <1>1, AnswerIsQuiet, RequestFrame
<1>4. /\ faults' \in 0..MaxFaults /\ unsure' \subseteq Rules \X Changes
      /\ audit' \in [Rules -> SUBSET Changes]
  BY <1>2, DashboardBoundsAssumption DEF Record, Doubt, DashInv, TypeOK, Changes
<1>5. /\ unsure \subseteq unsure' /\ \A j \in Rules : audit[j] \subseteq audit'[j]
      /\ <<i, op>> \in unsure' \/ op \in audit'[i]
  BY <1>2 DEF Record, Audited, Doubt, DashInv, TypeOK, Changes
<1>6. \A s \in Requests \ {r} : req'[s] = req[s]
  BY <1>1 DEF Answer, DashInv, TypeOK
<1>7. UNCHANGED <<projects, item, meant, tangled, status, page, done, served, calls, reports>>
  BY <1>1 DEF rows
<1>8. AuditComplete'
  <2>1. ASSUME NEW j \in Rules, meant'[j] # None, item'[j] = None
        PROVE  "delete" \in done'[j] \/ meant'[j].project \notin projects'
    BY <1>5, <1>7, <2>1 DEF DashInv, AuditComplete
  <2>2. ASSUME NEW j \in Rules, NEW c \in done'[j], <<j, c>> \notin unsure'
        PROVE  \/ c \in audit'[j]
               \/ \E s \in Requests :
                    req'[s].pc = "audit" /\ req'[s].item = j /\ req'[s].op = c
    <3>1. CASE c \in audit[j]
      BY <1>5, <3>1
    <3>2. ASSUME NEW s \in Requests, req[s].pc = "audit", req[s].item = j, req[s].op = c
          PROVE  \/ c \in audit'[j]
                 \/ \E t \in Requests :
                      req'[t].pc = "audit" /\ req'[t].item = j /\ req'[t].op = c
      BY <1>5, <1>6, <2>2, <3>2
    <3>3. <<j, c>> \notin unsure /\ c \in done[j]
      BY <1>5, <1>7, <2>2
    <3>4. QED BY <3>1, <3>2, <3>3, Accounted
  <2>3. QED BY <2>1, <2>2 DEF AuditComplete
<1>9. TypeOK' /\ TenantsApart'
  BY <1>3, <1>4, <1>7 DEF DashInv, TypeOK, TenantsApart, Changes
<1>10. QED BY <1>3, <1>8, <1>9 DEF DashInv

-----------------------------------------------------------------------------
(* What else changes the tables.                                           *)

LEMMA GroupStep ==
    ASSUME DashInv, NEW p \in Projects, NEW i \in Issues, Group(p, i)
    PROVE  DashInv'
<1> DEFINE row == [project |-> p, mode |-> "new_issue", size |-> 0]
<1>1. /\ meant[i] = None /\ item' = [item EXCEPT ![i] = row]
      /\ meant' = [meant EXCEPT ![i] = item'[i]]
      /\ UNCHANGED <<projects, tangled, status, audit, req, page, done, unsure, served, budgets>>
  BY DEF Group
<1>2. row \in Row /\ row # None /\ i \in Items
  BY NoneAssumption DEF Row, Sizes, Conditions, Items
<1> HIDE DEF row
<1>3. /\ item' \in [Items -> Row \cup {None}] /\ meant' \in [Items -> Row \cup {None}]
      /\ \A j \in Items : /\ item'[j] = IF j = i THEN row ELSE item[j]
                          /\ meant'[j] = IF j = i THEN row ELSE meant[j]
  BY <1>1, <1>2 DEF DashInv, TypeOK
<1>4. ReqInv'
  <2>1. ASSUME NEW s \in Requests PROVE Born(req[s])' /\ Copy(req[s])'
    <3>1. Sound(req[s])
      BY SoundRequests
    <3>2. Creating(req[s]) => req[s].item \in Items /\ req[s].item # i
      BY <3>1, ItemsAssumption DEF Sound, Shape, Creating, Items
    <3>3. Holding(req[s]) => req[s].item \in Items /\ req[s].item # i
      BY <1>1, <3>1 DEF Sound, Shape, Born, Holding
    <3>4. Born(req[s])'
      BY <1>1, <1>3, <3>1, <3>2, <3>3 DEF Sound, Born, Creating, Holding
    <3>5. Copy(req[s])'
      BY <1>1, <1>3, <3>1, <3>3 DEF Sound, Copy, Holding
    <3>6. QED BY <3>4, <3>5
  <2>2. \A s \in Requests : Shape(req[s])' /\ Checked(req[s])'
    BY <1>1, SoundRequests DEF Sound, Shape, Checked
  <2>3. QED BY <2>1, <2>2 DEF ReqInv
<1>5. RowInv' /\ EditsKept'
  BY <1>1, <1>2, <1>3 DEF DashInv, RowInv, EditsKept
<1>6. RowsValid'
  BY <1>3, ItemsAssumption DEF DashInv, RowsValid, Items
<1>7. Single' /\ TenantsApart'
  BY <1>1 DEF DashInv, Single, TenantsApart, Creating
<1>8. AuditComplete'
  BY <1>1, <1>3, ItemsAssumption DEF DashInv, AuditComplete, Items
<1>9. TypeOK'
  BY <1>1, <1>3 DEF DashInv, TypeOK, budgets
<1>10. QED BY <1>4, <1>5, <1>6, <1>7, <1>8, <1>9 DEF DashInv

LEMMA ReportStep ==
    ASSUME DashInv, NEW m \in Monitors, NEW s \in {"up", "down"}, Report(m, s)
    PROVE  DashInv'
<1>1. /\ UNCHANGED <<projects, item, meant, tangled, audit, req, page, done, unsure, served,
                     calls, faults>>
      /\ reports < MaxReports /\ reports' = reports + 1
      /\ status' = [status EXCEPT ![m] = s]
  BY DEF Report, rows
<1>2. TypeOK'
  BY <1>1, DashboardBoundsAssumption DEF DashInv, TypeOK, Statuses
<1>3. ReqInv' /\ Single' /\ RowInv'
  BY <1>1 DEF DashInv, ReqInv, Shape, Checked, Born, Copy, Single, RowInv, Creating, Holding
<1>4. RowsValid' /\ EditsKept' /\ TenantsApart' /\ AuditComplete'
  BY <1>1 DEF DashInv, RowsValid, EditsKept, TenantsApart, AuditComplete
<1>5. QED BY <1>2, <1>3, <1>4 DEF DashInv

LEMMA DeleteProjectStep ==
    ASSUME DashInv, NEW p \in Projects, DeleteProject(p)
    PROVE  DashInv'
<1>1. /\ UNCHANGED <<meant, tangled, status, audit, req, page, done, unsure, served, budgets>>
      /\ projects' = projects \ {p}
      /\ item' = [i \in Items |-> IF item[i] # None /\ item[i].project = p
                                  THEN None ELSE item[i]]
  BY DEF DeleteProject
<1>2. \A i \in Items : item'[i] = None \/ item'[i] = item[i]
  BY <1>1
<1>3. TypeOK'
  BY <1>1 DEF DashInv, TypeOK, budgets
<1>4. ReqInv'
  <2>1. ASSUME NEW s \in Requests PROVE Born(req[s])' /\ Copy(req[s])'
    <3>1. Sound(req[s])
      BY SoundRequests
    <3>2. Creating(req[s]) => req[s].item \in Items
      BY <3>1 DEF Sound, Shape, Creating, Items
    <3>3. QED BY <1>1, <1>2, <3>1, <3>2 DEF Sound, Born, Copy, Creating, Holding
  <2>2. \A s \in Requests : Shape(req[s])' /\ Checked(req[s])'
    BY <1>1, SoundRequests DEF Sound, Shape, Checked
  <2>3. QED BY <2>1, <2>2 DEF ReqInv
<1>5. RowInv' /\ EditsKept'
  BY <1>1, <1>2 DEF DashInv, RowInv, EditsKept
<1>6. RowsValid'
  BY <1>2 DEF DashInv, RowsValid, Items
<1>7. Single' /\ TenantsApart'
  BY <1>1 DEF DashInv, Single, TenantsApart, Creating
<1>8. AuditComplete'
  <2>1. ASSUME NEW j \in Rules, meant'[j] # None, item'[j] = None
        PROVE  "delete" \in done'[j] \/ meant'[j].project \notin projects'
    <3>1. j \in Items
      BY DEF Items
    <3>2. CASE item[j] = None
      BY <1>1, <2>1, <3>2 DEF DashInv, AuditComplete
    <3>3. CASE item[j] # None
      BY <1>1, <2>1, <3>1, <3>3 DEF DashInv, RowInv
    <3>4. QED BY <3>2, <3>3
  <2>2. QED BY <1>1, <2>1 DEF DashInv, AuditComplete
<1>9. QED BY <1>3, <1>4, <1>5, <1>6, <1>7, <1>8 DEF DashInv

-----------------------------------------------------------------------------
(* The invariant, and what follows from it.                                *)

LEMMA InitDash == Init => DashInv
<1> SUFFICES ASSUME Init PROVE DashInv
  OBVIOUS
<1>1. \A r \in Requests : req[r] = Quiet
  BY DEF Init
<1>2. ReqInv /\ Single
  BY <1>1, QuietSound DEF ReqInv, Single, Sound
<1>3. TypeOK
  BY QuietSound, DashboardBoundsAssumption DEF Init, TypeOK, Sound, Statuses
<1>4. RowInv /\ RowsValid /\ EditsKept /\ TenantsApart /\ AuditComplete
  BY DEF Init, RowInv, RowsValid, EditsKept, TenantsApart, AuditComplete, Items
<1>5. QED BY <1>2, <1>3, <1>4 DEF DashInv

LEMMA StepDash == DashInv /\ [Next]_vars => DashInv'
<1> SUFFICES ASSUME DashInv, [Next]_vars PROVE DashInv'
  OBVIOUS
<1>1. ASSUME NEW r \in Requests, Handle(r) PROVE DashInv'
  BY <1>1, HandleStep
<1>2. ASSUME NEW r \in Requests, Serving(r) PROVE DashInv'
  BY <1>2, OwnProjectStep, FetchStep, OwnItemStep, InsertStep, UpdateStep, DeleteStep,
     FailStep, RecordStep, ReadStep DEF Serving
<1>3. ASSUME NEW p \in Projects, DeleteProject(p) \/ \E i \in Issues : Group(p, i)
      PROVE  DashInv'
  BY <1>3, DeleteProjectStep, GroupStep
<1>4. ASSUME NEW m \in Monitors, NEW s \in {"up", "down"}, Report(m, s) PROVE DashInv'
  BY <1>4, ReportStep
<1>5. CASE UNCHANGED vars
  <2>1. UNCHANGED <<projects, item, meant, tangled, status, audit, req, page, done, unsure,
                    served, calls, faults, reports>>
    BY <1>5 DEF vars, rows, budgets
  <2>2. TypeOK'
    BY <2>1 DEF DashInv, TypeOK
  <2>3. ReqInv' /\ Single' /\ RowInv'
    BY <2>1 DEF DashInv, ReqInv, Shape, Checked, Born, Copy, Single, RowInv, Creating, Holding
  <2>4. RowsValid' /\ EditsKept' /\ TenantsApart' /\ AuditComplete'
    BY <2>1 DEF DashInv, RowsValid, EditsKept, TenantsApart, AuditComplete
  <2>5. QED BY <2>2, <2>3, <2>4 DEF DashInv
<1>6. QED BY <1>1, <1>2, <1>3, <1>4, <1>5 DEF Next

LEMMA Invariance == Spec => []DashInv
BY InitDash, StepDash, PTL DEF Spec

(***************************************************************************)
(* Every reachable state is a state of the tables and of requests at one   *)
(* of their statements.                                                    *)
(***************************************************************************)
THEOREM TypeCorrect == Spec => []TypeOK
<1>1. DashInv => TypeOK
  BY DEF DashInv
<1>2. QED BY <1>1, Invariance, PTL

(***************************************************************************)
(* Every stored rule and monitor passes Validate, whatever other requests  *)
(* write between the read and the UPDATE of a PATCH.                       *)
(***************************************************************************)
THEOREM RowsAreValid == Spec => []RowsValid
<1>1. DashInv => RowsValid
  BY DEF DashInv
<1>2. QED BY <1>1, Invariance, PTL

(***************************************************************************)
(* A row is what its edits make of it one after the other, unless one of   *)
(* them wrote from a copy that another had overwritten.                    *)
(***************************************************************************)
THEOREM NoEditLostButStale == Spec => []EditsKept
<1>1. DashInv => EditsKept
  BY DEF DashInv
<1>2. QED BY <1>1, Invariance, PTL

(***************************************************************************)
(* No user reads or changes what belongs to the project of another.        *)
(***************************************************************************)
THEOREM Isolation == Spec => []TenantsApart
<1>1. DashInv => TenantsApart
  BY DEF DashInv
<1>2. QED BY <1>1, Invariance, PTL

(***************************************************************************)
(* Whatever was done to a rule is in the audit log, or on its way there,   *)
(* or its write or its entry reported an error; and no rule goes without a *)
(* trace but with its project.                                             *)
(***************************************************************************)
THEOREM AuditTrail == Spec => []AuditComplete
<1>1. DashInv => AuditComplete
  BY DEF DashInv
<1>2. QED BY <1>1, Invariance, PTL

-----------------------------------------------------------------------------
(* The status page.                                                        *)

LEMMA OverallIsRight ==
    ASSUME NEW ms, ms \subseteq Monitors
    PROVE  LET down == \E m \in ms : status[m] = "down"
               up   == \E m \in ms : status[m] = "up"
           IN /\ (Overall(ms) = "major_outage") <=> (down /\ ~up)
              /\ (Overall(ms) = "degraded_performance") <=> (down /\ up)
<1> DEFINE D == {m \in ms : status[m] = "down"}
           U == {m \in ms : status[m] = "up"}
<1>1. IsFiniteSet(D) /\ IsFiniteSet(U)
  <2>1. IsFiniteSet(ms)
    BY MonitorsAssumption, FS_Subset
  <2>2. D \subseteq ms /\ U \subseteq ms
    OBVIOUS
  <2>3. QED BY <2>1, <2>2, FS_Subset
<1>2. /\ Cardinality(D) \in Nat /\ Cardinality(U) \in Nat
      /\ (Cardinality(D) = 0) <=> (D = {})
      /\ (Cardinality(U) = 0) <=> (U = {})
  BY <1>1, FS_CardinalityType, FS_EmptySet
<1>3. CountKnown(ms) = Cardinality(U) + Cardinality(D)
  BY DEF CountKnown
<1> DEFINE d == Cardinality(D)
           u == Cardinality(U)
<1>4. Overall(ms) = CASE u + d = 0 -> "operational"
                      [] d = u + d -> "major_outage"
                      [] d = 0     -> "operational"
                      [] OTHER     -> "degraded_performance"
  BY <1>3 DEF Overall
<1>5. (D # {} <=> \E m \in ms : status[m] = "down") /\ (U # {} <=> \E m \in ms : status[m] = "up")
  OBVIOUS
<1>6. /\ d \in Nat /\ u \in Nat /\ (d = 0 <=> D = {}) /\ (u = 0 <=> U = {})
  BY <1>2
<1> HIDE DEF D, U, d, u
<1>7. CASE D = {}
  <2>1. d = 0
    BY <1>6, <1>7
  <2>2. Overall(ms) = "operational"
    <3>1. CASE u = 0
      BY <1>4, <2>1, <3>1
    <3>2. CASE u # 0
      BY <1>4, <1>6, <2>1, <3>2
    <3>3. QED BY <3>1, <3>2
  <2>3. QED BY <1>5, <1>7, <2>2
<1>8. CASE D # {} /\ U = {}
  <2>1. d # 0 /\ u = 0
    BY <1>6, <1>8
  <2>2. Overall(ms) = "major_outage"
    BY <1>4, <1>6, <2>1
  <2>3. QED BY <1>5, <1>8, <2>2
<1>9. CASE D # {} /\ U # {}
  <2>1. d # 0 /\ u # 0
    BY <1>6, <1>9
  <2>2. Overall(ms) = "degraded_performance"
    BY <1>4, <1>6, <2>1
  <2>3. QED BY <1>5, <1>9, <2>2
<1>10. QED BY <1>7, <1>8, <1>9

\* Only the query of the page ends a request that waits for it.
LEMMA OnlyReadPage ==
    ASSUME TypeOK, [Next]_vars, NEW r \in Requests, req[r].pc = "page", req'[r].pc = "idle"
    PROVE  ReadPage(r)
<1>1. req'[r] # req[r]
  OBVIOUS
<1>2. ASSUME NEW s \in Requests, s # r, Handle(s) \/ Serving(s) PROVE FALSE
  <2>1. CASE Handle(s)
    <3>1. PICK q : Asks(q) /\ Ask(s, q)
      BY <1>2, <2>1, HandleAsks
    <3>2. QED BY <1>1, <1>2, <3>1 DEF Ask, TypeOK
  <2>2. CASE Update(s)
    BY <1>2, <2>2 DEF Update, Outdate, Goto, TypeOK
  <2>3. CASE OwnProject(s) \/ Fetch(s) \/ OwnItem(s) \/ Insert(s) \/ Delete(s)
    BY <1>1, <1>2, <2>3 DEF OwnProject, Fetch, OwnItem, Insert, Delete, Goto, Answer, TypeOK
  <2>4. CASE Fail(s) \/ Record(s) \/ Read(s) \/ FindSlug(s) \/ ReadPage(s)
    BY <1>1, <1>2, <2>4 DEF Fail, Record, Read, FindSlug, ReadPage, Goto, Answer, TypeOK
  <2>5. QED BY <1>2, <2>1, <2>2, <2>3, <2>4 DEF Serving
<1>3. ASSUME Handle(r) PROVE FALSE
  <2>1. PICK q : Asks(q) /\ Ask(r, q)
    BY <1>3, HandleAsks
  <2>2. QED BY <2>1 DEF Ask
<1>4. ASSUME Serving(r) PROVE ReadPage(r)
  <2>1. ASSUME FindSlug(r) \/ Record(r) \/ Read(r) \/ Fail(r) PROVE FALSE
    BY <2>1 DEF Fail, FindSlug, Record, Read
  <2>2. ASSUME OwnProject(r) \/ Fetch(r) \/ OwnItem(r) PROVE FALSE
    BY <2>2 DEF OwnProject, Fetch, OwnItem
  <2>3. ASSUME Insert(r) \/ Update(r) \/ Delete(r) PROVE FALSE
    BY <2>3 DEF Insert, Update, Delete
  <2>4. QED BY <1>4, <2>1, <2>2, <2>3 DEF Serving
<1>5. ASSUME NEW p \in Projects, DeleteProject(p) \/ \E i \in Issues : Group(p, i) PROVE FALSE
  BY <1>1, <1>5 DEF DeleteProject, Group
<1>6. ASSUME NEW m \in Monitors, NEW s \in {"up", "down"}, Report(m, s) PROVE FALSE
  BY <1>1, <1>6 DEF Report
<1>7. CASE UNCHANGED vars
  BY <1>1, <1>7 DEF vars
<1>8. QED BY <1>2, <1>3, <1>4, <1>5, <1>6, <1>7 DEF Next

(***************************************************************************)
(* The page answers an outage exactly if monitors are down and none is up, *)
(* and a degradation exactly if some are down and some up; monitors that   *)
(* were never checked do not count.                                        *)
(***************************************************************************)
THEOREM PageIsRight == Spec => PageRight
<1>1. TypeOK /\ [Next]_vars =>
        [\A r \in Requests : req[r].pc = "page" /\ req'[r].pc = "idle" =>
           LET ms == MonitorsOf(req[r].project)
               down == \E m \in ms : status[m] = "down"
               up   == \E m \in ms : status[m] = "up"
           IN /\ (page' = "major_outage") <=> (down /\ ~up)
              /\ (page' = "degraded_performance") <=> (down /\ up)]_vars
  <2> SUFFICES ASSUME TypeOK, [Next]_vars, NEW r \in Requests,
                      req[r].pc = "page", req'[r].pc = "idle"
               PROVE  LET ms == MonitorsOf(req[r].project)
                          down == \E m \in ms : status[m] = "down"
                          up   == \E m \in ms : status[m] = "up"
                      IN /\ (page' = "major_outage") <=> (down /\ ~up)
                         /\ (page' = "degraded_performance") <=> (down /\ up)
    OBVIOUS
  <2>1. page' = Overall(MonitorsOf(req[r].project))
    BY OnlyReadPage DEF ReadPage
  <2>2. MonitorsOf(req[r].project) \subseteq Monitors
    BY DEF MonitorsOf
  <2>3. QED BY <2>1, <2>2, OverallIsRight
<1>2. QED BY <1>1, TypeCorrect, PTL DEF Spec, PageRight
=============================================================================
