------------------------------ MODULE Dashboard ------------------------------
(***************************************************************************)
(* The requests of the dashboard about what a project owns: alert rules,   *)
(* monitors and issues, and the public status page.  Every handler is a    *)
(* sequence of statements without a transaction: read the row, read its    *)
(* project and compare the owner, merge and validate, write, record in the *)
(* audit log.  Requests overlap at every statement, and the project may be *)
(* deleted under them.                                                     *)
(*                                                                         *)
(* A row has the two fields the properties tell apart.  Of a rule: the     *)
(* condition and the window, which only a threshold needs.  Of a monitor:  *)
(* the channel and the interval.  0 stands for a value that is too small.  *)
(***************************************************************************)
EXTENDS Integers, FiniteSets

CONSTANTS
    Users, Projects,
    Owner,              \* the user of each project
    Rules, Monitors, Issues,
    Requests,
    None,
    MaxCalls,           \* bound on the requests
    MaxFaults,          \* bound on writes and audit entries that report an error
    MaxReports          \* bound on the status changes of monitors

ASSUME OwnerAssumption == Owner \in [Projects -> Users]
ASSUME DashboardBoundsAssumption ==
    MaxCalls \in Nat /\ MaxFaults \in Nat /\ MaxReports \in Nat

Items == Rules \cup Monitors \cup Issues

Conditions == {"new_issue", "threshold"}
Channels   == {"email", "slack"}
Statuses   == {"unknown", "up", "down"}
Sizes      == 0..1

Row == [project : Projects, mode : Conditions \cup Channels, size : Sizes]

ASSUME MonitorsAssumption == IsFiniteSet(Monitors)
ASSUME ItemsAssumption == Rules \cap Monitors = {} /\ Issues \cap (Rules \cup Monitors) = {}
ASSUME NoneAssumption == None \notin Row \cup Items \cup Conditions \cup Channels \cup Sizes

VARIABLES
    projects,  \* the projects there are
    item,      \* the row of an item, or None
    status,    \* monitors.status
    audit,     \* audit_logs of a rule
    req,       \* the requests
    page,      \* the last status page answered
    \* history and budgets
    done,      \* what was done to a rule
    meant,     \* the row that the edits of an item amount to
    tangled,   \* items edited from a copy that was no longer the row
    unsure,    \* what was done to a rule by a call that reported an error
    served,    \* whose projects were read or changed for whom
    calls, faults, reports

budgets == <<calls, faults, reports>>
rows    == <<item, meant, tangled>>
vars    == <<projects, rows, status, audit, req, page, done, unsure, served, budgets>>

\* A PATCH sends some of the fields; None is a field it does not send.
Patches == [mode : Conditions \cup Channels \cup {None}, size : Sizes \cup {None}]

Quiet == [pc |-> "idle", op |-> "get", user |-> None, project |-> None, item |-> None,
          row |-> None, patch |-> None, stale |-> FALSE]

Reqs ==
    [pc : {"idle", "project", "fetch", "owner", "write", "audit", "read", "slug", "page"},
     op : {"create", "list", "get", "edit", "delete", "children", "page"},
     user : Users \cup {None}, project : Projects \cup {None}, item : Items \cup {None},
     row : Row \cup {None}, patch : Patches \cup {None}, stale : BOOLEAN]

TypeOK ==
    /\ projects \subseteq Projects
    /\ item \in [Items -> Row \cup {None}]
    /\ status \in [Monitors -> Statuses]
    /\ audit \in [Rules -> SUBSET {"create", "edit", "delete"}]
    /\ req \in [Requests -> Reqs]
    /\ page \in {"none", "not_found", "operational", "degraded_performance", "major_outage"}
    /\ done \in [Rules -> SUBSET {"create", "edit", "delete"}]
    /\ meant \in [Items -> Row \cup {None}]
    /\ tangled \subseteq Items
    /\ unsure \subseteq Rules \X {"create", "edit", "delete"}
    /\ served \subseteq Users \X Projects
    /\ calls \in 0..MaxCalls /\ faults \in 0..MaxFaults /\ reports \in 0..MaxReports

Init ==
    /\ projects = Projects
    /\ item = [i \in Items |-> None]
    /\ status = [m \in Monitors |-> "unknown"]
    /\ audit = [i \in Rules |-> {}]
    /\ req = [r \in Requests |-> Quiet]
    /\ page = "none"
    /\ done = [i \in Rules |-> {}]
    /\ meant = [i \in Items |-> None]
    /\ tangled = {} /\ unsure = {} /\ served = {}
    /\ calls = 0 /\ faults = 0 /\ reports = 0

-----------------------------------------------------------------------------
(* The rules of the domain.                                                *)

\* AlertRule.Validate; the cooldown is followed in AlertCooldown.
ValidRule(row) == row.mode \in Conditions /\ (row.mode = "threshold" => row.size > 0)

\* Monitor.Validate.
ValidMonitor(row) == row.mode \in Channels /\ row.size > 0

Valid(i, row) == IF i \in Rules THEN ValidRule(row) ELSE ValidMonitor(row)

\* Mutant: a field that is not sent becomes the zero value.
ZeroesAbsent(row, patch) ==
    [row EXCEPT !.mode = IF patch.mode = None THEN @ ELSE patch.mode,
                !.size = IF patch.size = None THEN 0 ELSE patch.size]

\* The fields that were sent replace those of the copy.
Merge(row, patch) ==
    [row EXCEPT !.mode = IF patch.mode = None THEN @ ELSE patch.mode,
                !.size = IF patch.size = None THEN @ ELSE patch.size]

\* What a PATCH asks for, whatever the code does: each field that it sends
\* takes the value sent.
Asked(row, patch) ==
    [f \in DOMAIN row |-> IF f \in DOMAIN patch /\ patch[f] # None THEN patch[f] ELSE row[f]]

-----------------------------------------------------------------------------
(* The handlers: what a request asks for.                                  *)

Ask(r, q) ==
    /\ req[r].pc = "idle"
    /\ calls < MaxCalls
    /\ calls' = calls + 1
    /\ req' = [req EXCEPT ![r] = q]
    /\ UNCHANGED <<projects, rows, status, audit, page, done, unsure, served, faults, reports>>

OnProject(r, op, u, p, i, row) ==
    Ask(r, [Quiet EXCEPT !.pc = "project", !.op = op, !.user = u, !.project = p,
                         !.item = i, !.row = row])

OnItem(r, op, u, i, patch) ==
    Ask(r, [Quiet EXCEPT !.pc = "fetch", !.op = op, !.user = u, !.item = i, !.patch = patch])

\* The identifier of a new row is fresh.
Fresh(i) == item[i] = None /\ meant[i] = None /\ \A r \in Requests : req[r].item # i

CreateRule(r, u) ==
    \E p \in Projects, i \in Rules, c \in Conditions, n \in Sizes :
        Fresh(i) /\ OnProject(r, "create", u, p, i, [project |-> p, mode |-> c, size |-> n])

ListRules(r, u) == \E p \in Projects : OnProject(r, "list", u, p, None, None)

EditRule(r, u) ==
    \E i \in Rules : \/ \E c \in Conditions : OnItem(r, "edit", u, i, [mode |-> c, size |-> None])
                     \/ \E n \in Sizes : OnItem(r, "edit", u, i, [mode |-> None, size |-> n])

DeleteRule(r, u) == \E i \in Rules : OnItem(r, "delete", u, i, None)

CreateMonitor(r, u) ==
    \E p \in Projects, i \in Monitors, c \in Channels, n \in Sizes :
        Fresh(i) /\ OnProject(r, "create", u, p, i, [project |-> p, mode |-> c, size |-> n])

ListMonitors(r, u) == \E p \in Projects : OnProject(r, "list", u, p, None, None)

GetMonitor(r, u) == \E i \in Monitors : OnItem(r, "get", u, i, None)

EditMonitor(r, u) ==
    \E i \in Monitors : \/ \E c \in Channels : OnItem(r, "edit", u, i, [mode |-> c, size |-> None])
                        \/ \E n \in Sizes : OnItem(r, "edit", u, i, [mode |-> None, size |-> n])

DeleteMonitor(r, u) == \E i \in Monitors : OnItem(r, "delete", u, i, None)

ListChecks(r, u) == \E i \in Monitors : OnItem(r, "children", u, i, None)

GetIssue(r, u) == \E i \in Issues : OnItem(r, "get", u, i, None)

ListEvents(r, u) == \E i \in Issues : OnItem(r, "children", u, i, None)

\* The page is public.
StatusPage(r) ==
    \E p \in Projects : Ask(r, [Quiet EXCEPT !.pc = "slug", !.op = "page", !.project = p])

-----------------------------------------------------------------------------
(* The use cases, one action for each statement they wait for.             *)

\* Mutant: the project must exist, and that is all.
Exists(r) == req[r].project \in projects

\* GetByID of the project, and the comparison of its owner.
Owns(r) == req[r].project \in projects /\ Owner[req[r].project] = req[r].user

Goto(r, pc) == req' = [req EXCEPT ![r].pc = pc]

\* The answer is sent.
Answer(r) == req' = [req EXCEPT ![r] = Quiet]

\* Create and List: the ownership of the project, and Validate.
OwnProject(r) ==
    LET q == req[r] IN
    /\ q.pc = "project"
    /\ \/ Owns(r) /\ q.op = "create" /\ Valid(q.item, q.row) /\ Goto(r, "write")
       \/ Owns(r) /\ q.op = "create" /\ ~Valid(q.item, q.row) /\ Answer(r)
       \/ Owns(r) /\ q.op = "list" /\ Goto(r, "read")
       \/ ~Owns(r) /\ Answer(r)
    /\ UNCHANGED <<projects, rows, status, audit, page, done, unsure, served, budgets>>

\* getOwned...: the row first, whoever asks.
Fetch(r) ==
    LET i == req[r].item IN
    /\ req[r].pc = "fetch"
    /\ \/ item[i] = None /\ Answer(r)
       \/ /\ item[i] # None
          /\ req' = [req EXCEPT ![r].pc = "owner", ![r].row = item[i],
                                ![r].project = item[i].project]
    /\ UNCHANGED <<projects, rows, status, audit, page, done, unsure, served, budgets>>

\* What was read or written for whom.
Serve(r) == served' = served \cup {<<req[r].user, req[r].project>>}

\* getOwned...: then its project.  A PATCH merges and validates.
OwnItem(r) ==
    LET q == req[r]
        merged == Merge(q.row, q.patch)
    IN
    /\ q.pc = "owner"
    /\ \/ ~Owns(r) /\ Answer(r) /\ UNCHANGED served
       \/ Owns(r) /\ q.op = "get" /\ Answer(r) /\ Serve(r)
       \/ Owns(r) /\ q.op = "children" /\ Goto(r, "read") /\ UNCHANGED served
       \/ Owns(r) /\ q.op = "delete" /\ Goto(r, "write") /\ UNCHANGED served
       \/ /\ Owns(r) /\ q.op = "edit" /\ Valid(q.item, merged)
          /\ req' = [req EXCEPT ![r].pc = "write", ![r].row = merged]
          /\ UNCHANGED served
       \/ Owns(r) /\ q.op = "edit" /\ ~Valid(q.item, merged) /\ Answer(r) /\ UNCHANGED served
    /\ UNCHANGED <<projects, rows, status, audit, page, done, unsure, budgets>>

\* Mutant: every change is audited as those of rules are.
AuditNext(i) == "audit"

\* Rules are audited; monitors tell the worker, as MonitorFleet says.
NextPc(i) == IF i \in Rules THEN "audit" ELSE "idle"

\* What is done without an entry, as a call has reported an error.
Doubt(r) ==
    /\ faults < MaxFaults /\ faults' = faults + 1
    /\ unsure' = unsure \cup {<<req[r].item, req[r].op>>}

\* Where a write leads: on, or, if it reports an error although it was
\* executed (the reply is lost, or the client has gone and its context is
\* cancelled), to the answer, and then no entry is written.  The request about
\* a monitor ends in both cases.
Leads(r, pc) ==
    \/ pc = NextPc(req[r].item) /\ UNCHANGED <<unsure, faults>>
    \/ pc = "idle" /\ req[r].item \in Rules /\ Doubt(r)

Did(r) == done' = [j \in Rules |-> IF j = req[r].item THEN done[j] \cup {req[r].op} ELSE done[j]]

\* INSERT, which the foreign key refuses without the project.
Insert(r) ==
    LET q == req[r] IN
    /\ q.pc = "write" /\ q.op = "create"
    /\ \/ /\ q.project \in projects
          /\ item' = [item EXCEPT ![q.item] = q.row]
          /\ meant' = [meant EXCEPT ![q.item] = q.row]
          /\ \E pc \in {"audit", "idle"} : Leads(r, pc) /\ Goto(r, pc)
          /\ Did(r) /\ Serve(r)
       \/ /\ q.project \notin projects /\ Answer(r)
          /\ UNCHANGED <<item, meant, done, served, unsure, faults>>
    /\ UNCHANGED <<projects, tangled, status, audit, page, calls, reports>>

\* Mutant: UPDATE of the fields that were sent.
SentFields(r) == Merge(item[req[r].item], req[r].patch)

\* UPDATE of all the fields.
AllFields(r) == req[r].row

\* The copies that other edits hold of the row are old from now on.
Outdate(r, pc) ==
    req' = [s \in Requests |->
              IF s = r THEN [req[r] EXCEPT !.pc = pc]
              ELSE IF req[s].item = req[r].item /\ req[s].pc \in {"owner", "write"}
                   THEN [req[s] EXCEPT !.stale = TRUE] ELSE req[s]]

\* Without the row, no row is updated and nothing is said.
Update(r) ==
    LET q == req[r] IN
    /\ q.pc = "write" /\ q.op = "edit"
    /\ \/ /\ item[q.item] # None
          /\ item' = [item EXCEPT ![q.item] = AllFields(r)]
          /\ meant' = [meant EXCEPT ![q.item] = Asked(@, q.patch)]
          /\ tangled' = IF q.stale THEN tangled \cup {q.item} ELSE tangled
          /\ \E pc \in {"audit", "idle"} : Leads(r, pc) /\ Outdate(r, pc)
          /\ Did(r) /\ Serve(r)
       \/ /\ item[q.item] = None
          /\ Goto(r, NextPc(q.item))
          /\ UNCHANGED <<rows, done, served, unsure, faults>>
    /\ UNCHANGED <<projects, status, audit, page, calls, reports>>

Delete(r) ==
    LET q == req[r] IN
    /\ q.pc = "write" /\ q.op = "delete"
    /\ item' = [item EXCEPT ![q.item] = None]
    /\ \E pc \in {"audit", "idle"} : Leads(r, pc) /\ Goto(r, pc)
    /\ Did(r) /\ Serve(r)
    /\ UNCHANGED <<projects, meant, tangled, status, audit, page, calls, reports>>

\* A statement fails and has no effect: the handler answers with the error.
\* What the query of the status page answers then is left out.
Fail(r) ==
    /\ req[r].pc \in {"project", "fetch", "owner", "write", "read", "slug"}
    /\ Answer(r)
    /\ UNCHANGED <<projects, rows, status, audit, page, done, unsure, served, budgets>>

\* Mutant: edits are not recorded.
AllButEdits(op) == op # "edit"

\* What goes to the audit log.
Audited(op) == op \in {"create", "edit", "delete"}

\* writeAuditLog: a failure is logged and forgotten.
Record(r) ==
    LET q == req[r] IN
    /\ q.pc = "audit"
    /\ \/ /\ audit' = [audit EXCEPT ![q.item] = IF Audited(q.op) THEN @ \cup {q.op} ELSE @]
          /\ UNCHANGED <<unsure, faults>>
       \/ Doubt(r) /\ UNCHANGED audit
    /\ Answer(r)
    /\ UNCHANGED <<projects, rows, status, page, done, served, calls, reports>>

\* The second query of a list, of the events of an issue, or of the checks.
Read(r) ==
    /\ req[r].pc = "read"
    /\ Answer(r) /\ Serve(r)
    /\ UNCHANGED <<projects, rows, status, audit, page, done, unsure, budgets>>

-----------------------------------------------------------------------------
(* The status page.                                                        *)

MonitorsOf(p) == {m \in Monitors : item[m] # None /\ item[m].project = p}

\* Mutant: every monitor counts, also one that was never checked.
CountAll(ms) == Cardinality(ms)

\* Monitors with the status "unknown" do not count.
CountKnown(ms) ==
    Cardinality({m \in ms : status[m] = "up"}) + Cardinality({m \in ms : status[m] = "down"})

\* ComputeOverallStatus.
Overall(ms) ==
    LET downCount == Cardinality({m \in ms : status[m] = "down"})
        total     == CountKnown(ms)
    IN CASE total = 0         -> "operational"
         [] downCount = total -> "major_outage"
         [] downCount = 0     -> "operational"
         [] OTHER             -> "degraded_performance"

FindSlug(r) ==
    /\ req[r].pc = "slug"
    /\ \/ req[r].project \in projects /\ Goto(r, "page") /\ UNCHANGED page
       \/ req[r].project \notin projects /\ Answer(r) /\ page' = "not_found"
    /\ UNCHANGED <<projects, rows, status, audit, done, unsure, served, budgets>>

ReadPage(r) ==
    /\ req[r].pc = "page"
    /\ page' = Overall(MonitorsOf(req[r].project))
    /\ Answer(r)
    /\ UNCHANGED <<projects, rows, status, audit, done, unsure, served, budgets>>

-----------------------------------------------------------------------------
(* What else changes the tables.                                           *)

\* The worker stores the first event of an issue.
Group(p, i) ==
    /\ p \in projects /\ item[i] = None /\ meant[i] = None
    /\ item' = [item EXCEPT ![i] = [project |-> p, mode |-> "new_issue", size |-> 0]]
    /\ meant' = [meant EXCEPT ![i] = item'[i]]
    /\ UNCHANGED <<projects, tangled, status, audit, req, page, done, unsure, served, budgets>>

\* The worker sets the status of a monitor.
Report(m, s) ==
    /\ item[m] # None /\ status[m] # s
    /\ reports < MaxReports /\ reports' = reports + 1
    /\ status' = [status EXCEPT ![m] = s]
    /\ UNCHANGED <<projects, rows, audit, req, page, done, unsure, served, calls, faults>>

\* DELETE of a project takes its rules, monitors and issues along.
DeleteProject(p) ==
    /\ p \in projects
    /\ projects' = projects \ {p}
    /\ item' = [i \in Items |-> IF item[i] # None /\ item[i].project = p THEN None ELSE item[i]]
    /\ UNCHANGED <<meant, tangled, status, audit, req, page, done, unsure, served, budgets>>

Handle(r) ==
    \/ StatusPage(r)
    \/ \E u \in Users :
         \/ CreateRule(r, u) \/ ListRules(r, u) \/ EditRule(r, u) \/ DeleteRule(r, u)
         \/ CreateMonitor(r, u) \/ ListMonitors(r, u) \/ GetMonitor(r, u)
         \/ EditMonitor(r, u) \/ DeleteMonitor(r, u) \/ ListChecks(r, u)
         \/ GetIssue(r, u) \/ ListEvents(r, u)

Serving(r) ==
    \/ OwnProject(r) \/ Fetch(r) \/ OwnItem(r) \/ Insert(r) \/ Update(r) \/ Delete(r)
    \/ Fail(r) \/ Record(r) \/ Read(r) \/ FindSlug(r) \/ ReadPage(r)

Next ==
    \/ \E r \in Requests : Handle(r) \/ Serving(r)
    \/ \E p \in Projects : DeleteProject(p) \/ \E i \in Issues : Group(p, i)
    \/ \E m \in Monitors : \E s \in {"up", "down"} : Report(m, s)

Spec == Init /\ [][Next]_vars

-----------------------------------------------------------------------------
(* Properties.                                                             *)

(***************************************************************************)
(* "Validate menjaga integritas data" (alert.go:48): every stored rule and *)
(* monitor satisfies Validate, although a PATCH validates its own copy and *)
(* other requests write between its read and its UPDATE                    *)
(* (alert_rule.go:145-193, monitor.go:150-186).                            *)
(***************************************************************************)
RowsValid == \A i \in Rules \cup Monitors : item[i] # None => Valid(i, item[i])

(***************************************************************************)
(* No field of an answered PATCH is lost: a row is what its edits, taken   *)
(* one after the other, make of it, unless one of them wrote from a copy   *)
(* that another had overwritten (alert_rule.go:146-186, monitor.go:151-179:*)
(* the read and the write are two statements without a version check).     *)
(***************************************************************************)
EditsKept == \A i \in Items \ tangled : item[i] # None => item[i] = meant[i]

(***************************************************************************)
(* Tenants stay apart: what is read for a user, or written, belongs to a   *)
(* project of this user, although the route names only the item and its    *)
(* project is found by another query (alert_rule.go:117-132,               *)
(* issue.go:54-69, monitor.go:118-133).                                    *)
(***************************************************************************)
TenantsApart == \A s \in served : Owner[s[2]] = s[1]

(***************************************************************************)
(* The audit log tells what was changed (alert_rule.go:37-52), unless a    *)
(* call said otherwise: whatever was done to a rule has its entry, or the  *)
(* request that did it has yet to write it, or the write or the entry      *)
(* reported an error; and a rule that is gone was deleted so or went with  *)
(* its project.                                                            *)
(***************************************************************************)
AuditComplete ==
    \A i \in Rules :
        /\ \A op \in done[i] :
             \/ op \in audit[i] \/ <<i, op>> \in unsure
             \/ \E r \in Requests : req[r].pc = "audit" /\ req[r].item = i /\ req[r].op = op
        /\ meant[i] # None /\ item[i] = None
             => "delete" \in done[i] \/ meant[i].project \notin projects

(***************************************************************************)
(* The page is right about the moment of its query (status.go:75-98): it   *)
(* reports an outage if monitors were checked and all found down, trouble  *)
(* if some were, and neither for monitors that were never checked.         *)
(***************************************************************************)
PageRight ==
    [][\A r \in Requests : req[r].pc = "page" /\ req'[r].pc = "idle" =>
         LET ms == MonitorsOf(req[r].project)
             down == \E m \in ms : status[m] = "down"
             up   == \E m \in ms : status[m] = "up"
         IN /\ (page' = "major_outage") <=> (down /\ ~up)
            /\ (page' = "degraded_performance") <=> (down /\ up)]_vars

-----------------------------------------------------------------------------
(* What the proofs in Dashboard_proofs need besides the properties.        *)

\* What a request carries at each of its statements.
Shape(q) ==
    /\ q.pc \in {"project", "fetch", "owner", "write", "read"} => q.user \in Users
    /\ q.pc \in {"project", "owner", "write", "read", "slug", "page"} => q.project \in Projects
    /\ q.pc \in {"fetch", "owner", "write"} => q.item \in Items
    /\ q.pc \in {"owner", "write"} => q.row \in Row
    /\ q.pc \in {"project", "write"} /\ q.op = "create"
         => q.row \in Row /\ q.item \in Rules \cup Monitors
    /\ q.pc \in {"fetch", "owner", "write"} /\ q.op = "edit" => q.patch \in Patches
    /\ q.pc = "project" => q.op \in {"create", "list"}
    /\ q.pc \in {"fetch", "owner"} => q.op \in {"get", "edit", "delete", "children"}
    /\ q.pc \in {"write", "audit"} => q.op \in {"create", "edit", "delete"}
    /\ q.pc = "audit" => q.item \in Rules

\* Validate ran on what is about to be written, and the owner was compared.
Checked(q) ==
    /\ q.pc = "write" /\ q.op \in {"create", "edit"} => Valid(q.item, q.row)
    /\ q.pc \in {"write", "read"} => Owner[q.project] = q.user

Creating(q) == q.op = "create" /\ q.pc \in {"project", "write"}
Holding(q)  == q.op # "create" /\ q.pc \in {"owner", "write"}

\* What is created is new; what is held was a row, and of the same project.
Born(q) ==
    /\ Creating(q) => /\ item[q.item] = None /\ meant[q.item] = None
                      /\ q.row.project = q.project
    /\ Holding(q) => meant[q.item] # None /\ q.row.project = meant[q.item].project

\* A copy that is not stale is what the edits amount to so far.
Copy(q) ==
    ~q.stale /\ q.op = "edit" /\ q.item \notin tangled =>
        /\ q.pc = "owner" => q.row = meant[q.item]
        /\ q.pc = "write" => q.row = Asked(meant[q.item], q.patch)

ReqInv == \A r \in Requests :
    Shape(req[r]) /\ Checked(req[r]) /\ Born(req[r]) /\ Copy(req[r])

\* New identifiers differ.
Single == \A r, s \in Requests :
    r # s /\ Creating(req[r]) /\ Creating(req[s]) => req[r].item # req[s].item

\* A row stays with its project.
RowInv == \A i \in Items :
    item[i] # None => meant[i] # None /\ item[i].project = meant[i].project

DashInv ==
    /\ TypeOK /\ ReqInv /\ Single /\ RowInv
    /\ RowsValid /\ EditsKept /\ TenantsApart /\ AuditComplete
=============================================================================
