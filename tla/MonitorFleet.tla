---------------------------- MODULE MonitorFleet ----------------------------
(***************************************************************************)
(* Uptime monitors.  The API process edits rows of the monitors table and  *)
(* publishes a sync message afterwards.  The worker process keeps one      *)
(* checker goroutine per monitor: MonitorSupervisor.Run rebuilds them from *)
(* the table when the worker starts, while RunMonitorSync, in a goroutine  *)
(* of its own, follows the messages.  A checker works on the copy of the   *)
(* row it was spawned with, and writes only the status column back.        *)
(*                                                                         *)
(* Redis publish/subscribe delivers to whoever is subscribed at that       *)
(* moment, in order, and to nobody else.                                   *)
(***************************************************************************)
EXTENDS Integers, Sequences, FiniteSets

CONSTANTS
    Monitors,          \* monitor ids
    Requests,          \* API requests that may be in flight at a time
    Slots,             \* checker goroutines that may exist at a time
    FailureThreshold,  \* monitors.failure_threshold
    MaxChanges,        \* bound on the writes of the API
    MaxRestarts,       \* bound on restarts of the worker
    MaxLost,           \* bound on sync messages lost by a failing call
    CheckerFaults,     \* whether the statements of a check may fail
    None               \* no monitor

ASSUME ThresholdAssumption == FailureThreshold \in Nat \ {0}
ASSUME FleetBoundsAssumption ==
    /\ MaxChanges \in Nat /\ MaxRestarts \in Nat /\ MaxLost \in Nat
    /\ CheckerFaults \in BOOLEAN

Statuses == {"unknown", "up", "down"}

VARIABLES
    \* Postgres
    config,      \* which write a row's settings come from (0: no row)
    status,      \* monitors.status
    recent,      \* the last FailureThreshold monitor_checks, newest first
    \* the API process
    request,     \* requests in flight: where, what, on which monitor
    changes,     \* writes so far
    \* Redis: messages on their way to the worker's subscription
    bus,
    \* the worker process
    subscribed,  \* RunMonitorSync has its subscription
    boot,        \* progress of MonitorSupervisor.Run
    bootRows,    \* rows of ListAll that still have to be spawned
    syncing,     \* the row Sync fetched and is about to spawn, or None
    checker,     \* the checker goroutines
    cancels,     \* MonitorSupervisor.cancels: the current goroutine
    \* history and budgets
    born,        \* ids handed out so far
    heard,       \* whether the last write of a monitor was made while the
                 \* worker was subscribed, and its messages were not lost
    restarts,
    lost

dbVars     == <<config, status, recent>>
apiVars    == <<request, changes>>
superVars  == <<subscribed, boot, bootRows, syncing>>
fleetVars  == <<checker, cancels>>
histVars   == <<born, heard, restarts, lost>>
vars == <<dbVars, apiVars, bus, superVars, fleetVars, histVars>>

Idle == [pc |-> "idle", kind |-> "none", mon |-> None]

\* A copy of a row, as GetByID and ListAll return it.
RowOf(m) == [mon |-> m, config |-> config[m], status |-> status[m]]
Rows == [mon : Monitors, config : 1..MaxChanges, status : Statuses]

ASSUME NoneAssumption == None \notin Monitors \cup Slots \cup Rows

Free == [mon |-> None, config |-> 0, status |-> "unknown", pc |-> "free",
         isUp |-> FALSE, cancelled |-> FALSE]

Kinds == {"created", "updated", "deleted"}

TypeOK ==
    /\ config \in [Monitors -> 0..MaxChanges]
    /\ status \in [Monitors -> Statuses]
    /\ recent \in [Monitors -> Seq(BOOLEAN)]
    /\ \A m \in Monitors : Len(recent[m]) <= FailureThreshold
    /\ request \in [Requests -> [pc : {"idle", "write", "publish"},
                                 kind : Kinds \cup {"none"},
                                 mon : Monitors \cup {None}]]
    /\ changes \in 0..MaxChanges
    /\ bus \in Seq([kind : Kinds, mon : Monitors])
    /\ subscribed \in BOOLEAN
    /\ boot \in {"list", "spawn", "done"}
    /\ bootRows \subseteq Rows
    /\ syncing \in Rows \cup {None}
    /\ checker \in [Slots -> [mon : Monitors \cup {None}, config : 0..MaxChanges,
                              status : Statuses,
                              pc : {"free", "tick", "evaluate", "down", "up"},
                              isUp : BOOLEAN, cancelled : BOOLEAN]]
    /\ cancels \in [Monitors -> Slots \cup {None}]
    /\ born \subseteq Monitors
    /\ heard \in [Monitors -> {"no", "booting", "yes"}]
    /\ \A m \in Monitors \ born : heard[m] = "no"
    /\ restarts \in 0..MaxRestarts
    /\ lost \in 0..MaxLost

Init ==
    /\ config = [m \in Monitors |-> 0]
    /\ status = [m \in Monitors |-> "unknown"]
    /\ recent = [m \in Monitors |-> <<>>]
    /\ request = [r \in Requests |-> Idle]
    /\ changes = 0
    /\ bus = <<>>
    /\ subscribed = FALSE
    /\ boot = "list"
    /\ bootRows = {}
    /\ syncing = None
    /\ checker = [g \in Slots |-> Free]
    /\ cancels = [m \in Monitors |-> None]
    /\ born = {}
    /\ heard = [m \in Monitors |-> "no"]
    /\ restarts = 0
    /\ lost = 0

-----------------------------------------------------------------------------
(* The API process: MonitorUsecase.Create, Update and Delete.              *)

Exists(m) == config[m] # 0

\* The worker is subscribed, before or after it has spawned the rows of ListAll.
Listening == IF ~subscribed THEN "no" ELSE IF boot = "done" THEN "yes" ELSE "booting"

Unheard(m) == heard' = [heard EXCEPT ![m] = "no"]

\* The row is written; remember whether the worker was listening.
Write(m, new) ==
    /\ changes < MaxChanges
    /\ changes' = changes + 1
    /\ config' = [config EXCEPT ![m] = new]
    /\ heard' = [heard EXCEPT ![m] = Listening]

At(r, label, kind, m) ==
    request' = [request EXCEPT ![r] = [pc |-> label, kind |-> kind, mon |-> m]]

\* Create: one INSERT, with the default status.  Ids are never used twice.
Create(r, m) ==
    /\ request[r].pc = "idle"
    /\ m \notin born
    /\ born' = born \cup {m}
    /\ Write(m, changes + 1)
    /\ At(r, "publish", "created", m)
    /\ UNCHANGED <<status, recent, bus, superVars, fleetVars, restarts, lost>>

\* Update and Delete read the row first, for its owner and its settings.
Fetch(r, m, kind) ==
    /\ request[r].pc = "idle"
    /\ Exists(m)
    /\ At(r, "write", kind, m)
    /\ UNCHANGED <<dbVars, changes, bus, superVars, fleetVars, histVars>>

\* UPDATE ... WHERE id or DELETE ... WHERE id: no row, no error.
UpdateRow(r) ==
    LET m == request[r].mon IN
    /\ request[r].pc = "write" /\ request[r].kind = "updated"
    /\ \/ Exists(m) /\ Write(m, changes + 1)
       \/ ~Exists(m) /\ UNCHANGED <<config, changes, heard>>
    /\ At(r, "publish", "updated", m)
    /\ UNCHANGED <<status, recent, bus, superVars, fleetVars, born, restarts, lost>>

\* Mutant: the error of the DELETE is ignored.
DeleteRowBlind(r) ==
    LET m == request[r].mon IN
    /\ request[r].pc = "write" /\ request[r].kind = "deleted"
    /\ \/ Exists(m) /\ Write(m, 0) /\ recent' = [recent EXCEPT ![m] = <<>>]
       \/ UNCHANGED <<config, changes, heard, recent>>
    /\ At(r, "publish", "deleted", m)
    /\ UNCHANGED <<status, bus, superVars, fleetVars, born, restarts, lost>>

\* Deleting the row deletes its checks (foreign key of migration 000006).
DeleteRow(r) ==
    LET m == request[r].mon IN
    /\ request[r].pc = "write" /\ request[r].kind = "deleted"
    /\ \/ Exists(m) /\ Write(m, 0) /\ recent' = [recent EXCEPT ![m] = <<>>]
       \/ ~Exists(m) /\ UNCHANGED <<config, changes, heard, recent>>
    /\ At(r, "publish", "deleted", m)
    /\ UNCHANGED <<status, bus, superVars, fleetVars, born, restarts, lost>>

\* Publish; its error is swallowed by the usecase.  A lost message stands for any
\* failure between the commit of the write and the delivery to the worker.
Publish(r) ==
    LET m == request[r].mon IN
    /\ request[r].pc = "publish"
    /\ \/ /\ subscribed
          /\ bus' = Append(bus, [kind |-> request[r].kind, mon |-> m])
          /\ UNCHANGED <<heard, lost>>
       \/ ~subscribed /\ Unheard(m) /\ UNCHANGED <<bus, lost>>
       \/ /\ lost < MaxLost
          /\ lost' = lost + 1
          /\ Unheard(m)
          /\ UNCHANGED bus
    /\ request' = [request EXCEPT ![r] = Idle]
    /\ UNCHANGED <<dbVars, changes, superVars, fleetVars, born, restarts>>

\* The deletion of a project takes its monitors along, by the foreign key of
\* migration 000005, in one statement and without a message.
Cascade(S) ==
    /\ changes < MaxChanges
    /\ S # {} /\ \A m \in S : Exists(m)
    /\ changes' = changes + 1
    /\ config' = [m \in Monitors |-> IF m \in S THEN 0 ELSE config[m]]
    /\ recent' = [m \in Monitors |-> IF m \in S THEN <<>> ELSE recent[m]]
    /\ heard' = [m \in Monitors |-> IF m \in S THEN "no" ELSE heard[m]]
    /\ UNCHANGED <<status, request, bus, superVars, fleetVars, born, restarts, lost>>

ApiStep(r) ==
    \/ \E m \in Monitors : \/ Create(r, m)
                           \/ Fetch(r, m, "updated")
                           \/ Fetch(r, m, "deleted")
    \/ UpdateRow(r)
    \/ DeleteRow(r)
    \/ Publish(r)

-----------------------------------------------------------------------------
(* The supervisor.                                                         *)

\* Mutant: the goroutine that already runs for the monitor is forgotten.
CancelNothing(m, fleet) == fleet

\* Cancel the goroutine cancels[m] points at.
CancelCurrent(m, fleet) ==
    [g \in Slots |-> IF g = cancels[m] /\ cancels[m] # None
                     THEN [fleet[g] EXCEPT !.cancelled = TRUE] ELSE fleet[g]]

\* spawn, in one critical section: cancel, register and start.
Spawn(row) ==
    \E g \in Slots :
      /\ checker[g] = Free
      /\ checker' = [CancelCurrent(row.mon, checker) EXCEPT ![g] =
                       [mon |-> row.mon, config |-> row.config, status |-> row.status,
                        pc |-> "tick", isUp |-> FALSE, cancelled |-> FALSE]]
      /\ cancels' = [cancels EXCEPT ![row.mon] = g]

\* Run: ListAll, then spawn the rows one by one.
ListAll ==
    /\ boot = "list"
    /\ bootRows' = {RowOf(m) : m \in {k \in Monitors : Exists(k)}}
    /\ boot' = "spawn"
    /\ UNCHANGED <<dbVars, apiVars, bus, subscribed, syncing, fleetVars, histVars>>

BootSpawn ==
    /\ boot = "spawn"
    /\ \E row \in bootRows : Spawn(row) /\ bootRows' = bootRows \ {row}
    /\ UNCHANGED <<dbVars, apiVars, bus, subscribed, boot, syncing, histVars>>

BootDone ==
    /\ boot = "spawn" /\ bootRows = {}
    /\ boot' = "done"
    /\ UNCHANGED <<dbVars, apiVars, bus, subscribed, bootRows, syncing, fleetVars,
                   histVars>>

\* RunMonitorSync, first statement.
Subscribe ==
    /\ ~subscribed
    /\ subscribed' = TRUE
    /\ UNCHANGED <<dbVars, apiVars, bus, boot, bootRows, syncing, fleetVars, histVars>>

\* Mutant: Sync ignores a message about a monitor it already runs.
NewsOnly(m) == IF cancels[m] # None THEN checker[cancels[m]].config ELSE config[m]

\* The settings Sync reads: those of the table.
Fetched(m) == config[m]

\* Sync, outside the lock: fetch the current row.  A monitor that is gone
\* is skipped, and so is one whose row could not be read.
SyncFetch ==
    LET m == Head(bus).mon IN
    /\ bus # <<>> /\ syncing = None
    /\ Head(bus).kind \in {"created", "updated"}
    /\ bus' = Tail(bus)
    /\ \/ Exists(m) /\ syncing' = [RowOf(m) EXCEPT !.config = Fetched(m)] /\ UNCHANGED <<heard, lost>>
       \/ ~Exists(m) /\ UNCHANGED <<syncing, heard, lost>>
       \/ /\ lost < MaxLost
          /\ lost' = lost + 1
          /\ Unheard(m)
          /\ UNCHANGED syncing
    /\ UNCHANGED <<dbVars, apiVars, subscribed, boot, bootRows, fleetVars, born, restarts>>

SyncSpawn ==
    /\ syncing # None
    /\ Spawn(syncing)
    /\ syncing' = None
    /\ UNCHANGED <<dbVars, apiVars, bus, subscribed, boot, bootRows, histVars>>

\* Remove, in one critical section.
Remove ==
    LET m == Head(bus).mon IN
    /\ bus # <<>> /\ syncing = None
    /\ Head(bus).kind = "deleted"
    /\ bus' = Tail(bus)
    /\ checker' = CancelCurrent(m, checker)
    /\ cancels' = [cancels EXCEPT ![m] = None]
    /\ UNCHANGED <<dbVars, apiVars, superVars, histVars>>

\* The worker dies and starts again, with nothing in memory.
Restart ==
    /\ restarts < MaxRestarts
    /\ restarts' = restarts + 1
    /\ bus' = <<>>
    /\ subscribed' = FALSE
    /\ boot' = "list"
    /\ bootRows' = {}
    /\ syncing' = None
    /\ checker' = [g \in Slots |-> Free]
    /\ cancels' = [m \in Monitors |-> None]
    /\ heard' = [m \in Monitors |-> "no"]
    /\ UNCHANGED <<dbVars, apiVars, born, lost>>

-----------------------------------------------------------------------------
(* The checkers.  The context of a cancelled goroutine fails its next      *)
(* call, but a statement already sent to Postgres may still be executed:   *)
(* a cancelled checker either stops, or makes one last write and stops.    *)

Continue(g, c) ==
    checker' = [checker EXCEPT ![g] = IF checker[g].cancelled THEN Free ELSE c]

\* Mutant: ListRecentByMonitorID without its LIMIT.
LatestUnlimited(m, isUp) == <<isUp>> \o recent[m]

\* ListRecentByMonitorID once the new check is stored.
Latest(m, isUp) ==
    SubSeq(<<isUp>> \o recent[m], 1,
           IF Len(recent[m]) < FailureThreshold THEN Len(recent[m]) + 1
                                                ELSE FailureThreshold)

\* A tick: ping, and INSERT INTO monitor_checks, which the foreign key
\* refuses for a monitor that is gone; it may be executed and still report
\* an error, which ends the check.
Ping(g, isUp) ==
    LET c == checker[g] IN
    /\ c.pc = "tick"
    /\ \/ /\ Exists(c.mon)
          /\ recent' = [recent EXCEPT ![c.mon] = Latest(c.mon, isUp)]
          /\ \/ Continue(g, [c EXCEPT !.pc = "evaluate", !.isUp = isUp])
             \/ CheckerFaults /\ Continue(g, c)
       \/ ~Exists(c.mon) /\ c.cancelled /\ Continue(g, c) /\ UNCHANGED recent
    /\ UNCHANGED <<config, status, apiVars, bus, superVars, cancels, histVars>>

\* evaluateStatus: up at once, down after FailureThreshold failing checks;
\* only a failing check reads the table, and reading it may fail.
NewStatus(c) ==
    IF c.isUp THEN "up"
    ELSE IF /\ Len(recent[c.mon]) = FailureThreshold
            /\ \A i \in 1..FailureThreshold : ~recent[c.mon][i]
         THEN "down"
         ELSE c.status

Evaluate(g) ==
    LET c == checker[g] IN
    /\ c.pc = "evaluate"
    /\ \/ Continue(g, [c EXCEPT !.isUp = FALSE,
                                !.pc = IF NewStatus(c) = c.status THEN "tick" ELSE NewStatus(c)])
       \/ /\ CheckerFaults /\ ~c.isUp
          /\ Continue(g, [c EXCEPT !.pc = "tick"])
    /\ UNCHANGED <<dbVars, apiVars, bus, superVars, cancels, histVars>>

\* UpdateStatus with the new status, which the copy of the goroutine takes
\* over only if no error came back.  The notification that follows leaves
\* no trace here.
UpdateStatus(g) ==
    LET c == checker[g]
        write == status' = IF Exists(c.mon) THEN [status EXCEPT ![c.mon] = c.pc] ELSE status
    IN
    /\ c.pc \in {"up", "down"}
    /\ \/ write /\ Continue(g, [c EXCEPT !.status = c.pc, !.pc = "tick"])
       \/ /\ CheckerFaults
          /\ write \/ UNCHANGED status
          /\ Continue(g, [c EXCEPT !.pc = "tick"])
    /\ UNCHANGED <<config, recent, apiVars, bus, superVars, cancels, histVars>>

Stop(g) ==
    /\ checker[g].cancelled
    /\ checker' = [checker EXCEPT ![g] = Free]
    /\ UNCHANGED <<dbVars, apiVars, bus, superVars, cancels, histVars>>

CheckerStep(g) ==
    \/ \E isUp \in BOOLEAN : Ping(g, isUp)
    \/ Evaluate(g)
    \/ UpdateStatus(g)
    \/ Stop(g)

SyncStep == Subscribe \/ SyncFetch \/ SyncSpawn \/ Remove
BootStep == ListAll \/ BootSpawn \/ BootDone

Next ==
    \/ \E r \in Requests : ApiStep(r)
    \/ \E S \in SUBSET Monitors : Cascade(S)
    \/ BootStep
    \/ SyncStep
    \/ Restart
    \/ \E g \in Slots : CheckerStep(g)

(***************************************************************************)
(* The worker's loops run, a cancelled goroutine stops, and the usecase    *)
(* that has written a row goes on to publish.                              *)
(***************************************************************************)
Fairness ==
    /\ \A r \in Requests : WF_vars(Publish(r))
    /\ WF_vars(BootStep)
    /\ WF_vars(SyncStep)
    /\ \A g \in Slots : WF_vars(Stop(g))

Spec     == Init /\ [][Next]_vars
FairSpec == Spec /\ Fairness

-----------------------------------------------------------------------------
(* Properties.                                                             *)

Active(g, m) == checker[g].mon = m /\ ~checker[g].cancelled

(***************************************************************************)
(* "Never two tickers for one monitor" (monitor_checker.go:66-69): the     *)
(* goroutines that are not cancelled are exactly those of the cancels map, *)
(* although Run and RunMonitorSync spawn concurrently.                     *)
(***************************************************************************)
OneCheckerPerMonitor ==
    \A m \in Monitors, g \in Slots : Active(g, m) <=> cancels[m] = g

\* The fleet runs what the table says of m.
InForce(m) ==
    IF Exists(m) THEN \E g \in Slots : Active(g, m) /\ checker[g].config = config[m]
                 ELSE \A g \in Slots : ~Active(g, m)

\* Nothing about m is on its way to the supervisor.
Drained(m) ==
    /\ \A r \in Requests : request[r].pc = "publish" => request[r].mon # m
    /\ \A i \in DOMAIN bus : bus[i].mon # m
    /\ syncing = None \/ syncing.mon # m

(***************************************************************************)
(* Sync fetches the current row instead of trusting the message, so late   *)
(* or reordered messages do no harm (monitor_checker.go:114-117): once the *)
(* messages about a monitor are handled, its checker runs the settings of  *)
(* the last write, or has been cancelled with its row, provided the worker *)
(* was up and subscribed at the write and no message was lost.             *)
(***************************************************************************)
AppliedWhenDrained ==
    \A m \in Monitors : heard[m] = "yes" /\ Drained(m) => InForce(m)

(***************************************************************************)
(* The same claim for the writes the worker hears of while it starts: Run  *)
(* spawns the rows of ListAll and RunMonitorSync follows the messages, at  *)
(* the same time.                                                          *)
(***************************************************************************)
AppliedAfterBoot ==
    boot = "done" =>
        \A m \in Monitors : heard[m] # "no" /\ Drained(m) => InForce(m)

(***************************************************************************)
(* In the end the fleet agrees with the table about every such monitor.    *)
(***************************************************************************)
EventuallyApplied ==
    <>[](\A m \in Monitors : heard[m] = "yes" => InForce(m))

(***************************************************************************)
(* The supervisor implements Fleet: the copies of rows are those that Run  *)
(* and Sync are about to spawn, and the checkers are those that were not   *)
(* cancelled.                                                              *)
(***************************************************************************)
Settings(row) == [mon |-> row.mon, version |-> row.config]

Held == {Settings(row) : row \in bootRows \cup ({syncing} \ {None})}

Running == [m \in Monitors |-> {checker[g].config : g \in {h \in Slots : Active(h, m)}}]

Abstract == INSTANCE Fleet WITH
    Versions <- 1..MaxChanges,
    table    <- config,
    known    <- born,
    held     <- Held,
    running  <- Running

(***************************************************************************)
(* Whatever the messages say and in whatever order they come, a monitor    *)
(* runs at most one checker, with settings that were read from its row,    *)
(* and loses it for good only after the row is gone: the message that      *)
(* makes Remove cancel it is published after the deletion, and a deleted   *)
(* monitor is never created again.                                         *)
(***************************************************************************)
ImplementsFleet == Abstract!Spec

-----------------------------------------------------------------------------
(* The inductive invariant of MonitorFleet_proofs.                         *)

\* What requests and checkers are about exists, or once did.
Known ==
    /\ \A m \in Monitors : Exists(m) => m \in born
    /\ \A r \in Requests :
         request[r].pc # "idle" => request[r].mon \in born /\ request[r].kind \in Kinds
    /\ \A g \in Slots : checker[g].pc # "free" => checker[g].mon \in Monitors

\* A message about m is published, or about to be.
Pending(m, kinds) ==
    \/ \E r \in Requests : /\ request[r].pc = "publish"
                           /\ request[r].mon = m /\ request[r].kind \in kinds
    \/ \E i \in 1..Len(bus) : bus[i].mon = m /\ bus[i].kind \in kinds

\* A monitor whose deletion is published does not come back.
GoneForGood ==
    \A m \in Monitors : Pending(m, {"deleted"}) => m \in born /\ ~Exists(m)

Syncing(m) == syncing # None /\ syncing.mon = m

\* As long as the fleet has not caught up with the row of m, the message that
\* makes it do so is on its way; Sync, if it is about to spawn, has read the
\* last write unless another message follows.
Caught(m) ==
    /\ subscribed /\ boot = "done"
    /\ Exists(m) =>
         \/ Pending(m, {"created", "updated"})
         \/ Syncing(m) /\ syncing.config = config[m]
         \/ ~Syncing(m) /\ InForce(m)
    /\ ~Exists(m) => Pending(m, {"deleted"}) \/ (~Syncing(m) /\ InForce(m))

Followed == \A m \in Monitors : heard[m] = "yes" => Caught(m)

FleetInv == TypeOK /\ Known /\ OneCheckerPerMonitor /\ GoneForGood /\ Followed

\* Before ListAll there is nothing to spawn.
Unlisted == boot = "list" => bootRows = {}
=============================================================================
