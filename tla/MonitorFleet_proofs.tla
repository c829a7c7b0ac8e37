-------------------------- MODULE MonitorFleet_proofs --------------------------
(***************************************************************************)
(* Proofs about MonitorFleet, for any number of monitors, requests and     *)
(* goroutines, restarts and lost messages.                                 *)
(***************************************************************************)
EXTENDS MonitorFleet, SequenceTheorems, TLAPS

USE ThresholdAssumption, FleetBoundsAssumption, NoneAssumption

Msgs     == [kind : Kinds, mon : Monitors]
Reqs     == [pc : {"idle", "write", "publish"}, kind : Kinds \cup {"none"},
             mon : Monitors \cup {None}]
Checkers == [mon : Monitors \cup {None}, config : 0..MaxChanges, status : Statuses,
             pc : {"free", "tick", "evaluate", "down", "up"},
             isUp : BOOLEAN, cancelled : BOOLEAN]

Typed == TypeOK /\ Known

-----------------------------------------------------------------------------
(* Type correctness.                                                       *)

LEMMA InitTyped == Init => Typed
<1> SUFFICES ASSUME Init PROVE Typed
  OBVIOUS
<1>1. Idle \in Reqs /\ Free \in Checkers
  BY DEF Idle, Free, Reqs, Checkers, Statuses
<1>2. TypeOK
  <2>1. /\ recent \in [Monitors -> Seq(BOOLEAN)]
        /\ \A m \in Monitors : Len(recent[m]) <= FailureThreshold
    BY DEF Init
  <2>2. bus \in Seq(Msgs)
    BY DEF Init
  <2>3. request \in [Requests -> Reqs] /\ checker \in [Slots -> Checkers]
    BY <1>1 DEF Init
  <2>4. /\ config \in [Monitors -> 0..MaxChanges] /\ status \in [Monitors -> Statuses]
        /\ changes \in 0..MaxChanges /\ restarts \in 0..MaxRestarts /\ lost \in 0..MaxLost
        /\ cancels \in [Monitors -> Slots \cup {None}]
        /\ heard \in [Monitors -> {"no", "booting", "yes"}]
        /\ \A m \in Monitors \ born : heard[m] = "no"
    BY DEF Init, Statuses
  <2> QED
    BY <2>1, <2>2, <2>3, <2>4 DEF Init, TypeOK, Reqs, Checkers, Msgs
<1>3. Known
  BY DEF Init, Known, Exists, Idle, Free
<1> QED
  BY <1>2, <1>3 DEF Typed

\* A write of the row of a monitor that was created.
LEMMA WriteTyped ==
    ASSUME Typed, NEW m \in Monitors, NEW new \in 0..(changes + 1), Write(m, new)
    PROVE  /\ config' \in [Monitors -> 0..MaxChanges]
           /\ changes' \in 0..MaxChanges
           /\ heard' \in [Monitors -> {"no", "booting", "yes"}]
           /\ \A k \in Monitors : k # m => config'[k] = config[k] /\ heard'[k] = heard[k]
BY DEF Typed, TypeOK, Write, Listening

\* The steps of a request.
LEMMA ApiTyped ==
    ASSUME Typed, NEW r \in Requests, ApiStep(r)
    PROVE  Typed'
<1> USE DEF Typed
<1>1. request[r] \in Reqs
  BY DEF TypeOK, Reqs
<1>2. ASSUME NEW m \in Monitors, NEW pc, NEW kind \in Kinds, At(r, pc, kind, m),
             pc = "write" \/ pc = "publish"
      PROVE  /\ request' \in [Requests -> Reqs]
             /\ \A s \in Requests : s # r => request'[s] = request[s]
             /\ request'[r] = [pc |-> pc, kind |-> kind, mon |-> m]
             /\ request'[r].mon = m /\ request'[r].kind = kind
  BY <1>2 DEF At, TypeOK, Reqs
<1>3. ASSUME NEW m \in Monitors, Create(r, m)
      PROVE  Typed'
  <2>1. /\ Write(m, changes + 1) /\ At(r, "publish", "created", m)
        /\ born' = born \cup {m}
        /\ UNCHANGED <<status, recent, bus, superVars, fleetVars, restarts, lost>>
    BY <1>3 DEF Create
  <2>2. changes + 1 \in 0..(changes + 1)
    BY DEF TypeOK
  <2>3. /\ config' \in [Monitors -> 0..MaxChanges] /\ changes' \in 0..MaxChanges
        /\ heard' \in [Monitors -> {"no", "booting", "yes"}]
        /\ \A k \in Monitors : k # m => config'[k] = config[k] /\ heard'[k] = heard[k]
    BY <2>1, <2>2, WriteTyped
  <2>4. /\ request' \in [Requests -> Reqs]
        /\ \A s \in Requests : s # r => request'[s] = request[s]
        /\ request'[r].mon = m /\ request'[r].kind \in Kinds
    <3>1. "created" \in Kinds
      BY DEF Kinds
    <3> QED
      BY <1>2, <2>1, <3>1
  <2>5. TypeOK'
    BY <2>1, <2>3, <2>4 DEF TypeOK, Reqs, superVars, fleetVars
  <2>6. Known'
    BY <2>1, <2>3, <2>4 DEF Known, Exists, fleetVars
  <2> QED
    BY <2>5, <2>6
<1>4. ASSUME NEW m \in Monitors, Fetch(r, m, "updated") \/ Fetch(r, m, "deleted")
      PROVE  Typed'
  <2>1. PICK kind \in {"updated", "deleted"} : At(r, "write", kind, m)
    BY <1>4 DEF Fetch
  <2>2. Exists(m) /\ UNCHANGED <<dbVars, changes, bus, superVars, fleetVars, histVars>>
    BY <1>4 DEF Fetch
  <2>3. kind \in Kinds
    BY DEF Kinds
  <2>4. TypeOK'
    BY <1>2, <2>1, <2>2, <2>3 DEF TypeOK, Reqs, dbVars, superVars, fleetVars, histVars
  <2>5. m \in born
    BY <2>2 DEF Known
  <2>6. Known'
    <3>1. /\ \A s \in Requests : s # r => request'[s] = request[s]
          /\ request'[r].mon = m /\ request'[r].kind \in Kinds
      BY <1>2, <2>1, <2>3
    <3> QED
      BY <2>2, <2>5, <3>1 DEF Known, Exists, dbVars, fleetVars, histVars
  <2> QED
    BY <2>4, <2>6
<1>5. CASE UpdateRow(r) \/ DeleteRow(r)
  <2> DEFINE m == request[r].mon
  <2>1. m \in born /\ m \in Monitors
    BY <1>5 DEF UpdateRow, DeleteRow, Known, TypeOK
  <2>2. PICK kind \in {"updated", "deleted"} : At(r, "publish", kind, m)
    BY <1>5 DEF UpdateRow, DeleteRow
  <2>3. kind \in Kinds
    BY DEF Kinds
  <2>4. UNCHANGED <<status, bus, superVars, fleetVars, born, restarts, lost>>
    BY <1>5 DEF UpdateRow, DeleteRow
  <2>5. recent' = recent \/ recent' = [recent EXCEPT ![m] = <<>>]
    BY <1>5 DEF UpdateRow, DeleteRow
  <2>6. \/ \E new \in 0..(changes + 1) : Write(m, new)
        \/ UNCHANGED <<config, changes, heard>>
    BY <1>5 DEF UpdateRow, DeleteRow, TypeOK
  <2> HIDE DEF m
  <2>7. /\ config' \in [Monitors -> 0..MaxChanges] /\ changes' \in 0..MaxChanges
        /\ heard' \in [Monitors -> {"no", "booting", "yes"}]
        /\ \A k \in Monitors : k # m => config'[k] = config[k] /\ heard'[k] = heard[k]
    BY <2>1, <2>6, WriteTyped DEF TypeOK
  <2>8. recent' \in [Monitors -> Seq(BOOLEAN)] /\ \A k \in Monitors : Len(recent'[k]) <= FailureThreshold
    <3>1. <<>> \in Seq(BOOLEAN) /\ Len(<<>>) <= FailureThreshold
      OBVIOUS
    <3>2. CASE recent' = recent
      BY <3>2 DEF TypeOK
    <3>3. CASE recent' = [recent EXCEPT ![m] = <<>>]
      <4>1. \A k \in Monitors : recent'[k] = IF k = m THEN <<>> ELSE recent[k]
        BY <3>3 DEF TypeOK
      <4> QED
        BY <3>1, <3>3, <4>1 DEF TypeOK
    <3> QED
      BY <2>5, <3>2, <3>3
  <2>9. TypeOK'
    <3>1. request' \in [Requests -> Reqs]
      BY <1>2, <2>1, <2>2, <2>3
    <3>2. \A k \in Monitors \ born : heard'[k] = "no"
      BY <2>1, <2>7 DEF TypeOK
    <3> QED
      BY <2>4, <2>7, <2>8, <3>1, <3>2 DEF TypeOK, Reqs, superVars, fleetVars
  <2>10. Known'
    <3>1. /\ \A s \in Requests : s # r => request'[s] = request[s]
          /\ request'[r].mon = m /\ request'[r].kind \in Kinds
      BY <1>2, <2>1, <2>2, <2>3
    <3> QED
      BY <2>1, <2>4, <2>7, <3>1 DEF Known, Exists, fleetVars
  <2> QED
    BY <2>9, <2>10
<1>6. CASE Publish(r)
  <2>1. request[r].mon \in Monitors /\ request[r].kind \in Kinds
    BY <1>6 DEF Publish, Known, TypeOK
  <2>2. request' = [request EXCEPT ![r] = Idle] /\ Idle \in Reqs
    BY <1>6 DEF Publish, Idle, Reqs
  <2>3. /\ bus' \in Seq(Msgs) /\ lost' \in 0..MaxLost
        /\ heard' = heard \/ heard' = [heard EXCEPT ![request[r].mon] = "no"]
    <3>1. bus \in Seq(Msgs) /\ [kind |-> request[r].kind, mon |-> request[r].mon] \in Msgs
      BY <2>1 DEF TypeOK, Msgs
    <3>2. bus' \in Seq(Msgs)
      BY <1>6, <3>1 DEF Publish
    <3>3. lost' \in 0..MaxLost
      BY <1>6 DEF Publish, TypeOK
    <3> QED
      BY <1>6, <3>2, <3>3 DEF Publish, Unheard
  <2>4. UNCHANGED <<dbVars, changes, superVars, fleetVars, born, restarts>>
    BY <1>6 DEF Publish
  <2>5. TypeOK'
    BY <2>2, <2>3, <2>4 DEF TypeOK, Reqs, Msgs, dbVars, superVars, fleetVars
  <2>6. Known'
    BY <2>2, <2>4 DEF Known, Exists, Idle, TypeOK, dbVars, fleetVars
  <2> QED
    BY <2>5, <2>6
<1> QED
  BY <1>3, <1>4, <1>5, <1>6 DEF ApiStep

\* spawn.
LEMMA SpawnTyped ==
    ASSUME Typed, NEW row \in Rows, Spawn(row)
    PROVE  /\ checker' \in [Slots -> Checkers]
           /\ cancels' \in [Monitors -> Slots \cup {None}]
           /\ \A g \in Slots : checker'[g].pc # "free" => checker'[g].mon \in Monitors
<1>1. PICK g \in Slots :
        /\ checker' = [CancelCurrent(row.mon, checker) EXCEPT ![g] =
                         [mon |-> row.mon, config |-> row.config, status |-> row.status,
                          pc |-> "tick", isUp |-> FALSE, cancelled |-> FALSE]]
        /\ cancels' = [cancels EXCEPT ![row.mon] = g]
  BY DEF Spawn
<1>2. row.mon \in Monitors /\ row.config \in 0..MaxChanges /\ row.status \in Statuses
  BY DEF Rows
<1>3. checker \in [Slots -> Checkers] /\ cancels \in [Monitors -> Slots \cup {None}]
  BY DEF Typed, TypeOK, Checkers
<1>4. CancelCurrent(row.mon, checker) \in [Slots -> Checkers]
  BY <1>3 DEF CancelCurrent, Checkers
<1>5. [mon |-> row.mon, config |-> row.config, status |-> row.status,
       pc |-> "tick", isUp |-> FALSE, cancelled |-> FALSE] \in Checkers
  BY <1>2 DEF Checkers
<1>6. \A h \in Slots : /\ CancelCurrent(row.mon, checker)[h].pc = checker[h].pc
                       /\ CancelCurrent(row.mon, checker)[h].mon = checker[h].mon
  BY <1>3 DEF CancelCurrent, Checkers
<1>7. \A h \in Slots : checker'[h].pc # "free" => checker'[h].mon \in Monitors
  BY <1>1, <1>2, <1>4, <1>6 DEF Typed, Known
<1> QED
  BY <1>1, <1>2, <1>3, <1>4, <1>5, <1>7

\* The steps of the supervisor.
LEMMA SuperTyped ==
    ASSUME Typed, BootStep \/ SyncStep \/ Restart
    PROVE  Typed'
<1> USE DEF Typed
<1>1. CASE ListAll
  <2>1. \A m \in Monitors : Exists(m) => RowOf(m) \in Rows
    BY DEF TypeOK, Exists, RowOf, Rows
  <2>2. bootRows' \subseteq Rows
    BY <1>1, <2>1 DEF ListAll
  <2>3. boot' = "spawn"
        /\ UNCHANGED <<dbVars, apiVars, bus, subscribed, syncing, fleetVars, histVars>>
    BY <1>1 DEF ListAll
  <2> QED
    BY <2>2, <2>3 DEF TypeOK, Known, Exists, dbVars, apiVars, fleetVars, histVars
<1>2. CASE BootSpawn
  <2>1. PICK row \in bootRows : Spawn(row) /\ bootRows' = bootRows \ {row}
    BY <1>2 DEF BootSpawn
  <2>2. row \in Rows
    BY DEF TypeOK
  <2>3. UNCHANGED <<dbVars, apiVars, bus, subscribed, boot, syncing, histVars>>
    BY <1>2 DEF BootSpawn
  <2>4. bootRows' \subseteq Rows
    BY <2>1 DEF TypeOK
  <2> QED
    BY <2>1, <2>2, <2>3, <2>4, SpawnTyped
    DEF TypeOK, Known, Exists, Checkers, dbVars, apiVars, histVars
<1>3. CASE BootDone \/ Subscribe
  BY <1>3 DEF BootDone, Subscribe, TypeOK, Known, Exists, dbVars, apiVars, fleetVars, histVars
<1>4. CASE SyncFetch
  <2>1. Head(bus) \in Msgs /\ bus' \in Seq(Msgs)
    BY <1>4, HeadTailProperties DEF SyncFetch, TypeOK, Msgs
  <2>2. syncing' \in Rows \cup {None}
    <3>1. Exists(Head(bus).mon) => [RowOf(Head(bus).mon) EXCEPT !.config = Fetched(Head(bus).mon)] \in Rows
      <4> DEFINE k == Head(bus).mon
      <4>1. k \in Monitors /\ status[k] \in Statuses
        BY <2>1 DEF TypeOK, Msgs
      <4>2. Exists(k) => config[k] \in 1..MaxChanges
        BY <4>1 DEF TypeOK, Exists
      <4> HIDE DEF k
      <4>3. Exists(k) => [RowOf(k) EXCEPT !.config = Fetched(k)] \in Rows
        BY <4>1, <4>2 DEF RowOf, Rows, Fetched
      <4> QED
        BY <4>3 DEF k
    <3> QED
      BY <1>4, <3>1 DEF SyncFetch
  <2>3. /\ lost' \in 0..MaxLost
        /\ heard' = heard \/ heard' = [heard EXCEPT ![Head(bus).mon] = "no"]
    BY <1>4 DEF SyncFetch, Unheard, TypeOK
  <2>4. UNCHANGED <<dbVars, apiVars, subscribed, boot, bootRows, fleetVars, born, restarts>>
    BY <1>4 DEF SyncFetch
  <2>5. TypeOK'
    BY <2>1, <2>2, <2>3, <2>4 DEF TypeOK, Msgs, dbVars, apiVars, fleetVars
  <2>6. Known'
    BY <2>4 DEF Known, Exists, dbVars, apiVars, fleetVars
  <2> QED
    BY <2>5, <2>6
<1>5. CASE SyncSpawn
  <2>1. syncing \in Rows /\ Spawn(syncing) /\ syncing' = None
    BY <1>5 DEF SyncSpawn, TypeOK
  <2>2. UNCHANGED <<dbVars, apiVars, bus, subscribed, boot, bootRows, histVars>>
    BY <1>5 DEF SyncSpawn
  <2> QED
    BY <2>1, <2>2, SpawnTyped
    DEF TypeOK, Known, Exists, Checkers, dbVars, apiVars, histVars
<1>6. CASE Remove
  <2>1. Head(bus) \in Msgs /\ bus' \in Seq(Msgs)
    BY <1>6, HeadTailProperties DEF Remove, TypeOK, Msgs
  <2>2. /\ checker' \in [Slots -> Checkers]
        /\ \A g \in Slots : checker'[g].pc = checker[g].pc /\ checker'[g].mon = checker[g].mon
    <3>1. checker \in [Slots -> Checkers]
      BY DEF TypeOK, Checkers
    <3> DEFINE k == Head(bus).mon
    <3>2. checker' = CancelCurrent(k, checker)
      BY <1>6 DEF Remove
    <3> HIDE DEF k
    <3> QED
      BY <3>1, <3>2 DEF CancelCurrent, Checkers
  <2>3. cancels' \in [Monitors -> Slots \cup {None}]
    BY <1>6 DEF Remove, TypeOK
  <2>4. UNCHANGED <<dbVars, apiVars, superVars, histVars>>
    BY <1>6 DEF Remove
  <2>5. TypeOK'
    BY <2>1, <2>2, <2>3, <2>4 DEF TypeOK, Msgs, Checkers, dbVars, apiVars, superVars, histVars
  <2>6. Known'
    BY <2>2, <2>4 DEF Known, Exists, dbVars, apiVars, histVars
  <2> QED
    BY <2>5, <2>6
<1>7. CASE Restart
  <2>1. Free \in Checkers /\ Free.pc = "free"
    BY DEF Free, Checkers, Statuses
  <2>2. TypeOK'
    <3>1. bus' \in Seq(Msgs)
      BY <1>7 DEF Restart
    <3>2. checker' \in [Slots -> Checkers] /\ cancels' \in [Monitors -> Slots \cup {None}]
      BY <1>7, <2>1 DEF Restart
    <3>3. /\ heard' \in [Monitors -> {"no", "booting", "yes"}]
          /\ \A m \in Monitors : heard'[m] = "no"
          /\ restarts' \in 0..MaxRestarts
      BY <1>7 DEF Restart, TypeOK
    <3>4. /\ subscribed' = FALSE /\ boot' = "list" /\ bootRows' = {} /\ syncing' = None
          /\ UNCHANGED <<dbVars, apiVars, born, lost>>
      BY <1>7 DEF Restart
    <3> QED
      BY <3>1, <3>2, <3>3, <3>4 DEF TypeOK, Checkers, Msgs, dbVars, apiVars
  <2>3. Known'
    BY <1>7, <2>1 DEF Restart, Known, Exists, dbVars, apiVars
  <2> QED
    BY <2>2, <2>3
<1> QED
  BY <1>1, <1>2, <1>3, <1>4, <1>5, <1>6, <1>7 DEF BootStep, SyncStep

\* What a step of a checker does to it, whatever it does to the table.
Worked(g) ==
    /\ checker' \in [Slots -> Checkers]
    /\ \A h \in Slots : h # g => checker'[h] = checker[h]
    /\ \/ checker[g].cancelled /\ checker'[g] = Free
       \/ /\ ~checker[g].cancelled /\ ~checker'[g].cancelled
          /\ checker[g].pc # "free"
          /\ checker'[g].mon = checker[g].mon /\ checker'[g].config = checker[g].config
    /\ UNCHANGED <<config, apiVars, bus, superVars, cancels, histVars>>

\* The checks that are left fit into the threshold.
LEMMA LatestTyped ==
    ASSUME Typed, NEW m \in Monitors, NEW isUp \in BOOLEAN
    PROVE  Latest(m, isUp) \in Seq(BOOLEAN) /\ Len(Latest(m, isUp)) <= FailureThreshold
<1> DEFINE s == <<isUp>> \o recent[m]
           n == IF Len(recent[m]) < FailureThreshold THEN Len(recent[m]) + 1
                                                     ELSE FailureThreshold
<1>1. recent[m] \in Seq(BOOLEAN) /\ <<isUp>> \in Seq(BOOLEAN) /\ Len(recent[m]) <= FailureThreshold
  BY DEF Typed, TypeOK
<1>2. s \in Seq(BOOLEAN) /\ Len(s) = Len(recent[m]) + 1
  BY <1>1, ConcatProperties
<1>3. n \in 0..Len(s) /\ n <= FailureThreshold
  BY <1>1, <1>2
<1> HIDE DEF s, n
<1>4. SubSeq(s, 1, n) \in Seq(BOOLEAN) /\ Len(SubSeq(s, 1, n)) = n
  BY <1>2, <1>3, SubSeqProperties
<1> QED
  BY <1>3, <1>4 DEF Latest, s, n

LEMMA CheckerWorks ==
    ASSUME Typed, NEW g \in Slots, CheckerStep(g)
    PROVE  /\ Worked(g)
           /\ recent' \in [Monitors -> Seq(BOOLEAN)]
           /\ \A m \in Monitors : Len(recent'[m]) <= FailureThreshold
           /\ status' \in [Monitors -> Statuses]
<1> DEFINE c == checker[g]
<1>1. c \in Checkers /\ checker \in [Slots -> Checkers] /\ Free \in Checkers
  BY DEF Typed, TypeOK, Checkers, Free, Statuses
<1>2. ASSUME NEW d \in Checkers, d.mon = c.mon, d.config = c.config, d.cancelled = c.cancelled,
             c.pc # "free", Continue(g, d), UNCHANGED <<config, apiVars, bus, superVars, cancels, histVars>>
      PROVE  Worked(g)
  BY <1>1, <1>2 DEF Worked, Continue, Checkers
<1>3. /\ recent \in [Monitors -> Seq(BOOLEAN)]
      /\ \A m \in Monitors : Len(recent[m]) <= FailureThreshold
      /\ status \in [Monitors -> Statuses]
  BY DEF Typed, TypeOK
<1>4. ASSUME NEW isUp \in BOOLEAN, Ping(g, isUp)
      PROVE  Worked(g) /\ status' = status
             /\ (recent' = recent \/ recent' = [recent EXCEPT ![c.mon] = Latest(c.mon, isUp)])
  <2>1. /\ c.pc = "tick" /\ UNCHANGED <<config, status, apiVars, bus, superVars, cancels, histVars>>
        /\ \/ Continue(g, [c EXCEPT !.pc = "evaluate", !.isUp = isUp])
           \/ Continue(g, c)
        /\ (recent' = recent \/ recent' = [recent EXCEPT ![c.mon] = Latest(c.mon, isUp)])
    BY <1>4 DEF Ping
  <2>2. [c EXCEPT !.pc = "evaluate", !.isUp = isUp] \in Checkers
    BY <1>1 DEF Checkers
  <2>3. CASE Continue(g, c)
    BY <1>1, <1>2, <2>1, <2>3
  <2>4. CASE Continue(g, [c EXCEPT !.pc = "evaluate", !.isUp = isUp])
    <3> DEFINE d == [c EXCEPT !.pc = "evaluate", !.isUp = isUp]
    <3>1. d.mon = c.mon /\ d.config = c.config /\ d.cancelled = c.cancelled
      BY <1>1 DEF Checkers
    <3> QED
      BY <1>2, <2>1, <2>2, <2>4, <3>1
  <2> QED
    BY <2>1, <2>3, <2>4
<1>5. CASE Evaluate(g)
  <2>1. NewStatus(c) \in Statuses
    BY <1>1 DEF NewStatus, Checkers, Statuses
  <2>2. PICK pc \in {"tick", "down", "up"}, isUp \in BOOLEAN :
          Continue(g, [c EXCEPT !.pc = pc, !.isUp = isUp])
    <3>1. CASE Continue(g, [c EXCEPT !.isUp = FALSE,
                            !.pc = IF NewStatus(c) = c.status THEN "tick" ELSE NewStatus(c)])
      <4>1. (IF NewStatus(c) = c.status THEN "tick" ELSE NewStatus(c)) \in {"tick", "down", "up"}
        BY DEF NewStatus
      <4>2. [c EXCEPT !.isUp = FALSE, !.pc = IF NewStatus(c) = c.status THEN "tick" ELSE NewStatus(c)]
            = [c EXCEPT !.pc = IF NewStatus(c) = c.status THEN "tick" ELSE NewStatus(c), !.isUp = FALSE]
        BY <1>1 DEF Checkers
      <4> QED
        BY <3>1, <4>1, <4>2
    <3>2. CASE Continue(g, [c EXCEPT !.pc = "tick"])
      <4>1. [c EXCEPT !.pc = "tick"] = [c EXCEPT !.pc = "tick", !.isUp = c.isUp] /\ c.isUp \in BOOLEAN
        BY <1>1 DEF Checkers
      <4> QED
        BY <3>2, <4>1
    <3> QED
      BY <1>5, <3>1, <3>2 DEF Evaluate
  <2> DEFINE d == [c EXCEPT !.pc = pc, !.isUp = isUp]
  <2>3. d \in Checkers /\ d.mon = c.mon /\ d.config = c.config /\ d.cancelled = c.cancelled
    BY <1>1 DEF Checkers
  <2>4. c.pc # "free" /\ UNCHANGED <<dbVars, apiVars, bus, superVars, cancels, histVars>>
    BY <1>5 DEF Evaluate
  <2> QED
    BY <1>2, <1>3, <2>2, <2>3, <2>4 DEF dbVars
<1>6. CASE UpdateStatus(g)
  <2>1. /\ c.pc \in {"up", "down"} /\ UNCHANGED <<config, recent, apiVars, bus, superVars, cancels, histVars>>
        /\ \/ Continue(g, [c EXCEPT !.status = c.pc, !.pc = "tick"])
           \/ Continue(g, [c EXCEPT !.pc = "tick"])
        /\ status' = status \/ status' = [status EXCEPT ![c.mon] = c.pc]
    BY <1>6 DEF UpdateStatus
  <2>2. status' \in [Monitors -> Statuses]
    BY <1>3, <2>1 DEF Statuses
  <2>3. PICK st \in Statuses : Continue(g, [c EXCEPT !.status = st, !.pc = "tick"])
    <3>1. [c EXCEPT !.pc = "tick"] = [c EXCEPT !.status = c.status, !.pc = "tick"] /\ c.status \in Statuses
      BY <1>1 DEF Checkers
    <3> QED
      BY <2>1, <3>1 DEF Statuses
  <2> DEFINE d == [c EXCEPT !.status = st, !.pc = "tick"]
  <2>4. d \in Checkers /\ d.mon = c.mon /\ d.config = c.config /\ d.cancelled = c.cancelled
    BY <1>1 DEF Checkers
  <2> QED
    BY <1>2, <1>3, <2>1, <2>2, <2>3, <2>4
<1>7. CASE Stop(g)
  BY <1>1, <1>3, <1>7 DEF Stop, Worked, dbVars
<1>8. ASSUME NEW isUp \in BOOLEAN, Ping(g, isUp)
      PROVE  /\ recent' \in [Monitors -> Seq(BOOLEAN)]
             /\ \A m \in Monitors : Len(recent'[m]) <= FailureThreshold
  <2>1. c.mon \in Monitors
    BY <1>8 DEF Ping, Typed, Known
  <2>2. Latest(c.mon, isUp) \in Seq(BOOLEAN) /\ Len(Latest(c.mon, isUp)) <= FailureThreshold
    BY <2>1, LatestTyped
  <2> QED
    BY <1>3, <1>4, <1>8, <2>1, <2>2
<1> QED
  BY <1>3, <1>4, <1>5, <1>6, <1>7, <1>8 DEF CheckerStep

LEMMA CheckerTyped ==
    ASSUME Typed, NEW g \in Slots, CheckerStep(g)
    PROVE  Typed'
<1>1. TypeOK'
  BY CheckerWorks DEF Worked, Typed, TypeOK, Checkers, apiVars, superVars, histVars
<1>2. Known'
  BY CheckerWorks DEF Worked, Typed, Known, Exists, Free, apiVars, superVars, histVars
<1> QED
  BY <1>1, <1>2 DEF Typed

LEMMA CascadeTyped ==
    ASSUME Typed, NEW S \in SUBSET Monitors, Cascade(S)
    PROVE  Typed'
<1>1. /\ config' \in [Monitors -> 0..MaxChanges] /\ changes' \in 0..MaxChanges
      /\ heard' \in [Monitors -> {"no", "booting", "yes"}]
      /\ \A m \in Monitors \ born : heard'[m] = "no"
  BY DEF Typed, TypeOK, Cascade
<1>2. /\ recent' \in [Monitors -> Seq(BOOLEAN)]
      /\ \A m \in Monitors : Len(recent'[m]) <= FailureThreshold
  <2>1. <<>> \in Seq(BOOLEAN) /\ Len(<<>>) <= FailureThreshold
    OBVIOUS
  <2> QED
    BY <2>1 DEF Typed, TypeOK, Cascade
<1>3. TypeOK'
  BY <1>1, <1>2 DEF Typed, TypeOK, Cascade, superVars, fleetVars
<1>4. Known'
  BY DEF Typed, Known, Exists, Cascade, fleetVars
<1> QED
  BY <1>3, <1>4 DEF Typed

LEMMA NextTyped == Typed /\ [Next]_vars => Typed'
<1> SUFFICES ASSUME Typed, [Next]_vars PROVE Typed'
  OBVIOUS
<1>1. CASE UNCHANGED vars
  BY <1>1 DEF Typed, TypeOK, Known, Exists, vars, dbVars, apiVars, superVars, fleetVars, histVars
<1> QED
  BY <1>1, ApiTyped, CascadeTyped, SuperTyped, CheckerTyped DEF Next

(***************************************************************************)
(* Rows, requests, messages and goroutines are what TypeOK says; the checks*)
(* that evaluateStatus looks at are no more than the threshold asks for.   *)
(***************************************************************************)
THEOREM TypeCorrect == Spec => []TypeOK
<1>1. Typed => TypeOK
  BY DEF Typed
<1> QED
  BY InitTyped, NextTyped, <1>1, PTL DEF Spec

-----------------------------------------------------------------------------
(* One checker per monitor.                                                *)

\* The goroutines in charge of m stay in charge, with their settings.
SameFleet(m) ==
    \A g \in Slots : /\ Active(g, m)' <=> Active(g, m)
                     /\ Active(g, m) => checker'[g].config = checker[g].config

\* The goroutine that was in charge of k is cancelled, the others stay as they are.
LEMMA CancelEffect ==
    ASSUME Typed, NEW k \in Monitors, NEW h \in Slots
    PROVE  LET d == CancelCurrent(k, checker)[h] IN
           /\ d.mon = checker[h].mon /\ d.config = checker[h].config
           /\ d.cancelled <=> (checker[h].cancelled \/ h = cancels[k])
<1>1. checker[h] \in Checkers /\ h # None
  BY DEF Typed, TypeOK, Checkers
<1>2. CancelCurrent(k, checker)[h] = IF h = cancels[k] THEN [checker[h] EXCEPT !.cancelled = TRUE]
                                     ELSE checker[h]
  BY <1>1 DEF CancelCurrent
<1>3. CASE h = cancels[k]
  BY <1>1, <1>2, <1>3 DEF Checkers
<1>4. CASE h # cancels[k]
  BY <1>2, <1>4
<1> QED
  BY <1>3, <1>4

\* spawn leaves one goroutine in charge, whatever was in charge before.
LEMMA SpawnEffect ==
    ASSUME Typed, OneCheckerPerMonitor, NEW row \in Rows, NEW k \in Monitors, row.mon = k,
           Spawn(row)
    PROVE  /\ OneCheckerPerMonitor'
           /\ \A m \in Monitors : m # k => SameFleet(m)
           /\ \E g \in Slots : Active(g, k)' /\ checker'[g].config = row.config
<1>1. PICK g \in Slots :
        /\ checker[g] = Free
        /\ checker' = [CancelCurrent(k, checker) EXCEPT ![g] =
                         [mon |-> k, config |-> row.config, status |-> row.status,
                          pc |-> "tick", isUp |-> FALSE, cancelled |-> FALSE]]
        /\ cancels' = [cancels EXCEPT ![k] = g]
  BY DEF Spawn
<1>2. cancels \in [Monitors -> Slots \cup {None}] /\ None \notin Monitors
  BY DEF Typed, TypeOK
<1>3. /\ checker'[g].mon = k /\ checker'[g].config = row.config /\ ~checker'[g].cancelled
      /\ \A h \in Slots : h # g => checker'[h] = CancelCurrent(k, checker)[h]
  BY <1>1 DEF CancelCurrent
<1>4. /\ cancels'[k] = g
      /\ \A m \in Monitors : m # k => cancels'[m] = cancels[m]
  BY <1>1, <1>2
<1>5. \A m \in Monitors : ~Active(g, m)
  BY <1>1, <1>2 DEF Active, Free
<1>6. \A h \in Slots : h # g => /\ checker'[h].mon = checker[h].mon
                                /\ checker'[h].config = checker[h].config
                                /\ checker'[h].cancelled <=> (checker[h].cancelled \/ h = cancels[k])
  BY <1>3, CancelEffect
<1>7. ASSUME NEW m \in Monitors, m # k
      PROVE  SameFleet(m)
  <2>1. ASSUME NEW h \in Slots
        PROVE  /\ Active(h, m)' <=> Active(h, m)
               /\ Active(h, m) => checker'[h].config = checker[h].config
    <3>1. CASE h = g
      BY <1>3, <1>5, <1>7, <3>1 DEF Active
    <3>2. CASE h # g
      <4>1. h = cancels[k] => checker[h].mon = k
        BY <3>2 DEF OneCheckerPerMonitor, Active
      <4> QED
        BY <1>6, <1>7, <3>2, <4>1 DEF Active
    <3> QED
      BY <3>1, <3>2
  <2> QED
    BY <2>1 DEF SameFleet
<1>8. \A h \in Slots : Active(h, k)' <=> h = g
  <2>1. ASSUME NEW h \in Slots, h # g
        PROVE  ~Active(h, k)'
    <3>1. checker[h].mon = k /\ ~checker[h].cancelled => h = cancels[k]
      BY DEF OneCheckerPerMonitor, Active
    <3> QED
      BY <1>6, <2>1, <3>1 DEF Active
  <2>2. Active(g, k)'
    BY <1>3 DEF Active
  <2> QED
    BY <2>1, <2>2
<1>9. OneCheckerPerMonitor'
  <2>1. ASSUME NEW m \in Monitors, NEW h \in Slots
        PROVE  Active(h, m)' <=> cancels'[m] = h
    <3>1. CASE m = k
      BY <1>4, <1>8, <3>1
    <3>2. CASE m # k
      <4>1. cancels'[m] = cancels[m] /\ (Active(h, m)' <=> Active(h, m))
        BY <1>4, <1>7, <3>2 DEF SameFleet
      <4> QED
        BY <4>1 DEF OneCheckerPerMonitor
    <3> QED
      BY <3>1, <3>2
  <2> QED
    BY <2>1 DEF OneCheckerPerMonitor
<1> QED
  BY <1>3, <1>7, <1>8, <1>9

\* The message at the head of the bus.
LEMMA HeadMessage ==
    ASSUME Typed, bus # <<>>
    PROVE  Head(bus) \in Msgs /\ Tail(bus) \in Seq(Msgs) /\ Head(bus).mon \in Monitors
<1>1. bus \in Seq(Msgs)
  BY DEF Typed, TypeOK, Msgs
<1>2. Head(bus) \in Msgs /\ Tail(bus) \in Seq(Msgs)
  BY <1>1, HeadTailProperties
<1> QED
  BY <1>2 DEF Msgs

\* Remove leaves none.
LEMMA RemoveEffect ==
    ASSUME Typed, OneCheckerPerMonitor, NEW k \in Monitors, Head(bus).mon = k, Remove
    PROVE  /\ OneCheckerPerMonitor'
           /\ \A m \in Monitors : m # k => SameFleet(m)
           /\ \A g \in Slots : ~Active(g, k)'
<1>1. checker' = CancelCurrent(k, checker) /\ cancels' = [cancels EXCEPT ![k] = None]
  BY DEF Remove
<1>2. cancels \in [Monitors -> Slots \cup {None}]
  BY DEF Typed, TypeOK
<1>3. \A h \in Slots : /\ checker'[h].mon = checker[h].mon
                       /\ checker'[h].config = checker[h].config
                       /\ checker'[h].cancelled <=> (checker[h].cancelled \/ h = cancels[k])
  BY <1>1, CancelEffect
<1>4. ASSUME NEW m \in Monitors, m # k
      PROVE  SameFleet(m)
  <2>1. ASSUME NEW h \in Slots
        PROVE  /\ Active(h, m)' <=> Active(h, m)
               /\ Active(h, m) => checker'[h].config = checker[h].config
    <3>1. h = cancels[k] => checker[h].mon = k
      BY DEF OneCheckerPerMonitor, Active
    <3> QED
      BY <1>3, <1>4, <3>1 DEF Active
  <2> QED
    BY <2>1 DEF SameFleet
<1>5. ASSUME NEW h \in Slots
      PROVE  ~Active(h, k)'
  <2>1. checker[h].mon = k /\ ~checker[h].cancelled => h = cancels[k]
    BY DEF OneCheckerPerMonitor, Active
  <2> QED
    BY <1>3, <2>1 DEF Active
<1>6. OneCheckerPerMonitor'
  <2>1. ASSUME NEW m \in Monitors, NEW h \in Slots
        PROVE  Active(h, m)' <=> cancels'[m] = h
    <3>1. CASE m = k
      <4>1. cancels'[m] = None /\ h # None
        BY <1>1, <1>2, <3>1
      <4> QED
        BY <1>5, <3>1, <4>1
    <3>2. CASE m # k
      <4>1. cancels'[m] = cancels[m] /\ (Active(h, m)' <=> Active(h, m))
        BY <1>1, <1>2, <1>4, <3>2 DEF SameFleet
      <4> QED
        BY <4>1 DEF OneCheckerPerMonitor
    <3> QED
      BY <3>1, <3>2
  <2> QED
    BY <2>1 DEF OneCheckerPerMonitor
<1> QED
  BY <1>4, <1>5, <1>6

\* A check changes nothing about who is in charge.
LEMMA WorkedEffect ==
    ASSUME Typed, NEW g \in Slots, Worked(g)
    PROVE  \A m \in Monitors : SameFleet(m)
<1>1. ASSUME NEW m \in Monitors, NEW h \in Slots
      PROVE  /\ Active(h, m)' <=> Active(h, m)
             /\ Active(h, m) => checker'[h].config = checker[h].config
  <2>1. CASE h # g
    BY <2>1 DEF Worked, Active
  <2>2. CASE h = g /\ checker[g].cancelled /\ checker'[g] = Free
    BY <1>1, <2>2 DEF Active, Free
  <2>3. CASE h = g /\ ~checker[g].cancelled /\ ~checker'[g].cancelled
             /\ checker'[g].mon = checker[g].mon /\ checker'[g].config = checker[g].config
    BY <2>3 DEF Active
  <2> QED
    BY <2>1, <2>2, <2>3 DEF Worked
<1> QED
  BY <1>1 DEF SameFleet

LEMMA FleetStays ==
    ASSUME UNCHANGED fleetVars
    PROVE  \A m \in Monitors : SameFleet(m)
BY DEF fleetVars, SameFleet, Active

LEMMA SameFleetOne ==
    ASSUME OneCheckerPerMonitor, UNCHANGED cancels, \A m \in Monitors : SameFleet(m)
    PROVE  OneCheckerPerMonitor'
BY DEF OneCheckerPerMonitor, SameFleet

LEMMA ApiLeavesFleet ==
    ASSUME NEW r \in Requests, ApiStep(r)
    PROVE  UNCHANGED <<superVars, fleetVars>>
BY DEF ApiStep, Create, Fetch, UpdateRow, DeleteRow, Publish

LEMMA NextOne == Typed /\ OneCheckerPerMonitor /\ [Next]_vars => OneCheckerPerMonitor'
<1> SUFFICES ASSUME Typed, OneCheckerPerMonitor, [Next]_vars
             PROVE  OneCheckerPerMonitor'
  OBVIOUS
<1>1. CASE UNCHANGED fleetVars
  BY <1>1, FleetStays, SameFleetOne DEF fleetVars
<1>2. CASE BootSpawn
  <2>1. PICK row \in bootRows : Spawn(row)
    BY <1>2 DEF BootSpawn
  <2>2. row \in Rows /\ row.mon \in Monitors
    BY DEF Typed, TypeOK, Rows
  <2> QED
    BY <2>1, <2>2, SpawnEffect
<1>3. CASE SyncSpawn
  <2>1. PICK row \in Rows : row = syncing
    BY <1>3 DEF SyncSpawn, Typed, TypeOK
  <2>2. Spawn(row) /\ row.mon \in Monitors
    BY <1>3, <2>1 DEF SyncSpawn, Spawn, Rows
  <2> QED
    BY <2>2, SpawnEffect
<1>4. CASE Remove
  <2>1. Head(bus).mon \in Monitors
    BY <1>4, HeadMessage DEF Remove
  <2> QED
    BY <1>4, <2>1, RemoveEffect
<1>5. CASE Restart
  <2>1. \A g \in Slots : checker'[g] = Free
    BY <1>5 DEF Restart
  <2>2. \A m \in Monitors : cancels'[m] = None
    BY <1>5 DEF Restart
  <2> QED
    BY <2>1, <2>2 DEF OneCheckerPerMonitor, Active, Free
<1>6. ASSUME NEW g \in Slots, CheckerStep(g)
      PROVE  OneCheckerPerMonitor'
  <2>1. Worked(g)
    BY <1>6, CheckerWorks
  <2> QED
    BY <2>1, WorkedEffect, SameFleetOne DEF Worked
<1>7. CASE \E r \in Requests : ApiStep(r)
  BY <1>1, <1>7, ApiLeavesFleet DEF fleetVars
<1>8. CASE ListAll \/ BootDone \/ Subscribe \/ SyncFetch \/ \E S \in SUBSET Monitors : Cascade(S)
  BY <1>1, <1>8 DEF ListAll, BootDone, Subscribe, SyncFetch, Cascade, fleetVars
<1>9. CASE UNCHANGED vars
  BY <1>1, <1>9 DEF vars, fleetVars
<1> QED
  BY <1>2, <1>3, <1>4, <1>5, <1>6, <1>7, <1>8, <1>9 DEF Next, BootStep, SyncStep

LEMMA InitOne == Init => OneCheckerPerMonitor
BY DEF Init, OneCheckerPerMonitor, Active, Free

(***************************************************************************)
(* Never two tickers for one monitor, whatever Run and RunMonitorSync      *)
(* spawn and remove concurrently, and however often the worker restarts.   *)
(***************************************************************************)
THEOREM OneChecker == Spec => []OneCheckerPerMonitor
<1>1. Init => Typed /\ OneCheckerPerMonitor
  BY InitTyped, InitOne
<1>2. Typed /\ OneCheckerPerMonitor /\ [Next]_vars => (Typed /\ OneCheckerPerMonitor)'
  BY NextTyped, NextOne
<1> QED
  BY <1>1, <1>2, PTL DEF Spec

-----------------------------------------------------------------------------
(* The fleet follows the table.                                            *)

\* A request that moves on: what is pending stays so, and what becomes so is
\* the message of that request.
LEMMA PendingRequest ==
    ASSUME Typed, NEW r \in Requests, NEW x, request' = [request EXCEPT ![r] = x], bus' = bus,
           NEW m \in Monitors, NEW K
    PROVE  /\ request[r].pc # "publish" \/ request[r].mon # m => (Pending(m, K) => Pending(m, K)')
           /\ Pending(m, K)' => \/ Pending(m, K)
                                \/ x.pc = "publish" /\ x.mon = m /\ x.kind \in K
           /\ x.pc = "publish" /\ x.mon = m /\ x.kind \in K => Pending(m, K)'
<1>1. request'[r] = x /\ \A s \in Requests : s # r => request'[s] = request[s]
  BY DEF Typed, TypeOK
<1> QED
  BY <1>1 DEF Pending

\* The message of a request is published.
LEMMA PendingPublish ==
    ASSUME Typed, NEW r \in Requests, request[r].pc = "publish",
           request' = [request EXCEPT ![r] = Idle],
           bus' = Append(bus, [kind |-> request[r].kind, mon |-> request[r].mon]),
           NEW m \in Monitors, NEW K
    PROVE  Pending(m, K)' <=> Pending(m, K)
<1> DEFINE e == [kind |-> request[r].kind, mon |-> request[r].mon]
<1>1. e \in Msgs
  BY DEF Typed, Known, TypeOK, Msgs
<1>2. bus \in Seq(Msgs) /\ bus' = Append(bus, e)
  BY DEF Typed, TypeOK, Msgs
<1> HIDE DEF e
<1>3. /\ Len(bus') = Len(bus) + 1 /\ Len(bus) \in Nat /\ bus'[Len(bus) + 1] = e
      /\ \A i \in 1..Len(bus) : bus'[i] = bus[i]
  BY <1>1, <1>2, AppendProperties
<1>4. /\ request'[r].pc = "idle"
      /\ \A s \in Requests : s # r => request'[s] = request[s]
  BY DEF Typed, TypeOK, Idle
<1>5. e.mon = request[r].mon /\ e.kind = request[r].kind
  BY DEF e
<1>6. ASSUME Pending(m, K)
      PROVE  Pending(m, K)'
  <2>1. CASE request[r].mon = m /\ request[r].kind \in K
    <3>1. Len(bus) + 1 \in 1..Len(bus')
      BY <1>3
    <3> QED
      BY <1>3, <1>5, <2>1, <3>1 DEF Pending
  <2>2. CASE ~(request[r].mon = m /\ request[r].kind \in K)
    <3>1. CASE \E s \in Requests : /\ request[s].pc = "publish" /\ request[s].mon = m
                                   /\ request[s].kind \in K
      BY <1>4, <2>2, <3>1 DEF Pending
    <3>2. CASE \E i \in 1..Len(bus) : bus[i].mon = m /\ bus[i].kind \in K
      <4>1. PICK i \in 1..Len(bus) : bus[i].mon = m /\ bus[i].kind \in K
        BY <3>2
      <4>2. i \in 1..Len(bus') /\ bus'[i] = bus[i]
        BY <1>3
      <4> QED
        BY <4>1, <4>2 DEF Pending
    <3> QED
      BY <1>6, <3>1, <3>2 DEF Pending
  <2> QED
    BY <2>1, <2>2
<1>7. ASSUME Pending(m, K)'
      PROVE  Pending(m, K)
  <2>1. CASE \E s \in Requests : /\ request'[s].pc = "publish" /\ request'[s].mon = m
                                 /\ request'[s].kind \in K
    BY <1>4, <2>1 DEF Pending
  <2>2. CASE \E i \in 1..Len(bus') : bus'[i].mon = m /\ bus'[i].kind \in K
    <3>1. PICK i \in 1..Len(bus') : bus'[i].mon = m /\ bus'[i].kind \in K
      BY <2>2
    <3>2. i \in 1..Len(bus) \/ i = Len(bus) + 1
      BY <1>3
    <3> QED
      BY <1>3, <1>5, <3>1, <3>2 DEF Pending
  <2> QED
    BY <1>7, <2>1, <2>2 DEF Pending
<1> QED
  BY <1>6, <1>7

\* The first message is taken off the bus.
LEMMA PendingTail ==
    ASSUME Typed, bus # <<>>, bus' = Tail(bus), request' = request,
           NEW m \in Monitors, NEW K
    PROVE  /\ Pending(m, K)' => Pending(m, K)
           /\ ~(Head(bus).mon = m /\ Head(bus).kind \in K) => (Pending(m, K) => Pending(m, K)')
           /\ Head(bus).mon = m /\ Head(bus).kind \in K => Pending(m, K)
<1>1. /\ Len(bus) \in Nat \ {0} /\ Head(bus) = bus[1] /\ Len(bus') = Len(bus) - 1
      /\ \A i \in 1..Len(bus') : bus'[i] = bus[i + 1]
  <2>1. bus \in Seq(Msgs)
    BY DEF Typed, TypeOK, Msgs
  <2> QED
    BY <2>1, HeadTailProperties, EmptySeq, LenProperties
<1>2. \A i \in 1..Len(bus') : i + 1 \in 1..Len(bus)
  BY <1>1
<1>3. \A i \in 1..Len(bus) : i = 1 \/ (i - 1 \in 1..Len(bus') /\ bus'[i - 1] = bus[i])
  BY <1>1
<1>4. 1 \in 1..Len(bus)
  BY <1>1
<1>5. Pending(m, K)' => Pending(m, K)
  BY <1>1, <1>2 DEF Pending
<1>6. ASSUME ~(Head(bus).mon = m /\ Head(bus).kind \in K), Pending(m, K)
      PROVE  Pending(m, K)'
  BY <1>1, <1>3, <1>6 DEF Pending
<1>7. Head(bus).mon = m /\ Head(bus).kind \in K => Pending(m, K)
  BY <1>1, <1>4 DEF Pending
<1> QED
  BY <1>5, <1>6, <1>7

\* Nothing pending, nothing new.
LEMMA PendingSame ==
    ASSUME UNCHANGED <<request, bus>>, NEW m \in Monitors, NEW K
    PROVE  Pending(m, K)' <=> Pending(m, K)
BY DEF Pending

LEMMA InForceSame ==
    ASSUME NEW m \in Monitors, SameFleet(m), config'[m] = config[m]
    PROVE  InForce(m)' <=> InForce(m)
BY DEF InForce, SameFleet, Exists

\* A step that leaves m, its goroutine and its messages alone.
LEMMA KeepCaught ==
    ASSUME NEW m \in Monitors, Caught(m), SameFleet(m), config'[m] = config[m],
           UNCHANGED <<subscribed, boot>>,
           Syncing(m)' <=> Syncing(m), Syncing(m) => syncing'.config = syncing.config,
           Pending(m, {"created", "updated"}) => Pending(m, {"created", "updated"})',
           Pending(m, {"deleted"}) => Pending(m, {"deleted"})'
    PROVE  Caught(m)'
BY InForceSame DEF Caught, Exists

\* What the invariant says of one monitor.
Watched(m) ==
    /\ Pending(m, {"deleted"}) => m \in born /\ ~Exists(m)
    /\ heard[m] = "yes" => Caught(m)

LEMMA WatchedAll == (\A m \in Monitors : Watched(m)) <=> GoneForGood /\ Followed
BY DEF Watched, GoneForGood, Followed

\* A write announces the message that follows it.
LEMMA WriteWatched ==
    ASSUME Typed, NEW m \in Monitors, NEW new \in 0..(changes + 1), Write(m, new),
           UNCHANGED <<superVars, fleetVars>>, m \in born', Watched(m),
           new # 0 => /\ Pending(m, {"created", "updated"})'
                      /\ m \notin born \/ Exists(m)
                      /\ Pending(m, {"deleted"})' => Pending(m, {"deleted"}),
           new = 0 => Pending(m, {"deleted"})'
    PROVE  Watched(m)'
<1>1. config'[m] = new /\ heard'[m] = Listening
  BY DEF Typed, TypeOK, Write
<1>2. heard'[m] = "yes" => Caught(m)'
  BY <1>1 DEF Caught, Listening, superVars, Exists
<1>3. Pending(m, {"deleted"})' => ~Exists(m)'
  BY <1>1 DEF Watched, Exists
<1> QED
  BY <1>2, <1>3 DEF Watched

\* A step that leaves m, its goroutine and its messages alone.
LEMMA KeepWatched ==
    ASSUME NEW m \in Monitors, Watched(m), SameFleet(m), config'[m] = config[m],
           UNCHANGED <<subscribed, boot>>, m \in born => m \in born',
           heard'[m] = heard[m] \/ heard'[m] = "no",
           Syncing(m)' <=> Syncing(m), Syncing(m) => syncing'.config = syncing.config,
           heard'[m] = heard[m] =>
             /\ Pending(m, {"created", "updated"}) => Pending(m, {"created", "updated"})'
             /\ Pending(m, {"deleted"}) => Pending(m, {"deleted"})',
           Pending(m, {"deleted"})' => Pending(m, {"deleted"}) \/ (m \in born /\ ~Exists(m))
    PROVE  Watched(m)'
<1>1. heard'[m] = "yes" => Caught(m)'
  BY KeepCaught DEF Watched
<1>2. Pending(m, {"deleted"})' => m \in born' /\ ~Exists(m)'
  BY DEF Watched, Exists
<1> QED
  BY <1>1, <1>2 DEF Watched

LEMMA ApiWatched ==
    ASSUME Typed, NEW r \in Requests, ApiStep(r), NEW m \in Monitors, Watched(m)
    PROVE  Watched(m)'
<1>1. UNCHANGED <<superVars, fleetVars>> /\ SameFleet(m)
  BY ApiLeavesFleet, FleetStays
<1>2. UNCHANGED <<subscribed, boot, syncing>> /\ (Syncing(m)' <=> Syncing(m))
  BY <1>1 DEF superVars, Syncing
<1>3. changes + 1 \in 0..(changes + 1) /\ 0 \in 0..(changes + 1) /\ changes + 1 # 0
  BY DEF Typed, TypeOK
<1>4. ASSUME NEW k \in Monitors, m # k, NEW new, Write(k, new)
      PROVE  config'[m] = config[m] /\ heard'[m] = heard[m]
  BY <1>4 DEF Typed, TypeOK, Write
<1>5. ASSUME NEW k \in Monitors, Create(r, k)
      PROVE  Watched(m)'
  <2> DEFINE x == [pc |-> "publish", kind |-> "created", mon |-> k]
  <2>1. /\ request' = [request EXCEPT ![r] = x] /\ bus' = bus /\ request[r].pc = "idle"
        /\ Write(k, changes + 1) /\ k \notin born /\ born' = born \cup {k}
    BY <1>5 DEF Create, At
  <2>2. x.pc = "publish" /\ x.mon = k /\ x.kind = "created"
    OBVIOUS
  <2> HIDE DEF x
  <2>3. Pending(m, {"deleted"})' => Pending(m, {"deleted"})
    <3>1. x.kind \notin {"deleted"}
      BY <2>2
    <3>2. \A K : Pending(m, K)' => Pending(m, K) \/ x.kind \in K
      BY <2>1, <2>2, PendingRequest
    <3> QED
      BY <3>1, <3>2
  <2>4. CASE m = k
    <3>1. Pending(m, {"created", "updated"})'
      BY <2>1, <2>2, <2>4, PendingRequest
    <3> QED
      BY <1>1, <1>3, <2>1, <2>3, <2>4, <3>1, WriteWatched
  <2>5. CASE m # k
    <3>1. \A K : Pending(m, K) => Pending(m, K)'
      BY <2>1, PendingRequest
    <3> QED
      BY <1>1, <1>2, <1>4, <2>1, <2>3, <2>5, <3>1, KeepWatched
  <2> QED
    BY <2>4, <2>5
<1>6. ASSUME NEW k \in Monitors, NEW kind \in {"updated", "deleted"}, Fetch(r, k, kind)
      PROVE  Watched(m)'
  <2> DEFINE x == [pc |-> "write", kind |-> kind, mon |-> k]
  <2>1. /\ request' = [request EXCEPT ![r] = x] /\ bus' = bus /\ request[r].pc = "idle"
        /\ UNCHANGED <<config, heard, born>>
    BY <1>6 DEF Fetch, At, dbVars, histVars
  <2>2. x.pc = "write"
    OBVIOUS
  <2> HIDE DEF x
  <2>3. \A K : Pending(m, K)' <=> Pending(m, K)
    BY <2>1, <2>2, PendingRequest
  <2> QED
    BY <1>1, <1>2, <2>1, <2>3, KeepWatched
<1>7. CASE UpdateRow(r) \/ DeleteRow(r)
  <2>1. PICK k : k = request[r].mon
    OBVIOUS
  <2>2. k \in Monitors /\ k \in born /\ request[r].pc = "write"
    BY <1>7, <2>1 DEF UpdateRow, DeleteRow, Typed, Known, TypeOK
  <2>3. PICK kind \in {"updated", "deleted"}, new \in {0, changes + 1} :
          /\ request' = [request EXCEPT ![r] = [pc |-> "publish", kind |-> kind, mon |-> k]]
          /\ kind = "deleted" <=> new = 0
          /\ \/ Exists(k) /\ Write(k, new)
             \/ ~Exists(k) /\ UNCHANGED <<config, heard>>
          /\ UNCHANGED <<bus, born>>
    BY <1>3, <1>7, <2>1 DEF UpdateRow, DeleteRow, At
  <2> DEFINE x == [pc |-> "publish", kind |-> kind, mon |-> k]
  <2>4. request' = [request EXCEPT ![r] = x] /\ bus' = bus
        /\ x.pc = "publish" /\ x.mon = k /\ x.kind = kind
    BY <2>3
  <2> HIDE DEF x
  <2>5. Pending(m, {"deleted"})' => Pending(m, {"deleted"}) \/ (m = k /\ kind = "deleted")
    <3>1. x.kind \in {"deleted"} => kind = "deleted"
      BY <2>4
    <3>2. \A K : Pending(m, K)' => Pending(m, K) \/ (m = k /\ x.kind \in K)
      BY <2>4, PendingRequest
    <3> QED
      BY <3>1, <3>2
  <2>6. \A K : Pending(m, K) => Pending(m, K)'
    BY <2>2, <2>4, PendingRequest
  <2>7. CASE m = k /\ Exists(k)
    <3>1. new # 0 => Pending(m, {"created", "updated"})'
      BY <2>3, <2>4, <2>7, PendingRequest
    <3>2. new = 0 => Pending(m, {"deleted"})'
      BY <2>3, <2>4, <2>7, PendingRequest
    <3>3. new \in 0..(changes + 1)
      BY <1>3
    <3>4. Write(m, new) /\ m \in born'
      BY <2>2, <2>3, <2>7
    <3> QED
      BY <1>1, <2>3, <2>5, <2>7, <3>1, <3>2, <3>3, <3>4, WriteWatched
  <2>8. CASE ~(m = k /\ Exists(k))
    <3>1. config'[m] = config[m] /\ heard'[m] = heard[m]
      BY <1>4, <2>2, <2>3, <2>8
    <3> QED
      BY <1>1, <1>2, <2>2, <2>3, <2>5, <2>6, <2>8, <3>1, KeepWatched
  <2> QED
    BY <2>7, <2>8
<1>8. CASE Publish(r)
  <2>1. PICK k : k = request[r].mon
    OBVIOUS
  <2>2. k \in Monitors /\ request[r].pc = "publish"
    BY <1>8, <2>1 DEF Publish, Typed, Known, TypeOK
  <2>3. request' = [request EXCEPT ![r] = Idle] /\ UNCHANGED <<config, born>>
    BY <1>8 DEF Publish, dbVars
  <2>4. CASE /\ bus' = Append(bus, [kind |-> request[r].kind, mon |-> request[r].mon])
             /\ UNCHANGED heard
    <3>1. \A K : Pending(m, K)' <=> Pending(m, K)
      BY <2>2, <2>3, <2>4, PendingPublish
    <3> QED
      BY <1>1, <1>2, <2>3, <2>4, <3>1, KeepWatched
  <2>5. CASE bus' = bus /\ Unheard(k)
    <3>1. \A K : Pending(m, K)' => Pending(m, K)
      <4>1. Idle.pc # "publish"
        BY DEF Idle
      <4> QED
        BY <2>3, <2>5, <4>1, PendingRequest
    <3>2. m # k => \A K : Pending(m, K) => Pending(m, K)'
      BY <2>1, <2>3, <2>5, PendingRequest
    <3>3. /\ m = k => heard'[m] = "no"
          /\ m # k => heard'[m] = heard[m]
      BY <2>5 DEF Unheard, Typed, TypeOK
    <3>4. CASE m # k
      BY <1>1, <1>2, <2>3, <3>1, <3>2, <3>3, <3>4, KeepWatched
    <3>5. CASE m = k
      <4>1. heard'[m] # "yes"
        BY <3>3, <3>5
      <4>2. Pending(m, {"deleted"})' => m \in born' /\ ~Exists(m)'
        BY <2>3, <3>1 DEF Watched, Exists
      <4> QED
        BY <4>1, <4>2 DEF Watched
    <3> QED
      BY <3>4, <3>5
  <2> QED
    BY <1>8, <2>1, <2>4, <2>5 DEF Publish
<1> QED
  BY <1>5, <1>6, <1>7, <1>8 DEF ApiStep

\* While the worker starts, no monitor is counted as followed.
LEMMA CascadeWatched ==
    ASSUME Typed, NEW S \in SUBSET Monitors, Cascade(S), NEW m \in Monitors, Watched(m)
    PROVE  Watched(m)'
<1>1. /\ UNCHANGED <<request, bus, subscribed, boot, syncing, born>> /\ SameFleet(m)
      /\ Syncing(m)' <=> Syncing(m)
  BY FleetStays DEF Cascade, superVars, Syncing
<1>2. \A K : Pending(m, K)' <=> Pending(m, K)
  BY <1>1, PendingSame
<1>3. CASE m \in S
  <2>1. config'[m] = 0 /\ heard'[m] = "no"
    BY <1>3 DEF Cascade
  <2> QED
    BY <1>1, <1>2, <2>1 DEF Watched, Exists
<1>4. CASE m \notin S
  <2>1. config'[m] = config[m] /\ heard'[m] = heard[m]
    BY <1>4 DEF Cascade
  <2> QED
    BY <1>1, <1>2, <2>1, KeepWatched
<1> QED
  BY <1>3, <1>4

LEMMA BootWatched ==
    ASSUME NEW m \in Monitors, ListAll \/ BootSpawn \/ BootDone \/ Subscribe, Watched(m)
    PROVE  Watched(m)'
<1>1. UNCHANGED <<request, bus, config, born, heard>>
  BY DEF ListAll, BootSpawn, BootDone, Subscribe, apiVars, dbVars, histVars
<1>2. heard[m] # "yes"
  BY DEF Watched, Caught, ListAll, BootSpawn, BootDone, Subscribe
<1>3. Pending(m, {"deleted"})' <=> Pending(m, {"deleted"})
  BY <1>1, PendingSame
<1> QED
  BY <1>1, <1>2, <1>3 DEF Watched, Exists

LEMMA SyncFetchWatched ==
    ASSUME Typed, NEW m \in Monitors, SyncFetch, Watched(m)
    PROVE  Watched(m)'
<1>1. PICK k \in Monitors : k = Head(bus).mon
  BY HeadMessage DEF SyncFetch
<1>2. /\ bus # <<>> /\ syncing = None /\ bus' = Tail(bus)
      /\ Head(bus).kind \in {"created", "updated"} /\ request' = request
      /\ UNCHANGED <<subscribed, boot, config, born>> /\ SameFleet(m)
      /\ heard' = heard \/ Unheard(k)
  BY <1>1, FleetStays DEF SyncFetch, dbVars, apiVars
<1>3. heard'[m] = heard[m] \/ heard'[m] = "no"
  BY <1>2 DEF Unheard, Typed, TypeOK
<1>4. ~Syncing(m)
  BY <1>2 DEF Syncing
<1>5. /\ \A K : Pending(m, K)' => Pending(m, K)
      /\ Pending(m, {"deleted"}) => Pending(m, {"deleted"})'
  <2>1. Head(bus).kind \notin {"deleted"}
    BY <1>2
  <2> QED
    BY <1>2, <2>1, PendingTail
<1>6. CASE m # k
  <2>1. Pending(m, {"created", "updated"}) => Pending(m, {"created", "updated"})'
    BY <1>1, <1>2, <1>6, PendingTail
  <2>2. ~Syncing(m)'
    <3>1. syncing' = None \/ syncing' = [RowOf(k) EXCEPT !.config = Fetched(k)]
      BY <1>1, <1>2 DEF SyncFetch
    <3>2. RowOf(k).mon = k /\ [RowOf(k) EXCEPT !.config = Fetched(k)].mon = k
      BY DEF RowOf
    <3> QED
      BY <1>6, <3>1, <3>2 DEF Syncing
  <2> QED
    BY <1>2, <1>3, <1>4, <1>5, <2>1, <2>2, KeepWatched
<1>7. CASE m = k /\ Exists(k) /\ syncing' = [RowOf(k) EXCEPT !.config = Fetched(k)]
  <2>1. Syncing(m)' /\ syncing'.config = config[m]
    <3>1. [RowOf(k) EXCEPT !.config = Fetched(k)] = [mon |-> k, config |-> config[k], status |-> status[k]]
      BY DEF RowOf, Fetched
    <3>2. syncing'.mon = k /\ syncing'.config = config[k] /\ syncing' \in Rows
      <4>1. config[k] \in 1..MaxChanges /\ status[k] \in Statuses
        BY <1>7 DEF Typed, TypeOK, Exists
      <4> QED
        BY <1>7, <3>1, <4>1 DEF Rows
    <3>3. syncing' # None
      BY <3>2
    <3> QED
      BY <1>7, <3>2, <3>3 DEF Syncing
  <2>2. heard'[m] = "yes" => Caught(m)'
    BY <1>2, <1>3, <1>7, <2>1 DEF Watched, Caught, Exists
  <2> QED
    BY <1>2, <1>5, <2>2 DEF Watched, Exists
<1>8. CASE m = k /\ ~Exists(k) /\ syncing' = None
  <2>1. ~Syncing(m)'
    BY <1>8 DEF Syncing
  <2>2. InForce(m)' <=> InForce(m)
    BY <1>2, InForceSame
  <2>3. heard'[m] = "yes" => Caught(m)'
    BY <1>2, <1>3, <1>4, <1>5, <1>8, <2>1, <2>2 DEF Watched, Caught, Exists
  <2> QED
    BY <1>2, <1>5, <2>3 DEF Watched, Exists
<1>9. CASE m = k /\ Unheard(k)
  <2>1. heard'[m] # "yes"
    BY <1>9 DEF Unheard, Typed, TypeOK
  <2> QED
    BY <1>2, <1>5, <2>1 DEF Watched, Exists
<1> QED
  BY <1>1, <1>2, <1>6, <1>7, <1>8, <1>9 DEF SyncFetch

LEMMA SyncSpawnWatched ==
    ASSUME Typed, OneCheckerPerMonitor, NEW m \in Monitors, SyncSpawn, Watched(m)
    PROVE  Watched(m)'
<1>1. PICK row \in Rows : row = syncing
  BY DEF SyncSpawn, Typed, TypeOK
<1>2. PICK k \in Monitors : row.mon = k
  BY DEF Rows
<1>3. /\ Spawn(row) /\ syncing # None /\ syncing' = None
      /\ UNCHANGED <<request, bus, config, born, heard, subscribed, boot>>
  BY <1>1 DEF SyncSpawn, dbVars, apiVars, histVars
<1>4. \A K : Pending(m, K)' <=> Pending(m, K)
  BY <1>3, PendingSame
<1>5. ~Syncing(m)'
  BY <1>3 DEF Syncing
<1>6. CASE m # k
  <2>1. ~Syncing(m) /\ SameFleet(m)
    BY <1>1, <1>2, <1>3, <1>6, SpawnEffect DEF Syncing
  <2> QED
    BY <1>3, <1>4, <1>5, <2>1, KeepWatched
<1>7. CASE m = k
  <2>1. Syncing(m) /\ syncing.config = row.config
    BY <1>1, <1>2, <1>3, <1>7 DEF Syncing
  <2>2. \E g \in Slots : Active(g, m)' /\ checker'[g].config = row.config
    BY <1>2, <1>3, <1>7, SpawnEffect
  <2>3. Exists(m) /\ row.config = config[m] => InForce(m)'
    BY <1>3, <2>2 DEF InForce, Exists
  <2>4. heard'[m] = "yes" => Caught(m)'
    BY <1>3, <1>4, <1>5, <2>1, <2>3 DEF Watched, Caught, Exists
  <2> QED
    BY <1>3, <1>4, <2>4 DEF Watched, Exists
<1> QED
  BY <1>6, <1>7

LEMMA RemoveWatched ==
    ASSUME Typed, OneCheckerPerMonitor, NEW m \in Monitors, Remove, Watched(m)
    PROVE  Watched(m)'
<1>1. PICK k \in Monitors : Head(bus).mon = k
  BY HeadMessage DEF Remove
<1>2. /\ bus # <<>> /\ bus' = Tail(bus) /\ syncing = None /\ syncing' = None
      /\ Head(bus).kind = "deleted" /\ request' = request
      /\ UNCHANGED <<config, born, heard, subscribed, boot>>
  BY DEF Remove, dbVars, apiVars, superVars, histVars
<1>3. ~Syncing(m) /\ ~Syncing(m)'
  BY <1>2 DEF Syncing
<1>4. Pending(m, {"deleted"})' => Pending(m, {"deleted"})
  BY <1>2, PendingTail
<1>5. CASE m # k
  <2>1. \A K : Pending(m, K) => Pending(m, K)'
    BY <1>1, <1>2, <1>5, PendingTail
  <2>2. SameFleet(m)
    BY <1>1, <1>5, RemoveEffect
  <2> QED
    BY <1>2, <1>3, <1>4, <2>1, <2>2, KeepWatched
<1>6. CASE m = k
  <2>1. Pending(m, {"deleted"})
    BY <1>1, <1>2, <1>6, PendingTail
  <2>2. m \in born /\ ~Exists(m) /\ ~Exists(m)'
    BY <1>2, <2>1 DEF Watched, Exists
  <2>3. InForce(m)'
    BY <1>1, <1>6, <2>2, RemoveEffect DEF InForce
  <2>4. heard'[m] = "yes" => Caught(m)'
    BY <1>2, <1>3, <2>2, <2>3 DEF Watched, Caught
  <2> QED
    BY <1>2, <2>2, <2>4 DEF Watched
<1> QED
  BY <1>5, <1>6

LEMMA RestartWatched ==
    ASSUME Typed, NEW m \in Monitors, Restart, Watched(m)
    PROVE  Watched(m)'
<1>1. bus' = <<>> /\ UNCHANGED <<request, config, born>> /\ heard'[m] = "no"
  BY DEF Restart, dbVars, apiVars
<1>2. Pending(m, {"deleted"})' => Pending(m, {"deleted"})
  BY <1>1 DEF Pending
<1> QED
  BY <1>1, <1>2 DEF Watched, Exists

LEMMA CheckerWatched ==
    ASSUME Typed, NEW m \in Monitors, NEW g \in Slots, CheckerStep(g), Watched(m)
    PROVE  Watched(m)'
<1>1. Worked(g)
  BY CheckerWorks
<1>2. UNCHANGED <<request, bus, config, born, heard, subscribed, boot, syncing>> /\ SameFleet(m)
  BY <1>1, WorkedEffect DEF Worked, apiVars, superVars, histVars
<1>3. \A K : Pending(m, K)' <=> Pending(m, K)
  BY <1>2, PendingSame
<1>4. Syncing(m)' <=> Syncing(m)
  BY <1>2 DEF Syncing
<1> QED
  BY <1>2, <1>3, <1>4, KeepWatched

LEMMA IdleWatched ==
    ASSUME NEW m \in Monitors, UNCHANGED vars, Watched(m)
    PROVE  Watched(m)'
<1>1. /\ UNCHANGED <<request, bus, config, born, heard, subscribed, boot, syncing>>
      /\ SameFleet(m)
  BY FleetStays DEF vars, dbVars, apiVars, superVars, fleetVars, histVars
<1>2. \A K : Pending(m, K)' <=> Pending(m, K)
  BY <1>1, PendingSame
<1>3. Syncing(m)' <=> Syncing(m)
  BY <1>1 DEF Syncing
<1> QED
  BY <1>1, <1>2, <1>3, KeepWatched

LEMMA InitWatched == Init => \A m \in Monitors : Watched(m)
BY DEF Init, Watched, Pending, Idle

LEMMA NextFleetInv == FleetInv /\ [Next]_vars => FleetInv'
<1> SUFFICES ASSUME FleetInv, [Next]_vars PROVE FleetInv'
  OBVIOUS
<1>1. Typed /\ OneCheckerPerMonitor /\ \A m \in Monitors : Watched(m)
  BY WatchedAll DEF FleetInv, Typed
<1>2. Typed' /\ OneCheckerPerMonitor'
  BY <1>1, NextTyped, NextOne
<1>3. ASSUME NEW m \in Monitors
      PROVE  Watched(m)'
  <2>1. Watched(m)
    BY <1>1
  <2> QED
    BY <1>1, <2>1, ApiWatched, CascadeWatched, BootWatched, SyncFetchWatched, SyncSpawnWatched,
       RemoveWatched, RestartWatched, CheckerWatched, IdleWatched
    DEF Next, BootStep, SyncStep
<1>4. GoneForGood' /\ Followed'
  BY <1>3 DEF Watched, GoneForGood, Followed
<1> QED
  BY <1>2, <1>4 DEF FleetInv, Typed

\* Nothing on its way: the fleet runs what the table says.
LEMMA FollowedDrained == FleetInv => AppliedWhenDrained
<1> SUFFICES ASSUME FleetInv, NEW m \in Monitors, heard[m] = "yes", Drained(m)
             PROVE  InForce(m)
  BY DEF AppliedWhenDrained
<1>1. Caught(m)
  BY DEF FleetInv, Followed
<1>2. DOMAIN bus = 1..Len(bus)
  BY DEF FleetInv, TypeOK
<1>3. \A K : ~Pending(m, K)
  BY <1>2 DEF Drained, Pending
<1>4. ~Syncing(m)
  BY DEF Drained, Syncing
<1> QED
  BY <1>1, <1>3, <1>4 DEF Caught

(***************************************************************************)
(* Once the messages about a monitor are handled, its checker runs the     *)
(* settings of the last write, or has been cancelled with its row: Sync    *)
(* reads the row instead of trusting the message, so neither concurrent    *)
(* requests nor messages out of the order of the writes do harm.           *)
(***************************************************************************)
THEOREM AppliedOnceDrained == Spec => []AppliedWhenDrained
<1>1. Init => FleetInv
  <2>1. Init => GoneForGood /\ Followed
    BY InitWatched, WatchedAll
  <2> QED
    BY InitTyped, InitOne, <2>1 DEF FleetInv, Typed
<1>2. FleetInv => AppliedWhenDrained
  BY FollowedDrained
<1> QED
  BY <1>1, <1>2, NextFleetInv, PTL DEF Spec

-----------------------------------------------------------------------------
(* The supervisor implements Fleet.                                        *)

LEMMA SameRunning ==
    ASSUME NEW m \in Monitors, SameFleet(m)
    PROVE  Running'[m] = Running[m]
<1>1. {h \in Slots : Active(h, m)'} = {h \in Slots : Active(h, m)}
  BY DEF SameFleet
<1>2. \A g \in {h \in Slots : Active(h, m)} : checker'[g].config = checker[g].config
  BY DEF SameFleet
<1>3. /\ Running[m] = {checker[g].config : g \in {h \in Slots : Active(h, m)}}
      /\ Running'[m] = {checker'[g].config : g \in {h \in Slots : Active(h, m)'}}
  BY DEF Running
<1> QED
  BY <1>1, <1>2, <1>3

LEMMA RunningExcept ==
    ASSUME NEW k \in Monitors, NEW x, Running'[k] = x,
           \A m \in Monitors : m # k => SameFleet(m)
    PROVE  Running' = [Running EXCEPT ![k] = x]
<1>1. /\ Running = [m \in Monitors |-> Running[m]]
      /\ Running' = [m \in Monitors |-> Running'[m]]
  BY DEF Running
<1>2. \A m \in Monitors : m # k => Running'[m] = Running[m]
  BY SameRunning
<1> QED
  BY <1>1, <1>2

LEMMA RunningSame ==
    ASSUME \A m \in Monitors : SameFleet(m)
    PROVE  Running' = Running
<1>1. /\ Running = [m \in Monitors |-> Running[m]]
      /\ Running' = [m \in Monitors |-> Running'[m]]
  BY DEF Running
<1>2. \A m \in Monitors : Running'[m] = Running[m]
  BY SameRunning
<1> QED
  BY <1>1, <1>2

LEMMA HeldSame == UNCHANGED <<bootRows, syncing>> => Held' = Held
BY DEF Held

\* A step that touches neither the table nor the copies nor who is in charge.
LEMMA FleetStutters ==
    ASSUME UNCHANGED <<config, born, bootRows, syncing>>, \A m \in Monitors : SameFleet(m)
    PROVE  UNCHANGED Abstract!vars
BY RunningSame, HeldSame DEF Abstract!vars

\* The requests write the table.
LEMMA ApiRefines ==
    ASSUME Typed, NEW r \in Requests, ApiStep(r)
    PROVE  [Abstract!Next]_(Abstract!vars)
<1>1. UNCHANGED <<bootRows, syncing>> /\ \A m \in Monitors : SameFleet(m)
  BY ApiLeavesFleet, FleetStays DEF superVars
<1>2. Running' = Running /\ Held' = Held
  BY <1>1, RunningSame, HeldSame
<1>3. changes < MaxChanges => changes + 1 \in 1..MaxChanges
  BY DEF Typed, TypeOK
<1>4. CASE UNCHANGED <<config, born>>
  BY <1>1, <1>4, FleetStutters
<1>5. ASSUME NEW m \in Monitors, Create(r, m)
      PROVE  Abstract!Create(m, changes + 1) /\ changes + 1 \in 1..MaxChanges
  BY <1>2, <1>3, <1>5 DEF Create, Write, Abstract!Create, Abstract!Set
<1>6. CASE UpdateRow(r)
  <2>1. PICK m \in Monitors : m = request[r].mon
    BY <1>6 DEF UpdateRow, Typed, TypeOK, Known
  <2>2. CASE Exists(m) /\ Write(m, changes + 1)
    <3>1. Abstract!Update(m, changes + 1) /\ changes + 1 \in 1..MaxChanges
      BY <1>2, <1>3, <1>6, <2>2
      DEF UpdateRow, Write, Exists, Abstract!Update, Abstract!Existing, Abstract!Set
    <3> QED
      BY <3>1 DEF Abstract!Next
  <2>3. CASE UNCHANGED config
    BY <1>4, <1>6, <2>3 DEF UpdateRow
  <2> QED
    BY <1>6, <2>1, <2>2, <2>3 DEF UpdateRow
<1>7. CASE DeleteRow(r)
  <2>1. PICK m \in Monitors : m = request[r].mon
    BY <1>7 DEF DeleteRow, Typed, TypeOK, Known
  <2>2. CASE Exists(m) /\ Write(m, 0)
    <3>1. config' = [k \in Monitors |-> IF k \in {m} THEN 0 ELSE config[k]]
      BY <2>2 DEF Write, Typed, TypeOK
    <3>2. Abstract!Delete({m})
      BY <1>2, <1>7, <2>2, <3>1 DEF DeleteRow, Exists, Abstract!Delete, Abstract!Existing
    <3> QED
      BY <3>2 DEF Abstract!Next
  <2>3. CASE UNCHANGED config
    BY <1>4, <1>7, <2>3 DEF DeleteRow
  <2> QED
    BY <1>7, <2>1, <2>2, <2>3 DEF DeleteRow
<1>8. CASE Publish(r) \/ \E m \in Monitors : Fetch(r, m, "updated") \/ Fetch(r, m, "deleted")
  BY <1>4, <1>8 DEF Publish, Fetch, dbVars, histVars
<1>9. CASE \E m \in Monitors : Create(r, m)
  BY <1>5, <1>9 DEF Abstract!Next
<1> QED
  BY <1>6, <1>7, <1>8, <1>9 DEF ApiStep

LEMMA CascadeRefines ==
    ASSUME NEW S \in SUBSET Monitors, Cascade(S)
    PROVE  Abstract!Delete(S)
<1>1. UNCHANGED <<bootRows, syncing, born>> /\ \A m \in Monitors : SameFleet(m)
  BY FleetStays DEF Cascade, superVars
<1>2. Running' = Running /\ Held' = Held
  BY <1>1, RunningSame, HeldSame
<1> QED
  BY <1>1, <1>2 DEF Cascade, Exists, Abstract!Delete, Abstract!Existing

\* Run reads the whole table, Sync one row.
LEMMA ListAllReads ==
    ASSUME Typed, Unlisted, ListAll
    PROVE  Abstract!Read
<1>1. Held = {Settings(row) : row \in {syncing} \ {None}}
  BY DEF Unlisted, ListAll, Held
<1>2. Held' = {Settings(row) : row \in bootRows' \cup ({syncing} \ {None})}
  BY DEF ListAll, Held
<1>3. \A m \in Monitors : Settings(RowOf(m)) = Abstract!Copy(m)
  BY DEF Settings, RowOf, Abstract!Copy
<1>4. {Settings(row) : row \in bootRows'} = {Abstract!Copy(m) : m \in Abstract!Existing}
  BY <1>3 DEF ListAll, Exists, Abstract!Existing
<1>5. Held' = Held \cup {Abstract!Copy(m) : m \in Abstract!Existing}
  BY <1>1, <1>2, <1>4
<1>6. Running' = Running /\ UNCHANGED <<config, born>>
  BY FleetStays, RunningSame DEF ListAll, dbVars, histVars
<1> QED
  BY <1>5, <1>6 DEF Abstract!Read

LEMMA SyncFetchReads ==
    ASSUME Typed, SyncFetch
    PROVE  Abstract!Read \/ UNCHANGED Abstract!vars
<1>1. PICK m \in Monitors : m = Head(bus).mon
  BY HeadMessage DEF SyncFetch
<1>2. /\ syncing = None /\ UNCHANGED <<config, born, bootRows>>
      /\ \A k \in Monitors : SameFleet(k)
  BY FleetStays DEF SyncFetch, dbVars
<1>3. CASE UNCHANGED syncing
  BY <1>2, <1>3, FleetStutters
<1>4. CASE Exists(m) /\ syncing' = [RowOf(m) EXCEPT !.config = Fetched(m)]
  <2>1. syncing' \in Rows /\ Settings(syncing') = Abstract!Copy(m)
    <3>1. syncing' = RowOf(m)
      BY <1>4 DEF Fetched, RowOf
    <3>2. config[m] \in 1..MaxChanges /\ status[m] \in Statuses
      BY <1>4 DEF Exists, Typed, TypeOK
    <3> QED
      BY <3>1, <3>2 DEF RowOf, Rows, Settings, Abstract!Copy
  <2>2. Held' = Held \cup {Abstract!Copy(m)}
    BY <1>2, <2>1 DEF Held
  <2>3. Running' = Running
    BY <1>2, RunningSame
  <2> QED
    BY <1>2, <1>4, <2>2, <2>3 DEF Abstract!Read, Abstract!Existing, Exists
<1> QED
  BY <1>1, <1>3, <1>4 DEF SyncFetch

\* What is spawned is one of the copies, in place of what ran before.
LEMMA SpawnStarts ==
    ASSUME Typed, OneCheckerPerMonitor, NEW row \in Rows, Spawn(row), Settings(row) \in Held,
           Held' \subseteq Held, Held \ {Settings(row)} \subseteq Held',
           UNCHANGED <<config, born>>
    PROVE  Abstract!Start(Settings(row))
<1>1. PICK k \in Monitors : row.mon = k
  BY DEF Rows
<1>2. /\ OneCheckerPerMonitor' /\ \A m \in Monitors : m # k => SameFleet(m)
      /\ \E g \in Slots : Active(g, k)' /\ checker'[g].config = row.config
  BY <1>1, SpawnEffect
<1>3. PICK g \in Slots : Active(g, k)' /\ checker'[g].config = row.config
  BY <1>2
<1>4. \A h \in Slots : Active(h, k)' => h = g
  BY <1>2, <1>3 DEF OneCheckerPerMonitor
<1>5. Running'[k] = {checker'[h].config : h \in {j \in Slots : Active(j, k)'}}
  BY DEF Running
<1>6. Running'[k] = {row.config}
  BY <1>3, <1>4, <1>5
<1>7. Running' = [Running EXCEPT ![k] = {row.config}]
  BY <1>2, <1>6, RunningExcept
<1>8. Held' \in {Held, Held \ {Settings(row)}}
  OBVIOUS
<1>9. Settings(row).mon = k /\ Settings(row).version = row.config
  BY <1>1 DEF Settings
<1> QED
  BY <1>7, <1>8, <1>9 DEF Abstract!Start

LEMMA BootSpawnStarts ==
    ASSUME Typed, OneCheckerPerMonitor, BootSpawn
    PROVE  \E c \in Held : Abstract!Start(c)
<1>1. PICK row \in bootRows : Spawn(row) /\ bootRows' = bootRows \ {row}
  BY DEF BootSpawn
<1>2. row \in Rows /\ UNCHANGED <<syncing, config, born>>
  BY DEF BootSpawn, Typed, TypeOK, dbVars, histVars
<1>3. /\ Settings(row) \in Held /\ Held' \subseteq Held
      /\ Held \ {Settings(row)} \subseteq Held'
  BY <1>1, <1>2 DEF Held
<1> QED
  BY <1>1, <1>2, <1>3, SpawnStarts

LEMMA SyncSpawnStarts ==
    ASSUME Typed, OneCheckerPerMonitor, SyncSpawn
    PROVE  \E c \in Held : Abstract!Start(c)
<1>1. PICK row \in Rows : row = syncing /\ Spawn(row) /\ syncing' = None
  BY DEF SyncSpawn, Typed, TypeOK
<1>2. UNCHANGED <<bootRows, config, born>>
  BY DEF SyncSpawn, dbVars, histVars
<1>3. /\ Settings(row) \in Held /\ Held' \subseteq Held
      /\ Held \ {Settings(row)} \subseteq Held'
  BY <1>1, <1>2 DEF Held
<1> QED
  BY <1>1, <1>2, <1>3, SpawnStarts

\* The row of a monitor whose deletion was published is gone.
LEMMA RemoveStops ==
    ASSUME Typed, OneCheckerPerMonitor, GoneForGood, Remove
    PROVE  \E m \in Monitors : Abstract!Stop(m)
<1>1. PICK k \in Monitors : Head(bus).mon = k
  BY HeadMessage DEF Remove
<1>2. /\ bus # <<>> /\ bus' = Tail(bus) /\ Head(bus).kind = "deleted" /\ request' = request
      /\ UNCHANGED <<config, born, bootRows, syncing>>
  BY DEF Remove, dbVars, apiVars, superVars, histVars
<1>3. Pending(k, {"deleted"})
  BY <1>1, <1>2, PendingTail
<1>4. k \in born \ Abstract!Existing
  BY <1>3 DEF GoneForGood, Exists, Abstract!Existing
<1>5. \A m \in Monitors : m # k => SameFleet(m)
  BY <1>1, RemoveEffect
<1>6. \A g \in Slots : ~Active(g, k)'
  BY <1>1, RemoveEffect
<1>7. Running'[k] = {checker'[h].config : h \in {j \in Slots : Active(j, k)'}}
  BY DEF Running
<1>8. Running' = [Running EXCEPT ![k] = {}]
  BY <1>5, <1>6, <1>7, RunningExcept
<1> QED
  BY <1>2, <1>4, <1>8, HeldSame DEF Abstract!Stop

LEMMA RestartCrashes == Restart => Abstract!Crash
<1> SUFFICES ASSUME Restart PROVE Abstract!Crash
  OBVIOUS
<1>1. Held' = {} /\ UNCHANGED <<config, born>>
  BY DEF Restart, Held, dbVars
<1>2. \A m \in Monitors, g \in Slots : ~Active(g, m)'
  BY DEF Restart, Active, Free
<1>3. Running' = [m \in Monitors |-> {checker'[h].config : h \in {j \in Slots : Active(j, m)'}}]
  BY DEF Running
<1>4. Running' = [m \in Monitors |-> {}]
  BY <1>2, <1>3
<1> QED
  BY <1>1, <1>4 DEF Abstract!Crash

\* Nothing is left to spawn when Run starts.
LEMMA NextUnlisted == Unlisted /\ [Next]_vars => Unlisted'
BY DEF Unlisted, Next, vars, Cascade, ApiStep, Create, Fetch, UpdateRow, DeleteRow, Publish,
       BootStep, ListAll, BootSpawn, BootDone, SyncStep, Subscribe, SyncFetch, SyncSpawn,
       Remove, Restart, CheckerStep, Ping, Evaluate, UpdateStatus, Stop, superVars

LEMMA NextRefines ==
    ASSUME FleetInv, Unlisted, [Next]_vars
    PROVE  [Abstract!Next]_(Abstract!vars)
<1>1. Typed /\ OneCheckerPerMonitor /\ GoneForGood
  BY DEF FleetInv, Typed
<1>2. CASE \/ \E r \in Requests : ApiStep(r)
           \/ \E S \in SUBSET Monitors : Cascade(S)
  BY <1>1, <1>2, ApiRefines, CascadeRefines DEF Abstract!Next
<1>3. CASE ListAll \/ SyncFetch
  BY <1>1, <1>3, ListAllReads, SyncFetchReads DEF Abstract!Next
<1>4. CASE BootSpawn \/ SyncSpawn
  BY <1>1, <1>4, BootSpawnStarts, SyncSpawnStarts DEF Abstract!Next
<1>5. CASE BootDone \/ Subscribe \/ UNCHANGED vars
  <2>1. UNCHANGED <<config, born, bootRows, syncing, fleetVars>>
    BY <1>5 DEF BootDone, Subscribe, vars, dbVars, superVars, histVars
  <2> QED
    BY <2>1, FleetStays, FleetStutters
<1>6. CASE Remove
  BY <1>1, <1>6, RemoveStops DEF Abstract!Next
<1>7. CASE Restart
  BY <1>7, RestartCrashes DEF Abstract!Next
<1>8. ASSUME NEW g \in Slots, CheckerStep(g)
      PROVE  UNCHANGED Abstract!vars
  <2>1. Worked(g)
    BY <1>1, <1>8, CheckerWorks
  <2> QED
    BY <1>1, <2>1, WorkedEffect, FleetStutters DEF Worked, superVars, histVars
<1> QED
  BY <1>2, <1>3, <1>4, <1>5, <1>6, <1>7, <1>8 DEF Next, BootStep, SyncStep

LEMMA InitRefines == Init => Abstract!Init /\ Unlisted
<1> SUFFICES ASSUME Init PROVE Abstract!Init /\ Unlisted
  OBVIOUS
<1>1. Held = {} /\ Unlisted
  BY DEF Init, Held, Unlisted
<1>2. \A m \in Monitors, g \in Slots : ~Active(g, m)
  BY DEF Init, Active, Free
<1>3. Running = [m \in Monitors |-> {}]
  BY <1>2 DEF Running
<1> QED
  BY <1>1, <1>3 DEF Init, Abstract!Init

(***************************************************************************)
(* Supervisor, synchronisation, API and checkers together are a map from   *)
(* monitors to settings: a checker is replaced by one that was read from   *)
(* the table, and goes for good only with its row or with the worker,      *)
(* however messages are lost or reordered.                                 *)
(***************************************************************************)
THEOREM SupervisorImplementsFleet == Spec => ImplementsFleet
<1>1. Init => FleetInv
  <2>1. Init => GoneForGood /\ Followed
    BY InitWatched, WatchedAll
  <2> QED
    BY InitTyped, InitOne, <2>1 DEF FleetInv, Typed
<1>2. FleetInv /\ Unlisted /\ [Next]_vars => [Abstract!Next]_(Abstract!vars)
  BY NextRefines
<1> QED
  BY <1>1, <1>2, NextFleetInv, NextUnlisted, InitRefines, PTL
  DEF Spec, ImplementsFleet, Abstract!Spec
=============================================================================
