--------------------------- MODULE IngestConsumer ---------------------------
(***************************************************************************)
(* The worker's side of the ingest pipeline: the API pushes events onto a  *)
(* Redis stream, and one worker process consumes them with two goroutines  *)
(* that share a consumer group and a consumer name.                        *)
(*                                                                         *)
(*   "run"      IngestConsumer.Run: XREADGROUP of new entries, in batches  *)
(*   "reclaim"  IngestConsumer.RunReclaim: XPENDING of the entries idle    *)
(*              for reclaimMinIdle, then XCLAIM and retry, or the          *)
(*              dead-letter queue once the delivery count is exceeded      *)
(*                                                                         *)
(* Every call that leaves the process (Redis, Postgres) is a step of its   *)
(* own, may fail with or without having been applied, and may be the last  *)
(* thing the process does before it is killed.                             *)
(***************************************************************************)
EXTENDS Integers, FiniteSetsExt

CONSTANTS
    NumEvents,         \* entries the API may push: the bound on the stream
    Malformed,         \* entries processMessage cannot parse
    Fingerprints,      \* (project_id, fingerprint) pairs: the keys of issues
    Fp,                \* the pair an entry's event maps to
    MaxDeliveryCount,  \* maxDeliveryCount (3 in cmd/worker/main.go)
    ReadCount,         \* XREADGROUP COUNT (10 in the code)
    PendingCount,      \* XPENDING count (50 in the code)
    Faults,            \* the calls that may fail, a subset of FaultKinds
    MaxRedisFaults,    \* bound on failing Redis calls
    MaxCrashes         \* bound on crashes of the worker process

EventIds == 1..NumEvents
Threads  == {"run", "reclaim"}

\* Postgres calls may fail for ever; Redis calls fail MaxRedisFaults times.
DbFaults    == {"upsert", "insert", "alert"}
RedisFaults == {"read", "claim", "dlqAdd", "ack"}
FaultKinds  == DbFaults \cup RedisFaults

ASSUME NumEventsAssumption    == NumEvents \in Nat
ASSUME MalformedAssumption    == Malformed \subseteq EventIds
ASSUME FpAssumption           == Fp \in [EventIds -> Fingerprints]
ASSUME DeliveryAssumption     == MaxDeliveryCount \in Nat
ASSUME CountsAssumption       == ReadCount \in Nat \ {0} /\ PendingCount \in Nat \ {0}
ASSUME FaultsAssumption       == Faults \subseteq FaultKinds
ASSUME BoundsAssumption       == MaxRedisFaults \in Nat /\ MaxCrashes \in Nat

VARIABLES
    \* the Redis stream and the consumer group's pending entries list
    produced,       \* entries appended so far: ids 1..produced
    lastDelivered,  \* the group's last-delivered id
    pel,            \* entries delivered and not acknowledged
    deliveries,     \* delivery counter of an entry
    stale,          \* entries of pel idle for at least reclaimMinIdle
    dlq,            \* times an entry was appended to the dead-letter stream
    \* Postgres
    issueCount,     \* issues.count, 0 when the row does not exist
    stored,         \* rows of events inserted for an entry
    \* the memory of the worker process
    pc,             \* where each goroutine is
    work,           \* entries left in the reply a goroutine loops over
    cur,            \* the entry a goroutine is processing (0: none)
    created,        \* wasCreated, as returned by Upsert
    seen,           \* RetryCount of the XPENDING snapshot
    \* history, and the budgets of failures
    attempts,       \* calls of processMessage for an entry
    refused,        \* entries whose append to the dead-letter stream failed
    evaluated,      \* times EvaluateNewIssue ran for an issue
    missed,         \* new issues whose goroutine failed or died before that
    faults,
    crashes

streamVars  == <<produced, lastDelivered>>
groupVars   == <<pel, deliveries, stale>>
dbVars      == <<issueCount, stored>>
workerVars  == <<pc, work, cur, created, seen>>
alertVars   == <<evaluated, missed>>
budgetVars  == <<faults, crashes>>
vars == <<streamVars, groupVars, dlq, dbVars, workerVars, attempts, refused,
          alertVars, budgetVars>>

PCs == {"loop", "upsert", "insert", "notify", "dlqAdd", "ack"}

TypeOK ==
    /\ produced \in 0..NumEvents
    /\ lastDelivered \in 0..produced
    /\ pel \subseteq 1..lastDelivered
    /\ deliveries \in [EventIds -> Nat]
    /\ stale \subseteq pel
    /\ dlq \in [EventIds -> Nat]
    /\ issueCount \in [Fingerprints -> Nat]
    /\ stored \in [EventIds -> Nat]
    /\ pc \in [Threads -> PCs]
    /\ work \in [Threads -> SUBSET EventIds]
    /\ cur \in [Threads -> EventIds \cup {0}]
    /\ \A t \in Threads : pc[t] = "loop" <=> cur[t] = 0
    /\ created \in [Threads -> BOOLEAN]
    /\ seen \in [EventIds -> Nat]
    /\ attempts \in [EventIds -> Nat]
    /\ refused \subseteq EventIds
    /\ evaluated \in [Fingerprints -> Nat]
    /\ missed \subseteq Fingerprints
    /\ faults \in 0..MaxRedisFaults
    /\ crashes \in 0..MaxCrashes

Init ==
    /\ produced = 0
    /\ lastDelivered = 0
    /\ pel = {}
    /\ deliveries = [m \in EventIds |-> 0]
    /\ stale = {}
    /\ dlq = [m \in EventIds |-> 0]
    /\ issueCount = [f \in Fingerprints |-> 0]
    /\ stored = [m \in EventIds |-> 0]
    /\ pc = [t \in Threads |-> "loop"]
    /\ work = [t \in Threads |-> {}]
    /\ cur = [t \in Threads |-> 0]
    /\ created = [t \in Threads |-> FALSE]
    /\ seen = [m \in EventIds |-> 0]
    /\ attempts = [m \in EventIds |-> 0]
    /\ refused = {}
    /\ evaluated = [f \in Fingerprints |-> 0]
    /\ missed = {}
    /\ faults = 0
    /\ crashes = 0

-----------------------------------------------------------------------------
(* Helpers.                                                                *)

\* Both replies a goroutine loops over (XREADGROUP, XPENDING) are in id order.
Earliest(S) == CHOOSE m \in S : \A k \in S : m <= k

\* The n earliest elements of S.
FirstOf(S, n) == {m \in S : Cardinality({k \in S : k <= m}) <= n}

DbFails(kind) == kind \in Faults /\ UNCHANGED faults

RedisFails(kind) ==
    /\ kind \in Faults
    /\ faults < MaxRedisFaults
    /\ faults' = faults + 1

Goto(t, label) == pc' = [pc EXCEPT ![t] = label]

\* The goroutine is done with its entry, processed or not.
Done(t) ==
    /\ Goto(t, "loop")
    /\ cur' = [cur EXCEPT ![t] = 0]
    /\ created' = [created EXCEPT ![t] = FALSE]

\* Mutant: an entry that does not parse is acknowledged and dropped.
FirstCallDropsMalformed(m) == IF m \in Malformed THEN "ack" ELSE "upsert"

\* processMessage up to its first call: an entry that does not parse goes
\* straight to moveToDLQ, any other to groupIssue.Execute.
FirstCall(m) == IF m \in Malformed THEN "dlqAdd" ELSE "upsert"

Enter(t, m) ==
    /\ attempts' = [attempts EXCEPT ![m] = @ + 1]
    /\ Goto(t, FirstCall(m))

\* The next entry of the reply t loops over.
Take(t, m) ==
    /\ pc[t] = "loop"
    /\ work[t] # {}
    /\ m = Earliest(work[t])
    /\ work' = [work EXCEPT ![t] = @ \ {m}]

-----------------------------------------------------------------------------
(* The stream and the passing of time.                                     *)

\* EventQueue.Push: the API appends an event to the stream.
Push ==
    /\ produced < NumEvents
    /\ produced' = produced + 1
    /\ UNCHANGED <<lastDelivered, groupVars, dlq, dbVars, workerVars, attempts,
                   refused, alertVars, budgetVars>>

\* An entry of the pending list reaches reclaimMinIdle: nothing stops the
\* clock while a goroutine is still busy with the entry.
BecomeStale(m) ==
    /\ m \in pel \ stale
    /\ stale' = stale \cup {m}
    /\ UNCHANGED <<streamVars, pel, deliveries, dlq, dbVars, workerVars,
                   attempts, refused, alertVars, budgetVars>>

-----------------------------------------------------------------------------
(* Run: read a batch of new entries and process them one after the other.  *)

\* Mutant: XREADGROUP with NOACK.
DeliveredNoAck(batch) == pel

\* Delivered entries stay pending until XACK.
Delivered(batch) == pel \cup batch

\* Mutant: the group's position advances by the COUNT asked for.
LastOfAsked(batch) == lastDelivered + ReadCount

\* The new last-delivered id.
LastOf(batch) == lastDelivered + Cardinality(batch)

\* XREADGROUP ... ">": the batch enters the pending list with a delivery
\* count of 1, whether or not the reply reaches the worker.
Read ==
    /\ pc["run"] = "loop"
    /\ work["run"] = {}
    /\ lastDelivered < produced
    /\ LET batch == FirstOf((lastDelivered + 1)..produced, ReadCount) IN
       /\ lastDelivered' = LastOf(batch)
       /\ pel' = Delivered(batch)
       /\ deliveries' = [m \in EventIds |-> IF m \in batch THEN 1 ELSE deliveries[m]]
       /\ \/ work' = [work EXCEPT !["run"] = batch] /\ UNCHANGED faults
          \/ RedisFails("read") /\ UNCHANGED work
    /\ UNCHANGED <<produced, stale, dlq, dbVars, pc, cur, created, seen,
                   attempts, refused, alertVars, crashes>>

\* processMessage for the next entry of the batch.
Begin ==
    /\ \E m \in work["run"] :
         /\ Take("run", m)
         /\ cur' = [cur EXCEPT !["run"] = m]
         /\ Enter("run", m)
    /\ UNCHANGED <<streamVars, groupVars, dlq, dbVars, created, seen, refused,
                   alertVars, budgetVars>>

-----------------------------------------------------------------------------
(* RunReclaim: reclaimOnce at every tick.                                  *)

\* Mutant: the scan leaves out the entries whose retries have run out.
OverdueForRetry == {m \in stale : deliveries[m] <= MaxDeliveryCount}

\* XPENDING IDLE reclaimMinIdle: pending and idle for long enough.
Overdue == stale

\* XPENDING IDLE reclaimMinIdle - + PendingCount.
Scan ==
    /\ pc["reclaim"] = "loop"
    /\ work["reclaim"] = {}
    /\ Overdue # {}
    /\ work' = [work EXCEPT !["reclaim"] = FirstOf(Overdue, PendingCount)]
    /\ seen' = [m \in EventIds |-> IF m \in work'["reclaim"] THEN deliveries[m] ELSE 0]
    /\ UNCHANGED <<streamVars, groupVars, dlq, dbVars, pc, cur, created,
                   attempts, refused, alertVars, budgetVars>>

\* What XCLAIM does in Redis to an entry that is pending and idle.
ClaimEffect(m) ==
    /\ deliveries' = [deliveries EXCEPT ![m] = @ + 1]
    /\ stale' = stale \ {m}

\* Mutants: one retry too many, and one too few.
ExhaustedLate(m)  == seen[m] > MaxDeliveryCount + 1
ExhaustedEarly(m) == seen[m] >= MaxDeliveryCount

\* The delivery count of the snapshot has passed the limit.
Exhausted(m) == seen[m] > MaxDeliveryCount

\* XCLAIM succeeds; the count of the snapshot decides between the
\* dead-letter queue and one more attempt.
Claim ==
    /\ \E m \in work["reclaim"] :
         /\ Take("reclaim", m)
         /\ m \in stale
         /\ ClaimEffect(m)
         /\ cur' = [cur EXCEPT !["reclaim"] = m]
         /\ \/ /\ Exhausted(m)
               /\ Goto("reclaim", "dlqAdd")
               /\ UNCHANGED attempts
            \/ /\ ~Exhausted(m)
               /\ Enter("reclaim", m)
    /\ UNCHANGED <<streamVars, pel, dlq, dbVars, created, seen, refused,
                   alertVars, budgetVars>>

\* XCLAIM returns nothing (acknowledged or no longer idle), or fails, before
\* or after it was applied: the loop continues with the next entry.
ClaimSkip ==
    /\ \E m \in work["reclaim"] :
         /\ Take("reclaim", m)
         /\ \/ m \notin stale /\ UNCHANGED <<deliveries, stale, faults>>
            \/ RedisFails("claim") /\ UNCHANGED <<deliveries, stale>>
            \/ RedisFails("claim") /\ m \in stale /\ ClaimEffect(m)
    /\ UNCHANGED <<streamVars, pel, dlq, dbVars, pc, cur, created, seen,
                   attempts, refused, alertVars, crashes>>

-----------------------------------------------------------------------------
(* processMessage and moveToDLQ, the same for both goroutines.             *)

\* Mutant: ON CONFLICT DO UPDATE without the increment of count.
CountOnce(f) == IF issueCount[f] = 0 THEN 1 ELSE issueCount[f]

\* ON CONFLICT (project_id, fingerprint) DO UPDATE SET count = count + 1.
NewCount(f) == issueCount[f] + 1

\* (xmax = 0) AS was_created: the row did not exist.
WasCreated(f) == issueCount[f] = 0

\* f is new and the goroutine that knows it will not evaluate its rules.
Miss(isNew, f) == missed' = IF isNew THEN missed \cup {f} ELSE missed

\* GroupIssueUsecase.Execute, first statement: the upsert of the issue.
Upsert(t) ==
    LET f == Fp[cur[t]] IN
    /\ pc[t] = "upsert"
    /\ \/ /\ issueCount' = [issueCount EXCEPT ![f] = NewCount(f)]
          /\ created' = [created EXCEPT ![t] = WasCreated(f)]
          /\ Goto(t, "insert")
          /\ UNCHANGED <<cur, missed, faults>>
       \/ /\ DbFails("upsert")
          /\ \/ UNCHANGED <<issueCount, missed>>
             \/ /\ issueCount' = [issueCount EXCEPT ![f] = NewCount(f)]
                /\ Miss(WasCreated(f), f)
          /\ Done(t)
    /\ UNCHANGED <<streamVars, groupVars, dlq, stored, work, seen, attempts,
                   refused, evaluated, crashes>>

\* GroupIssueUsecase.Execute, second statement: the insert of the raw event.
\* There is no transaction around the two.
Insert(t) ==
    /\ pc[t] = "insert"
    /\ \/ /\ stored' = [stored EXCEPT ![cur[t]] = @ + 1]
          /\ Goto(t, "notify")
          /\ UNCHANGED <<cur, created, missed, faults>>
       \/ /\ DbFails("insert")
          /\ \/ UNCHANGED stored
             \/ stored' = [stored EXCEPT ![cur[t]] = @ + 1]
          /\ Miss(created[t], Fp[cur[t]])
          /\ Done(t)
    /\ UNCHANGED <<streamVars, groupVars, dlq, issueCount, work, seen, attempts,
                   refused, evaluated, crashes>>

\* Mutant: new_issue rules are evaluated for every event of the issue.
EvaluatesAlways(t) == TRUE

\* if wasCreated: only the insertion of the row triggers the evaluation.
Evaluates(t) == created[t]

\* The broadcast, which leaves no trace here, and EvaluateNewIssue for a new
\* issue; a failure of either is only logged.
Notify(t) ==
    LET f == Fp[cur[t]] IN
    /\ pc[t] = "notify"
    /\ \/ ~Evaluates(t) /\ UNCHANGED <<alertVars, faults>>
       \/ /\ Evaluates(t)
          /\ evaluated' = [evaluated EXCEPT ![f] = @ + 1]
          /\ UNCHANGED <<missed, faults>>
       \/ /\ Evaluates(t)
          /\ DbFails("alert")
          /\ Miss(created[t], f)
          /\ UNCHANGED evaluated
    /\ Goto(t, "ack")
    /\ UNCHANGED <<streamVars, groupVars, dlq, dbVars, work, cur, created,
                   seen, attempts, refused, crashes>>

\* moveToDLQ, XADD: a failure is logged and the XACK follows all the same.
DlqAdd(t) ==
    /\ pc[t] = "dlqAdd"
    /\ \/ /\ dlq' = [dlq EXCEPT ![cur[t]] = @ + 1]
          /\ UNCHANGED <<refused, faults>>
       \/ /\ RedisFails("dlqAdd")
          /\ refused' = refused \cup {cur[t]}
          /\ \/ UNCHANGED dlq
             \/ dlq' = [dlq EXCEPT ![cur[t]] = @ + 1]
    /\ Goto(t, "ack")
    /\ UNCHANGED <<streamVars, groupVars, dbVars, work, cur, created, seen,
                   attempts, alertVars, crashes>>

\* XACK, the last call of processMessage and of moveToDLQ.
Ack(t) ==
    LET m == cur[t] IN
    /\ pc[t] = "ack"
    /\ \/ pel' = pel \ {m} /\ stale' = stale \ {m} /\ UNCHANGED faults
       \/ /\ RedisFails("ack")
          /\ \/ UNCHANGED <<pel, stale>>
             \/ pel' = pel \ {m} /\ stale' = stale \ {m}
    /\ Done(t)
    /\ UNCHANGED <<streamVars, deliveries, dlq, dbVars, work, seen, attempts,
                   refused, alertVars, crashes>>

\* The new issues a goroutine has created and not evaluated yet, and who.
Creators(f) == {t \in Threads : /\ pc[t] \in {"insert", "notify"}
                                /\ created[t]
                                /\ Fp[cur[t]] = f}

\* The process is killed, or SIGTERM cancels its context, and it restarts:
\* what the goroutines held in memory is gone.
Crash ==
    /\ crashes < MaxCrashes
    /\ crashes' = crashes + 1
    /\ pc' = [t \in Threads |-> "loop"]
    /\ work' = [t \in Threads |-> {}]
    /\ cur' = [t \in Threads |-> 0]
    /\ created' = [t \in Threads |-> FALSE]
    /\ seen' = [m \in EventIds |-> 0]
    /\ missed' = missed \cup {f \in Fingerprints : Creators(f) # {}}
    /\ UNCHANGED <<streamVars, groupVars, dlq, dbVars, attempts, refused,
                   evaluated, faults>>

Process(t) ==
    \/ Upsert(t)
    \/ Insert(t)
    \/ Notify(t)
    \/ DlqAdd(t)
    \/ Ack(t)

RunStep     == Read \/ Begin \/ Process("run")
ReclaimStep == Scan \/ Claim \/ ClaimSkip \/ Process("reclaim")

Next ==
    \/ Push
    \/ \E m \in EventIds : BecomeStale(m)
    \/ RunStep
    \/ ReclaimStep
    \/ Crash

(***************************************************************************)
(* Both loops run for as long as the process lives, the ticker keeps       *)
(* ticking and time passes.  The API need not push anything and nothing    *)
(* has to fail.                                                            *)
(***************************************************************************)
Fairness ==
    /\ WF_vars(RunStep)
    /\ WF_vars(ReclaimStep)
    /\ \A m \in EventIds : WF_vars(BecomeStale(m))

Spec     == Init /\ [][Next]_vars
FairSpec == Spec /\ Fairness

-----------------------------------------------------------------------------
(* Properties.                                                             *)

\* Entries that were delivered and then acknowledged: nothing will ever look
\* at them again.
Settled == (1..lastDelivered) \ pel

IsStored(m) == stored[m] > 0
IsDead(m)   == dlq[m] > 0

(***************************************************************************)
(* No acknowledged entry is lost, but for those whose append to the        *)
(* dead-letter stream failed: its event is a row of Postgres or an entry   *)
(* of the dead-letter stream.  It relies on processMessage keeping XACK    *)
(* for the success path (lines 254-260) and on moveToDLQ appending before  *)
(* it acknowledges.                                                        *)
(***************************************************************************)
AckedIsSafe == \A m \in Settled : IsStored(m) \/ IsDead(m) \/ m \in refused

(***************************************************************************)
(* "Retried at most maxDeliveryCount times" (cmd/worker/main.go:65-66):    *)
(* first delivery included, processMessage runs at most                    *)
(* MaxDeliveryCount + 1 times for an entry, whatever the interleaving of   *)
(* the two goroutines, failing claims, lost replies and restarts.          *)
(***************************************************************************)
AttemptsBounded == \A m \in EventIds : attempts[m] <= MaxDeliveryCount + 1

(***************************************************************************)
(* An event that parses reaches the dead-letter stream only after all its  *)
(* retries: reclaimOnce has claimed it MaxDeliveryCount times for a retry  *)
(* and once more to bury it.                                               *)
(***************************************************************************)
DeadAfterRetries ==
    \A m \in EventIds \ Malformed :
        IsDead(m) => deliveries[m] >= MaxDeliveryCount + 2

(***************************************************************************)
(* issues.count never falls below the number of event rows of the issue,   *)
(* although the upsert and the insert are two statements without a         *)
(* transaction and either may be repeated by a retry.                      *)
(***************************************************************************)
EventsOf(f)  == {m \in EventIds : Fp[m] = f}
EventRows(f) == UNION {{m} \X (1..stored[m]) : m \in EventsOf(f)}

CountCoversEvents ==
    \A f \in Fingerprints : Cardinality(EventRows(f)) <= issueCount[f]

(***************************************************************************)
(* The rules of a new issue are evaluated at most once, whatever is        *)
(* retried: an issue that exists was evaluated, or the one goroutine that  *)
(* created its row is on its way to evaluate it, or that goroutine failed  *)
(* or died before it did, and never two of the three.                      *)
(***************************************************************************)
EvaluatedOnce ==
    \A f \in Fingerprints :
        evaluated[f] + Cardinality(Creators(f)) + (IF f \in missed THEN 1 ELSE 0)
            = IF issueCount[f] = 0 THEN 0 ELSE 1

(***************************************************************************)
(* "new_issue alerts are evaluated the moment a new issue is created": an  *)
(* issue some settled event belongs to was evaluated, or the goroutine     *)
(* that created its row is on its way to evaluate it.                      *)
(***************************************************************************)
NewIssueEvaluated ==
    \A m \in Settled :
        IsStored(m) => evaluated[Fp[m]] > 0 \/ Creators(Fp[m]) # {}

(***************************************************************************)
(* The consumer implements EventDelivery.                                  *)
(***************************************************************************)
Delivery == INSTANCE EventDelivery WITH
    Events   <- EventIds,
    accepted <- 1..produced,
    saved    <- {m \in EventIds : IsStored(m)},
    dead     <- {m \in EventIds : IsDead(m)},
    refused  <- refused,
    settled  <- Settled

(***************************************************************************)
(* Every step of the two goroutines, of Redis and of a restart is a step   *)
(* the at-least-once delivery of EventDelivery allows.                     *)
(***************************************************************************)
ImplementsDelivery == Delivery!Spec

(***************************************************************************)
(* Every pushed event is settled in the end, even when Postgres never      *)
(* answers again: retries run out and the entry is buried.                 *)
(***************************************************************************)
EventuallySettled == Delivery!AcceptedSettles

-----------------------------------------------------------------------------
(* What the proofs in IngestConsumer_proofs need besides the properties:   *)
(* the parts of the inductive invariants.                                  *)

\* A goroutine only holds entries the group has delivered.
HeldDelivered ==
    \A t \in Threads :
        /\ work[t] \subseteq 1..lastDelivered
        /\ cur[t] <= lastDelivered

\* Nothing has happened to an entry that was not delivered.
UnreadUntouched ==
    \A m \in EventIds : m > lastDelivered => attempts[m] = 0 /\ dlq[m] = 0

\* Only the reclaim loop claims: the counts of its snapshot are current.
SnapshotCurrent == \A m \in work["reclaim"] : seen[m] = deliveries[m]

\* Each attempt, made or still due in the batch of Run, has a delivery of
\* its own.
DueIn(m) == IF m \in work["run"] THEN 1 ELSE 0

AttemptsCounted ==
    \A m \in 1..lastDelivered :
        /\ attempts[m] + DueIn(m) <= deliveries[m]
        /\ attempts[m] + DueIn(m) <= MaxDeliveryCount + 1

AttemptsInv ==
    TypeOK /\ HeldDelivered /\ UnreadUntouched /\ SnapshotCurrent /\ AttemptsCounted

\* A goroutine buries an event that parses only when its retries ran out.
BuryJustified ==
    \A t \in Threads :
        pc[t] = "dlqAdd" /\ cur[t] \notin Malformed
            => deliveries[cur[t]] >= MaxDeliveryCount + 2

DeadInv == AttemptsInv /\ BuryJustified /\ DeadAfterRetries

\* A goroutine about to acknowledge holds an entry that is safe.
AckJustified ==
    \A t \in Threads :
        /\ pc[t] = "notify" => IsStored(cur[t])
        /\ pc[t] = "ack" => IsStored(cur[t]) \/ IsDead(cur[t]) \/ cur[t] \in refused

SafeInv == AttemptsInv /\ AckJustified /\ AckedIsSafe

\* A goroutine between the two statements of Execute has counted a row it
\* has not inserted yet.
Counting(f) == {t \in Threads : pc[t] = "insert" /\ Fp[cur[t]] = f}

CountInv ==
    \A f \in Fingerprints :
        /\ IsFiniteSet(EventRows(f))
        /\ Cardinality(EventRows(f)) + Cardinality(Counting(f)) <= issueCount[f]
=============================================================================
