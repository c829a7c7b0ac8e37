----------------------- MODULE IngestConsumer_proofs ------------------------
(***************************************************************************)
(* Proofs about IngestConsumer, for every number of events, every limit    *)
(* and every bound on failures.                                            *)
(***************************************************************************)
EXTENDS IngestConsumer, FiniteSetTheorems, TLAPS

(***************************************************************************)
(* The earliest n elements of an interval are its initial segment.         *)
(***************************************************************************)
LEMMA FirstOfInterval ==
    ASSUME NEW a \in Int, NEW b \in Int, a <= b, NEW n \in Nat \ {0}
    PROVE  LET last == IF b < a + n - 1 THEN b ELSE a + n - 1 IN
           /\ FirstOf(a..b, n) = a..last
           /\ Cardinality(FirstOf(a..b, n)) = last - a + 1
<1> DEFINE last == IF b < a + n - 1 THEN b ELSE a + n - 1
<1>1. ASSUME NEW m \in a..b
      PROVE  Cardinality({k \in a..b : k <= m}) = m - a + 1
  <2>1. {k \in a..b : k <= m} = a..m
    OBVIOUS
  <2>2. m \in Int /\ a <= m
    OBVIOUS
  <2>3. Cardinality(a..m) = m - a + 1
    BY <2>2, FS_Interval
  <2>4. QED BY <2>1, <2>3
<1>2. FirstOf(a..b, n) = a..last
  BY <1>1 DEF FirstOf
<1>3. Cardinality(a..last) = last - a + 1
  BY FS_Interval
<1>4. QED BY <1>2, <1>3

(***************************************************************************)
(* The batch of a read is what lies between the old and the new position.  *)
(***************************************************************************)
LEMMA ReadBatch ==
    ASSUME produced \in Nat, lastDelivered \in Nat, lastDelivered < produced,
           NEW batch, batch = FirstOf((lastDelivered + 1)..produced, ReadCount)
    PROVE  /\ LastOf(batch) \in Nat
           /\ LastOf(batch) > lastDelivered
           /\ LastOf(batch) <= produced
           /\ batch = (lastDelivered + 1)..LastOf(batch)
<1> DEFINE a == lastDelivered + 1
           last == IF produced < a + ReadCount - 1 THEN produced ELSE a + ReadCount - 1
<1>1. ReadCount \in Nat \ {0}
  BY CountsAssumption
<1>2. a \in Int /\ produced \in Int /\ a <= produced
  OBVIOUS
<1>3. batch = a..last /\ Cardinality(batch) = last - a + 1
  BY <1>1, <1>2, FirstOfInterval
<1>4. LastOf(batch) = last
  BY <1>1, <1>2, <1>3 DEF LastOf
<1>5. QED BY <1>1, <1>2, <1>3, <1>4

-----------------------------------------------------------------------------
(* Type correctness.                                                       *)

LEMMA InitType == Init => TypeOK
BY NumEventsAssumption, BoundsAssumption DEF Init, TypeOK, EventIds, Threads, PCs

\* What processing an entry does to the history.
LEMMA ProcessHistory ==
    ASSUME TypeOK, NEW t \in Threads, Process(t)
    PROVE  /\ refused' \subseteq EventIds
           /\ evaluated' \in [Fingerprints -> Nat]
           /\ missed' \subseteq Fingerprints
<1>1. cur[t] \in EventIds /\ Fp[cur[t]] \in Fingerprints
  BY FpAssumption DEF TypeOK, Process, Upsert, Insert, Notify, DlqAdd, Ack
<1>2. refused' \in {refused, refused \cup {cur[t]}}
  BY DEF Process, Upsert, Insert, Notify, DlqAdd, Ack
<1>3. evaluated' = evaluated \/ evaluated' = [evaluated EXCEPT ![Fp[cur[t]]] = @ + 1]
  BY DEF Process, Upsert, Insert, Notify, DlqAdd, Ack, alertVars
<1>4. missed' \in {missed, missed \cup {Fp[cur[t]]}}
  BY DEF Process, Upsert, Insert, Notify, DlqAdd, Ack, alertVars, Miss
<1>5. QED BY <1>1, <1>2, <1>3, <1>4 DEF TypeOK

\* The parts of a step that processing an entry shares.
LEMMA ProcessType ==
    ASSUME TypeOK, NEW t \in Threads, Process(t)
    PROVE  TypeOK'
<1> USE DEF TypeOK, PCs
<1>0. /\ refused' \subseteq EventIds
      /\ evaluated' \in [Fingerprints -> Nat]
      /\ missed' \subseteq Fingerprints
  BY ProcessHistory
<1>1. t \in {"run", "reclaim"} /\ faults' \in 0..MaxRedisFaults
  BY BoundsAssumption DEF Threads, Process, Upsert, Insert, Notify, DlqAdd, Ack,
     RedisFails, DbFails
<1>2. cur[t] # 0 => cur[t] \in EventIds
  OBVIOUS
<1>3. CASE Upsert(t)
  <2>1. cur[t] \in EventIds /\ Fp[cur[t]] \in Fingerprints
    BY <1>2, <1>3, FpAssumption DEF Upsert
  <2>2. issueCount' \in [Fingerprints -> Nat]
    BY <1>3, <2>1 DEF Upsert, NewCount
  <2>3. pc' \in [Threads -> PCs] /\ cur' \in [Threads -> EventIds \cup {0}]
        /\ created' \in [Threads -> BOOLEAN]
    BY <1>3 DEF Upsert, Done, Goto, WasCreated
  <2>4. \A u \in Threads : pc'[u] = "loop" <=> cur'[u] = 0
    BY <1>3, <2>1 DEF Upsert, Done, Goto
  <2>5. QED
    BY <1>0, <1>1, <1>3, <2>2, <2>3, <2>4 DEF Upsert, streamVars, groupVars
<1>4. CASE Insert(t)
  <2>1. cur[t] \in EventIds
    BY <1>2, <1>4 DEF Insert
  <2>2. stored' \in [EventIds -> Nat]
    BY <1>4, <2>1 DEF Insert
  <2>3. pc' \in [Threads -> PCs] /\ cur' \in [Threads -> EventIds \cup {0}]
        /\ created' \in [Threads -> BOOLEAN]
    BY <1>4 DEF Insert, Done, Goto
  <2>4. \A u \in Threads : pc'[u] = "loop" <=> cur'[u] = 0
    BY <1>4, <2>1 DEF Insert, Done, Goto
  <2>5. QED
    BY <1>0, <1>1, <1>4, <2>2, <2>3, <2>4 DEF Insert, streamVars, groupVars
<1>5. CASE Notify(t)
  <2>1. pc' \in [Threads -> PCs] /\ \A u \in Threads : pc'[u] = "loop" <=> cur'[u] = 0
    BY <1>2, <1>5 DEF Notify, Goto
  <2>2. QED
    BY <1>0, <1>1, <1>5, <2>1 DEF Notify, streamVars, groupVars, dbVars
<1>6. CASE DlqAdd(t)
  <2>1. dlq' \in [EventIds -> Nat]
    BY <1>2, <1>6 DEF DlqAdd
  <2>2. pc' \in [Threads -> PCs] /\ \A u \in Threads : pc'[u] = "loop" <=> cur'[u] = 0
    BY <1>2, <1>6 DEF DlqAdd, Goto
  <2>3. QED
    BY <1>0, <1>1, <1>6, <2>1, <2>2 DEF DlqAdd, streamVars, groupVars, dbVars
<1>7. CASE Ack(t)
  <2>1. pc' \in [Threads -> PCs] /\ cur' \in [Threads -> EventIds \cup {0}]
        /\ created' \in [Threads -> BOOLEAN]
        /\ \A u \in Threads : pc'[u] = "loop" <=> cur'[u] = 0
    BY <1>7 DEF Ack, Done, Goto
  <2>2. pel' \subseteq 1..lastDelivered /\ stale' \subseteq pel'
    BY <1>7 DEF Ack
  <2>3. QED
    BY <1>0, <1>1, <1>7, <2>1, <2>2 DEF Ack, streamVars, dbVars
<1>8. QED BY <1>3, <1>4, <1>5, <1>6, <1>7 DEF Process

\* Entries that are pending or idle are entries of the stream.
LEMMA StaleDelivered ==
    ASSUME TypeOK
    PROVE  /\ stale \subseteq 1..lastDelivered
           /\ 1..lastDelivered \subseteq EventIds
           /\ stale \subseteq EventIds
BY NumEventsAssumption DEF TypeOK, EventIds

LEMMA NextType == TypeOK /\ [Next]_vars => TypeOK'
<1> SUFFICES ASSUME TypeOK, [Next]_vars
             PROVE  TypeOK'
  OBVIOUS
<1> USE DEF TypeOK, Threads, PCs, alertVars
<1>1. CASE Push
  BY <1>1, NumEventsAssumption DEF Push, groupVars, dbVars, workerVars, budgetVars
<1>2. ASSUME NEW m \in EventIds, BecomeStale(m)
      PROVE  TypeOK'
  BY <1>2 DEF BecomeStale, streamVars, dbVars, workerVars, budgetVars
<1>3. CASE Read
  <2> DEFINE batch == FirstOf((lastDelivered + 1)..produced, ReadCount)
  <2>0. produced \in Nat /\ lastDelivered \in Nat /\ lastDelivered < produced
    BY <1>3, NumEventsAssumption DEF Read
  <2>1. PICK last \in Nat : /\ last = LastOf(batch)
                            /\ last > lastDelivered
                            /\ last <= produced
                            /\ batch = (lastDelivered + 1)..last
    BY <2>0, ReadBatch
  <2> HIDE DEF batch
  <2>2. batch \subseteq EventIds
    <3>1. ASSUME NEW x \in (lastDelivered + 1)..last
          PROVE  x \in 1..NumEvents
      BY <2>0, <2>1, NumEventsAssumption
    <3>2. QED BY <2>1, <3>1 DEF EventIds
  <2>3. /\ lastDelivered' = last
        /\ pel' = pel \cup batch
        /\ deliveries' = [m \in EventIds |-> IF m \in batch THEN 1 ELSE deliveries[m]]
        /\ work' = [work EXCEPT !["run"] = batch] \/ work' = work
        /\ faults' \in 0..MaxRedisFaults
    BY <1>3, <2>1, BoundsAssumption DEF Read, Delivered, RedisFails, batch
  <2>4. lastDelivered' \in 0..produced'
    BY <1>3, <2>1, <2>3, NumEventsAssumption DEF Read
  <2>5. pel' \subseteq 1..lastDelivered'
    <3>1. ASSUME NEW x \in (lastDelivered + 1)..last
          PROVE  x \in 1..last
      BY <2>0
    <3>2. 1..lastDelivered \subseteq 1..last
      BY <2>0, <2>1
    <3>3. QED BY <2>1, <2>3, <3>1, <3>2
  <2>6. work' \in [Threads -> SUBSET EventIds]
    BY <2>2, <2>3
  <2>7. QED
    BY <1>3, <2>3, <2>4, <2>5, <2>6 DEF Read, dbVars
<1>4. CASE Begin
  <2>1. PICK m \in work["run"] : /\ Take("run", m)
                                 /\ cur' = [cur EXCEPT !["run"] = m]
                                 /\ Enter("run", m)
    BY <1>4 DEF Begin
  <2>2. m \in EventIds /\ m # 0
    BY <2>1, NumEventsAssumption DEF EventIds
  <2>3. QED
    BY <1>4, <2>1, <2>2 DEF Begin, Take, Enter, Goto, FirstCall, streamVars,
       groupVars, dbVars, budgetVars
<1>5. CASE Process("run")
  BY <1>5, ProcessType
<1>6. CASE Scan
  <2>1. FirstOf(Overdue, PendingCount) \subseteq EventIds
    BY StaleDelivered DEF FirstOf, Overdue
  <2>2. QED
    BY <1>6, <2>1 DEF Scan, streamVars, groupVars, dbVars, budgetVars
<1>7. CASE Claim
  <2>1. PICK m \in work["reclaim"] :
          /\ Take("reclaim", m)
          /\ m \in stale
          /\ ClaimEffect(m)
          /\ cur' = [cur EXCEPT !["reclaim"] = m]
          /\ \/ Goto("reclaim", "dlqAdd") /\ UNCHANGED attempts
             \/ Enter("reclaim", m)
    BY <1>7 DEF Claim
  <2>2. m \in EventIds /\ m # 0
    BY <2>1, NumEventsAssumption DEF EventIds
  <2>3. deliveries' \in [EventIds -> Nat] /\ stale' \subseteq pel
    BY <2>1, <2>2 DEF ClaimEffect
  <2>4. pc' \in [Threads -> PCs] /\ attempts' \in [EventIds -> Nat] /\ pc'["reclaim"] # "loop"
        /\ pc'["run"] = pc["run"]
    BY <2>1, <2>2 DEF Enter, Goto, FirstCall
  <2>5. work' \in [Threads -> SUBSET EventIds]
    BY <2>1 DEF Take
  <2>6. QED
    BY <1>7, <2>1, <2>2, <2>3, <2>4, <2>5 DEF Claim, streamVars, dbVars, budgetVars
<1>8. CASE ClaimSkip
  <2>1. PICK m \in work["reclaim"] :
          /\ Take("reclaim", m)
          /\ \/ UNCHANGED <<deliveries, stale, faults>>
             \/ RedisFails("claim") /\ UNCHANGED <<deliveries, stale>>
             \/ RedisFails("claim") /\ m \in stale /\ ClaimEffect(m)
    BY <1>8 DEF ClaimSkip
  <2>2. faults' \in 0..MaxRedisFaults
    BY <2>1, BoundsAssumption DEF RedisFails
  <2>3. deliveries' \in [EventIds -> Nat] /\ stale' \subseteq pel
    <3>1. m \in EventIds
      BY <2>1
    <3>2. CASE ClaimEffect(m)
      <4>1. deliveries' = [deliveries EXCEPT ![m] = @ + 1]
        BY <3>2 DEF ClaimEffect
      <4>2. stale' \subseteq pel
        BY <3>2 DEF ClaimEffect
      <4>3. QED BY <3>1, <4>1, <4>2
    <3>3. CASE UNCHANGED <<deliveries, stale>>
      BY <3>3
    <3>4. QED BY <2>1, <3>2, <3>3
  <2>4. work' \in [Threads -> SUBSET EventIds]
    BY <2>1 DEF Take
  <2>5. QED
    BY <1>8, <2>2, <2>3, <2>4 DEF ClaimSkip, streamVars, dbVars
<1>9. CASE Process("reclaim")
  BY <1>9, ProcessType
<1>10. CASE Crash
  BY <1>10, BoundsAssumption DEF Crash, streamVars, groupVars, dbVars
<1>11. CASE UNCHANGED vars
  BY <1>11 DEF vars, streamVars, groupVars, dbVars, workerVars, budgetVars
<1>12. QED
  BY <1>1, <1>2, <1>3, <1>4, <1>5, <1>6, <1>7, <1>8, <1>9, <1>10, <1>11
     DEF Next, RunStep, ReclaimStep

(***************************************************************************)
(* The state of the stream, of the consumer group, of the database and of  *)
(* the two goroutines stays within its type.                               *)
(***************************************************************************)
THEOREM TypeCorrect == Spec => []TypeOK
<1>1. QED BY InitType, NextType, PTL DEF Spec

-----------------------------------------------------------------------------
(* The number of attempts.                                                 *)

\* What processing an entry leaves alone, and what it does to cur and dlq.
LEMMA ProcessFrame ==
    ASSUME TypeOK, NEW t \in Threads, Process(t)
    PROVE  /\ UNCHANGED <<produced, lastDelivered, deliveries, work, seen, attempts>>
           /\ cur[t] \in EventIds
           /\ \A u \in Threads : cur'[u] \in {0, cur[u]}
           /\ \A m \in EventIds : m # cur[t] => dlq'[m] = dlq[m]
           /\ \A m \in EventIds : dlq'[m] >= dlq[m] /\ stored'[m] >= stored[m]
           /\ refused \subseteq refused'
<1>1. UNCHANGED <<produced, lastDelivered, deliveries, work, seen, attempts>>
  BY DEF Process, Upsert, Insert, Notify, DlqAdd, Ack, streamVars, groupVars
<1>2. pc[t] # "loop" /\ cur[t] \in EventIds
  BY DEF TypeOK, Process, Upsert, Insert, Notify, DlqAdd, Ack
<1>3. cur' = cur \/ cur' = [cur EXCEPT ![t] = 0]
  BY DEF Process, Upsert, Insert, Notify, DlqAdd, Ack, Done
<1>4. dlq' = dlq \/ dlq' = [dlq EXCEPT ![cur[t]] = @ + 1]
  BY DEF Process, Upsert, Insert, Notify, DlqAdd, Ack
<1>5. stored' = stored \/ stored' = [stored EXCEPT ![cur[t]] = @ + 1]
  BY DEF Process, Upsert, Insert, Notify, DlqAdd, Ack, dbVars
<1>6. \A u \in Threads : cur'[u] \in {0, cur[u]}
  BY <1>3 DEF TypeOK
<1>7. /\ \A m \in EventIds : m # cur[t] => dlq'[m] = dlq[m]
      /\ \A m \in EventIds : dlq'[m] >= dlq[m]
  BY <1>2, <1>4 DEF TypeOK
<1>8. \A m \in EventIds : stored'[m] >= stored[m]
  BY <1>2, <1>5 DEF TypeOK
<1>9. refused \subseteq refused'
  BY DEF Process, Upsert, Insert, Notify, DlqAdd, Ack
<1>10. QED BY <1>1, <1>2, <1>6, <1>7, <1>8, <1>9

LEMMA Segment ==
    ASSUME NEW a \in Nat, NEW b \in Nat, a < b
    PROVE  \A x : x \in (a + 1)..b <=> x \in 1..b /\ x > a
OBVIOUS

LEMMA InitAttempts == Init => AttemptsInv
<1> SUFFICES ASSUME Init PROVE AttemptsInv
  OBVIOUS
<1>1. TypeOK
  BY InitType
<1>2. HeldDelivered /\ UnreadUntouched /\ SnapshotCurrent /\ AttemptsCounted
  BY DEF Init, Threads, HeldDelivered, UnreadUntouched, SnapshotCurrent, AttemptsCounted
<1>3. QED BY <1>1, <1>2 DEF AttemptsInv

LEMMA NextAttempts == AttemptsInv /\ [Next]_vars => AttemptsInv'
<1> SUFFICES ASSUME AttemptsInv, [Next]_vars
             PROVE  AttemptsInv'
  OBVIOUS
<1> DEFINE Parts == HeldDelivered /\ UnreadUntouched /\ SnapshotCurrent /\ AttemptsCounted
<1>1. TypeOK /\ TypeOK' /\ Parts
  BY NextType DEF AttemptsInv
<1> SUFFICES Parts'
  BY <1>1 DEF AttemptsInv
<1>2. ASSUME UNCHANGED <<lastDelivered, deliveries, work, cur, seen, attempts, dlq>>
      PROVE  Parts'
  BY <1>1, <1>2 DEF HeldDelivered, UnreadUntouched, SnapshotCurrent, AttemptsCounted, DueIn
<1>3. ASSUME NEW t \in Threads, Process(t)
      PROVE  Parts'
  <2>1. /\ UNCHANGED <<lastDelivered, deliveries, work, seen, attempts>>
        /\ cur[t] \in EventIds
        /\ \A u \in Threads : cur'[u] \in {0, cur[u]}
        /\ \A m \in EventIds : m # cur[t] => dlq'[m] = dlq[m]
    BY <1>1, <1>3, ProcessFrame
  <2>2. HeldDelivered'
    <3>1. lastDelivered \in Nat
      BY <1>1, NumEventsAssumption DEF TypeOK
    <3>2. QED BY <1>1, <2>1, <3>1 DEF HeldDelivered
  <2>3. UnreadUntouched'
    <3>1. SUFFICES ASSUME NEW m \in EventIds, m > lastDelivered
                   PROVE  attempts[m] = 0 /\ dlq'[m] = 0
      BY <2>1 DEF UnreadUntouched
    <3>2. m # cur[t]
      BY <1>1, <3>1, NumEventsAssumption DEF HeldDelivered, TypeOK, EventIds
    <3>3. QED BY <1>1, <2>1, <3>1, <3>2 DEF UnreadUntouched
  <2>4. SnapshotCurrent' /\ AttemptsCounted'
    BY <1>1, <2>1 DEF SnapshotCurrent, AttemptsCounted, DueIn
  <2>5. QED BY <2>2, <2>3, <2>4
<1>4. CASE Read
  <2> DEFINE batch == FirstOf((lastDelivered + 1)..produced, ReadCount)
  <2>0. produced \in Nat /\ lastDelivered \in Nat /\ lastDelivered < produced
        /\ produced <= NumEvents /\ NumEvents \in Nat
    BY <1>1, <1>4, NumEventsAssumption DEF Read, TypeOK
  <2>1. PICK last \in Nat : /\ last = LastOf(batch)
                            /\ last > lastDelivered
                            /\ last <= produced
                            /\ batch = (lastDelivered + 1)..last
    BY <2>0, ReadBatch
  <2>2. \A x : x \in batch <=> x \in 1..last /\ x > lastDelivered
    BY <2>0, <2>1, Segment
  <2> HIDE DEF batch
  <2>3. /\ lastDelivered' = last
        /\ deliveries' = [m \in EventIds |-> IF m \in batch THEN 1 ELSE deliveries[m]]
        /\ work' = [work EXCEPT !["run"] = batch] \/ work' = work
        /\ work["run"] = {}
        /\ UNCHANGED <<cur, seen, attempts, dlq>>
    BY <1>4, <2>1 DEF Read, batch
  <2>4. 1..last \subseteq EventIds /\ 1..lastDelivered \subseteq 1..last
    BY <2>0, <2>1 DEF EventIds
  <2>5. work'["reclaim"] = work["reclaim"] /\ work'["run"] \subseteq batch
    BY <1>1, <2>3 DEF TypeOK, Threads
  <2>6. HeldDelivered'
    <3>1. \A t \in Threads : work'[t] \subseteq 1..last
      BY <1>1, <2>2, <2>4, <2>5 DEF HeldDelivered, Threads
    <3>2. \A t \in Threads : cur[t] <= last
      <4>1. \A t \in Threads : cur[t] <= lastDelivered /\ cur[t] \in Int
        BY <1>1, <2>0 DEF HeldDelivered, TypeOK, EventIds
      <4>2. QED BY <2>0, <2>1, <4>1
    <3>3. QED BY <2>3, <3>1, <3>2 DEF HeldDelivered
  <2>7. UnreadUntouched'
    <3>1. SUFFICES ASSUME NEW m \in EventIds, m > last
                   PROVE  attempts[m] = 0 /\ dlq[m] = 0
      BY <2>3 DEF UnreadUntouched
    <3>2. m > lastDelivered
      BY <2>0, <2>1, <3>1 DEF EventIds
    <3>3. QED BY <1>1, <3>1, <3>2 DEF UnreadUntouched
  <2>8. SnapshotCurrent'
    <3>1. \A m \in work["reclaim"] : m \notin batch /\ m \in EventIds
      BY <1>1, <2>0, <2>2, <2>4 DEF HeldDelivered, Threads
    <3>2. QED BY <1>1, <2>3, <2>5, <3>1 DEF SnapshotCurrent
  <2>9. AttemptsCounted'
    <3>1. SUFFICES ASSUME NEW m \in 1..last
                   PROVE  /\ attempts[m] + DueIn(m)' <= deliveries'[m]
                          /\ attempts[m] + DueIn(m)' <= MaxDeliveryCount + 1
      BY <2>3 DEF AttemptsCounted
    <3>2. CASE m \in batch
      <4>1. attempts[m] = 0 /\ deliveries'[m] = 1
        BY <1>1, <2>2, <2>3, <2>4, <3>1, <3>2 DEF UnreadUntouched
      <4>2. QED BY <4>1, DeliveryAssumption DEF DueIn
    <3>3. CASE m \notin batch
      <4>1. m \in 1..lastDelivered
        BY <2>0, <2>2, <3>1, <3>3
      <4>2. deliveries'[m] = deliveries[m] /\ DueIn(m)' = DueIn(m)
        BY <2>3, <2>4, <2>5, <3>1, <3>3 DEF DueIn
      <4>3. QED BY <1>1, <4>1, <4>2 DEF AttemptsCounted
    <3>4. QED BY <3>2, <3>3
  <2>10. QED BY <2>6, <2>7, <2>8, <2>9
<1>5. CASE Begin
  <2>1. PICK m \in work["run"] : /\ Take("run", m)
                                 /\ cur' = [cur EXCEPT !["run"] = m]
                                 /\ Enter("run", m)
    BY <1>5 DEF Begin
  <2>2. m \in EventIds /\ m \in 1..lastDelivered /\ lastDelivered \in Nat
    BY <1>1, <2>1, NumEventsAssumption DEF HeldDelivered, Threads, TypeOK, EventIds
  <2>3. /\ UNCHANGED <<lastDelivered, deliveries, seen, dlq>>
        /\ work' = [work EXCEPT !["run"] = @ \ {m}]
        /\ attempts' = [attempts EXCEPT ![m] = @ + 1]
    BY <1>5, <2>1 DEF Begin, Take, Enter, streamVars, groupVars
  <2>4. /\ work'["run"] = work["run"] \ {m}
        /\ work'["reclaim"] = work["reclaim"]
    BY <1>1, <2>3 DEF TypeOK, Threads
  <2>5. HeldDelivered'
    BY <1>1, <2>1, <2>2, <2>3, <2>4 DEF HeldDelivered, TypeOK, Threads
  <2>6. UnreadUntouched'
    BY <1>1, <2>2, <2>3 DEF UnreadUntouched, TypeOK
  <2>7. SnapshotCurrent'
    BY <1>1, <2>3, <2>4 DEF SnapshotCurrent
  <2>8. AttemptsCounted'
    <3>1. SUFFICES ASSUME NEW k \in 1..lastDelivered
                   PROVE  /\ attempts'[k] + DueIn(k)' <= deliveries[k]
                          /\ attempts'[k] + DueIn(k)' <= MaxDeliveryCount + 1
      BY <2>3 DEF AttemptsCounted
    <3>2. attempts'[k] + DueIn(k)' = attempts[k] + DueIn(k)
      <4>1. k \in EventIds
        BY <1>1, StaleDelivered
      <4>2. CASE k = m
        <5>1. attempts'[k] = attempts[k] + 1 /\ attempts[k] \in Nat
          BY <1>1, <2>3, <4>1, <4>2 DEF TypeOK
        <5>2. DueIn(k)' = 0 /\ DueIn(k) = 1
          BY <2>1, <2>4, <4>2 DEF DueIn
        <5>3. QED BY <5>1, <5>2
      <4>3. CASE k # m
        BY <1>1, <2>3, <2>4, <4>1, <4>3 DEF TypeOK, DueIn
      <4>4. QED BY <4>2, <4>3
    <3>3. QED BY <1>1, <3>2 DEF AttemptsCounted
  <2>9. QED BY <2>5, <2>6, <2>7, <2>8
<1>6. CASE Scan
  <2>1. /\ UNCHANGED <<lastDelivered, deliveries, cur, attempts, dlq>>
        /\ work' = [work EXCEPT !["reclaim"] = FirstOf(Overdue, PendingCount)]
        /\ seen' = [m \in EventIds |-> IF m \in work'["reclaim"] THEN deliveries[m] ELSE 0]
    BY <1>6 DEF Scan, streamVars, groupVars
  <2>2. /\ work'["run"] = work["run"]
        /\ work'["reclaim"] \subseteq stale
    BY <1>1, <2>1 DEF TypeOK, Threads, FirstOf, Overdue
  <2>3. stale \subseteq 1..lastDelivered /\ stale \subseteq EventIds
    BY <1>1, StaleDelivered
  <2>4. HeldDelivered'
    BY <1>1, <2>1, <2>2, <2>3 DEF HeldDelivered, Threads
  <2>5. UnreadUntouched' /\ AttemptsCounted'
    BY <1>1, <2>1, <2>2 DEF UnreadUntouched, AttemptsCounted, DueIn
  <2>6. SnapshotCurrent'
    BY <2>1, <2>2, <2>3 DEF SnapshotCurrent
  <2>7. QED BY <2>4, <2>5, <2>6
<1>7. ASSUME NEW m \in work["reclaim"], m \in stale,
             Take("reclaim", m), ClaimEffect(m),
             cur' \in {cur, [cur EXCEPT !["reclaim"] = m]},
             \/ attempts' = attempts
             \/ ~Exhausted(m) /\ attempts' = [attempts EXCEPT ![m] = @ + 1],
             UNCHANGED <<lastDelivered, seen, dlq>>
      PROVE  Parts'
  <2>1. m \in EventIds /\ m \in 1..lastDelivered /\ lastDelivered \in Nat
    BY <1>1, <1>7, NumEventsAssumption DEF HeldDelivered, Threads, TypeOK, EventIds
  <2>2. /\ work'["run"] = work["run"]
        /\ work'["reclaim"] = work["reclaim"] \ {m}
    BY <1>1, <1>7 DEF Take, TypeOK, Threads
  <2>3. /\ deliveries'[m] = deliveries[m] + 1
        /\ \A k \in EventIds : k # m => deliveries'[k] = deliveries[k]
        /\ \A k \in EventIds : deliveries[k] \in Nat /\ attempts[k] \in Nat
    BY <1>1, <1>7, <2>1 DEF ClaimEffect, TypeOK
  <2>4. HeldDelivered'
    BY <1>1, <1>7, <2>1, <2>2 DEF HeldDelivered, TypeOK, Threads
  <2>5. UnreadUntouched'
    BY <1>1, <1>7, <2>1, <2>3 DEF UnreadUntouched, TypeOK
  <2>6. SnapshotCurrent'
    BY <1>1, <1>7, <2>2, <2>3 DEF SnapshotCurrent, TypeOK, Threads
  <2>7. AttemptsCounted'
    <3>1. SUFFICES ASSUME NEW k \in 1..lastDelivered
                   PROVE  /\ attempts'[k] + DueIn(k) <= deliveries'[k]
                          /\ attempts'[k] + DueIn(k) <= MaxDeliveryCount + 1
      BY <1>7, <2>2 DEF AttemptsCounted, DueIn
    <3>2. k \in EventIds /\ DueIn(k) \in Nat
      BY <1>1, StaleDelivered DEF DueIn
    <3>3. /\ attempts[k] + DueIn(k) <= deliveries[k]
          /\ attempts[k] + DueIn(k) <= MaxDeliveryCount + 1
      BY <1>1 DEF AttemptsCounted
    <3>4. CASE attempts'[k] = attempts[k]
      BY <2>3, <3>2, <3>3, <3>4
    <3>5. CASE attempts'[k] # attempts[k]
      <4>1. k = m /\ attempts'[k] = attempts[k] + 1 /\ ~Exhausted(m)
        BY <1>1, <1>7, <2>1, <3>2, <3>5 DEF TypeOK
      <4>2. deliveries[m] <= MaxDeliveryCount
        BY <1>1, <1>7, <2>1, <2>3, <4>1, DeliveryAssumption DEF SnapshotCurrent, Exhausted
      <4>3. QED BY <2>3, <3>2, <3>3, <4>1, <4>2, DeliveryAssumption
    <3>6. QED BY <3>4, <3>5
  <2>8. QED BY <2>4, <2>5, <2>6, <2>7
<1>8. CASE Claim
  BY <1>7, <1>8 DEF Claim, Enter, streamVars
<1>9. CASE ClaimSkip
  <2>1. PICK m \in work["reclaim"] :
          /\ Take("reclaim", m)
          /\ \/ UNCHANGED <<deliveries, stale>>
             \/ m \in stale /\ ClaimEffect(m)
    BY <1>9 DEF ClaimSkip
  <2>2. UNCHANGED <<lastDelivered, cur, seen, attempts, dlq>>
    BY <1>9 DEF ClaimSkip, streamVars
  <2>3. CASE m \in stale /\ ClaimEffect(m)
    BY <1>7, <2>1, <2>2, <2>3
  <2>4. CASE UNCHANGED <<deliveries, stale>>
    <3>1. work'["run"] = work["run"] /\ work'["reclaim"] \subseteq work["reclaim"]
      BY <1>1, <2>1 DEF Take, TypeOK, Threads
    <3>2. QED
      BY <1>1, <2>2, <2>4, <3>1 DEF HeldDelivered, UnreadUntouched, SnapshotCurrent,
         AttemptsCounted, DueIn, Threads
  <2>5. QED BY <2>1, <2>3, <2>4
<1>10. CASE Crash
  <2>1. /\ UNCHANGED <<lastDelivered, deliveries, attempts, dlq>>
        /\ work' = [t \in Threads |-> {}]
        /\ cur' = [t \in Threads |-> 0]
    BY <1>10 DEF Crash, streamVars, groupVars
  <2>2. HeldDelivered' /\ SnapshotCurrent' /\ UnreadUntouched'
    BY <1>1, <2>1, NumEventsAssumption
       DEF HeldDelivered, SnapshotCurrent, UnreadUntouched, Threads, TypeOK
  <2>3. AttemptsCounted'
    <3>1. SUFFICES ASSUME NEW k \in 1..lastDelivered
                   PROVE  /\ attempts[k] <= deliveries[k]
                          /\ attempts[k] <= MaxDeliveryCount + 1
      BY <1>1, <2>1, StaleDelivered DEF AttemptsCounted, DueIn, Threads, TypeOK
    <3>2. attempts[k] \in Nat /\ deliveries[k] \in Nat /\ DueIn(k) \in Nat
      BY <1>1, StaleDelivered DEF TypeOK, DueIn
    <3>3. QED BY <1>1, <3>2, DeliveryAssumption DEF AttemptsCounted
  <2>4. QED BY <2>2, <2>3
<1>11. CASE Push \/ (\E m \in EventIds : BecomeStale(m)) \/ UNCHANGED vars
  BY <1>2, <1>11 DEF Push, BecomeStale, vars, streamVars, groupVars, workerVars
<1>12. QED
  BY <1>3, <1>4, <1>5, <1>6, <1>8, <1>9, <1>10, <1>11
     DEF Next, RunStep, ReclaimStep, Threads

(***************************************************************************)
(* processMessage never runs more than MaxDeliveryCount + 1 times for an   *)
(* entry.  Inductively, each attempt has a delivery of its own, and the    *)
(* reclaim loop, the only one to claim, sees the current delivery count.   *)
(***************************************************************************)
THEOREM AttemptsAreBounded == Spec => []AttemptsBounded
<1>1. AttemptsInv => AttemptsBounded
  <2>1. SUFFICES ASSUME AttemptsInv, NEW m \in EventIds
                 PROVE  attempts[m] <= MaxDeliveryCount + 1
    BY DEF AttemptsBounded
  <2>2. attempts[m] \in Nat /\ DueIn(m) \in Nat /\ lastDelivered \in Nat
    BY <2>1, NumEventsAssumption DEF AttemptsInv, TypeOK, DueIn
  <2>3. CASE m > lastDelivered
    BY <2>1, <2>3, DeliveryAssumption DEF AttemptsInv, UnreadUntouched
  <2>4. CASE m <= lastDelivered
    <3>1. m \in 1..lastDelivered
      BY <2>2, <2>4 DEF EventIds
    <3>2. QED BY <2>1, <2>2, <3>1, DeliveryAssumption DEF AttemptsInv, AttemptsCounted
  <2>5. QED BY <2>2, <2>3, <2>4 DEF EventIds
<1>2. QED BY <1>1, InitAttempts, NextAttempts, PTL DEF Spec

-----------------------------------------------------------------------------
(* The dead-letter stream.                                                 *)

LEMMA NextDead == DeadInv /\ [Next]_vars => DeadInv'
<1> SUFFICES ASSUME DeadInv, [Next]_vars
             PROVE  DeadInv'
  OBVIOUS
<1>1. /\ AttemptsInv /\ AttemptsInv' /\ BuryJustified /\ DeadAfterRetries
      /\ TypeOK /\ TypeOK'
  BY NextAttempts DEF DeadInv, AttemptsInv
<1> SUFFICES BuryJustified' /\ DeadAfterRetries'
  BY <1>1 DEF DeadInv
<1> USE DeliveryAssumption
<1>2. \A m \in EventIds : deliveries[m] \in Nat /\ dlq[m] \in Nat /\ dlq'[m] \in Nat
  BY <1>1 DEF TypeOK
\* A step that buries nothing and starts to bury nothing keeps both parts.
<1>3. ASSUME \A t \in Threads :
               pc'[t] = "dlqAdd" => \/ pc[t] = "dlqAdd" /\ cur'[t] = cur[t]
                                    \/ cur'[t] \in Malformed,
             \A t \in Threads : pc[t] = "dlqAdd" => cur[t] \in EventIds,
             \A m \in EventIds : dlq[m] > 0 \/ (\E t \in Threads : pc[t] = "dlqAdd" /\ cur[t] = m)
                                 => deliveries'[m] >= deliveries[m],
             dlq' = dlq
      PROVE  BuryJustified' /\ DeadAfterRetries'
  <2>1. ASSUME NEW t \in Threads, pc'[t] = "dlqAdd", cur'[t] \notin Malformed
        PROVE  deliveries'[cur'[t]] >= MaxDeliveryCount + 2
    <3>1. pc[t] = "dlqAdd" /\ cur'[t] = cur[t] /\ cur[t] \in EventIds
      BY <1>3, <2>1
    <3>2. deliveries[cur[t]] >= MaxDeliveryCount + 2
      BY <1>1, <2>1, <3>1 DEF BuryJustified
    <3>3. deliveries'[cur[t]] >= deliveries[cur[t]] /\ deliveries'[cur[t]] \in Nat
      BY <1>1, <1>3, <3>1 DEF TypeOK
    <3>4. QED BY <1>2, <3>1, <3>2, <3>3
  <2>2. ASSUME NEW m \in EventIds \ Malformed, dlq'[m] > 0
        PROVE  deliveries'[m] >= MaxDeliveryCount + 2
    <3>1. dlq[m] > 0 /\ deliveries[m] >= MaxDeliveryCount + 2
      BY <1>1, <1>3, <2>2 DEF DeadAfterRetries, IsDead
    <3>2. deliveries'[m] >= deliveries[m] /\ deliveries'[m] \in Nat
      BY <1>1, <1>3, <3>1 DEF TypeOK
    <3>3. QED BY <1>2, <3>1, <3>2
  <2>3. QED BY <2>1, <2>2 DEF BuryJustified, DeadAfterRetries, IsDead
<1>4. \A t \in Threads : pc[t] # "loop" => cur[t] \in EventIds
  BY <1>1 DEF TypeOK
<1>5. ASSUME UNCHANGED <<pc, cur, deliveries, dlq>>
      PROVE  BuryJustified' /\ DeadAfterRetries'
  BY <1>1, <1>5 DEF BuryJustified, DeadAfterRetries, IsDead
<1>6. ASSUME NEW t \in Threads, Process(t)
      PROVE  BuryJustified' /\ DeadAfterRetries'
  <2>1. deliveries' = deliveries /\ cur[t] \in EventIds
        /\ \A m \in EventIds : m # cur[t] => dlq'[m] = dlq[m]
    BY <1>1, <1>6, ProcessFrame
  <2>2. \A u \in Threads : pc'[u] = "dlqAdd" => pc[u] = "dlqAdd" /\ cur'[u] = cur[u]
    BY <1>1, <1>6 DEF Process, Upsert, Insert, Notify, DlqAdd, Ack, Done, Goto, TypeOK
  <2>3. BuryJustified'
    BY <1>1, <2>1, <2>2 DEF BuryJustified
  <2>4. DeadAfterRetries'
    <3>1. CASE pc[t] = "dlqAdd"
      BY <1>1, <2>1, <3>1 DEF BuryJustified, DeadAfterRetries, IsDead
    <3>2. CASE pc[t] # "dlqAdd"
      <4>1. dlq' = dlq
        BY <1>6, <3>2 DEF Process, Upsert, Insert, Notify, DlqAdd, Ack
      <4>2. QED BY <1>1, <2>1, <4>1 DEF DeadAfterRetries, IsDead
    <3>3. QED BY <3>1, <3>2
  <2>5. QED BY <2>3, <2>4
<1>7. CASE Read
  <2> DEFINE batch == FirstOf((lastDelivered + 1)..produced, ReadCount)
  <2>1. /\ deliveries' = [m \in EventIds |-> IF m \in batch THEN 1 ELSE deliveries[m]]
        /\ UNCHANGED <<pc, cur, dlq>>
    BY <1>7 DEF Read
  <2>2. lastDelivered \in Nat
    BY <1>1, NumEventsAssumption DEF TypeOK
  <2>3. \A m \in batch : m > lastDelivered
    BY <2>2 DEF FirstOf
  <2> HIDE DEF batch
  <2>4. ASSUME NEW m \in EventIds,
               dlq[m] > 0 \/ (\E t \in Threads : pc[t] = "dlqAdd" /\ cur[t] = m)
        PROVE  m \notin batch
    <3>1. CASE dlq[m] > 0
      BY <1>1, <2>3, <3>1 DEF AttemptsInv, UnreadUntouched
    <3>2. CASE \E t \in Threads : pc[t] = "dlqAdd" /\ cur[t] = m
      <4>1. m <= lastDelivered
        BY <1>1, <3>2 DEF AttemptsInv, HeldDelivered
      <4>2. QED BY <2>2, <2>3, <4>1 DEF EventIds
    <3>3. QED BY <2>4, <3>1, <3>2
  <2>5. QED BY <1>2, <1>3, <1>4, <2>1, <2>4
<1>8. CASE Begin
  <2>1. PICK m \in work["run"] : /\ cur' = [cur EXCEPT !["run"] = m]
                                 /\ pc' = [pc EXCEPT !["run"] = FirstCall(m)]
    BY <1>8 DEF Begin, Enter, Goto
  <2>2. deliveries' = deliveries /\ dlq' = dlq
    BY <1>8 DEF Begin, groupVars
  <2>3. FirstCall(m) = "dlqAdd" => m \in Malformed
    BY DEF FirstCall
  <2>4. \A t \in Threads :
          pc'[t] = "dlqAdd" => (pc[t] = "dlqAdd" /\ cur'[t] = cur[t]) \/ cur'[t] \in Malformed
    BY <1>1, <2>1, <2>3 DEF TypeOK
  <2>5. QED BY <1>2, <1>3, <1>4, <2>2, <2>4
<1>9. CASE Claim
  <2>1. PICK m \in work["reclaim"] :
          /\ Take("reclaim", m)
          /\ m \in stale
          /\ ClaimEffect(m)
          /\ cur' = [cur EXCEPT !["reclaim"] = m]
          /\ \/ Exhausted(m) /\ pc' = [pc EXCEPT !["reclaim"] = "dlqAdd"]
             \/ pc' = [pc EXCEPT !["reclaim"] = FirstCall(m)]
    BY <1>9 DEF Claim, Enter, Goto
  <2>2. dlq' = dlq /\ m \in EventIds
    BY <1>1, <1>9, <2>1, StaleDelivered DEF Claim
  <2>3. /\ deliveries'[m] = deliveries[m] + 1
        /\ \A k \in EventIds : k # m => deliveries'[k] = deliveries[k]
    BY <1>1, <2>1, <2>2 DEF ClaimEffect, TypeOK
  <2>4. \A k \in EventIds : deliveries'[k] >= deliveries[k] /\ deliveries'[k] \in Nat
    BY <1>1, <1>2, <2>3 DEF TypeOK
  <2>5. DeadAfterRetries'
    <3>1. SUFFICES ASSUME NEW k \in EventIds \ Malformed, dlq[k] > 0
                   PROVE  deliveries'[k] >= MaxDeliveryCount + 2
      BY <2>2 DEF DeadAfterRetries, IsDead
    <3>2. deliveries[k] >= MaxDeliveryCount + 2
      BY <1>1, <3>1 DEF DeadAfterRetries, IsDead
    <3>3. QED BY <1>2, <2>4, <3>2
  <2>6. BuryJustified'
    <3>1. SUFFICES ASSUME NEW t \in Threads, pc'[t] = "dlqAdd", cur'[t] \notin Malformed
                   PROVE  deliveries'[cur'[t]] >= MaxDeliveryCount + 2
      BY DEF BuryJustified
    <3>2. CASE t = "reclaim"
      <4>1. cur'[t] = m /\ Exhausted(m)
        BY <1>1, <2>1, <3>1, <3>2 DEF TypeOK, FirstCall
      <4>2. deliveries[m] > MaxDeliveryCount
        BY <1>1, <2>1, <4>1 DEF AttemptsInv, SnapshotCurrent, Exhausted
      <4>3. QED BY <1>2, <2>2, <2>3, <4>1, <4>2
    <3>3. CASE t # "reclaim"
      <4>1. pc[t] = "dlqAdd" /\ cur'[t] = cur[t]
        BY <1>1, <2>1, <3>1, <3>3 DEF TypeOK
      <4>2. cur[t] \in EventIds /\ deliveries[cur[t]] >= MaxDeliveryCount + 2
        BY <1>1, <1>4, <3>1, <4>1 DEF BuryJustified
      <4>3. QED BY <1>2, <2>4, <4>1, <4>2
    <3>4. QED BY <3>2, <3>3
  <2>7. QED BY <2>5, <2>6
<1>10. CASE ClaimSkip
  <2>1. UNCHANGED <<pc, cur, dlq>>
    BY <1>10 DEF ClaimSkip
  <2>2. PICK m \in work["reclaim"] : \/ UNCHANGED <<deliveries, stale>>
                                     \/ m \in stale /\ ClaimEffect(m)
    BY <1>10 DEF ClaimSkip
  <2>3. \A k \in EventIds : deliveries'[k] >= deliveries[k]
    <3>1. CASE UNCHANGED <<deliveries, stale>>
      BY <1>2, <3>1
    <3>2. CASE m \in stale /\ ClaimEffect(m)
      BY <1>1, <1>2, <3>2, StaleDelivered DEF ClaimEffect, TypeOK
    <3>3. QED BY <2>2, <3>1, <3>2
  <2>4. QED BY <1>3, <1>4, <2>1, <2>3
<1>11. CASE Crash
  <2>1. deliveries' = deliveries /\ dlq' = dlq /\ pc' = [t \in Threads |-> "loop"]
    BY <1>11 DEF Crash, groupVars
  <2>2. \A t \in Threads : pc'[t] = "loop"
    BY <2>1
  <2>3. BuryJustified'
    BY <2>2 DEF BuryJustified
  <2>4. DeadAfterRetries'
    BY <1>1, <2>1 DEF DeadAfterRetries, IsDead
  <2>5. QED BY <2>3, <2>4
<1>12. CASE Push \/ (\E m \in EventIds : BecomeStale(m)) \/ Scan \/ UNCHANGED vars
  BY <1>5, <1>12 DEF Push, BecomeStale, Scan, vars, groupVars, workerVars
<1>13. QED
  BY <1>6, <1>7, <1>8, <1>9, <1>10, <1>11, <1>12
     DEF Next, RunStep, ReclaimStep, Threads

(***************************************************************************)
(* An event that parses is buried only once its retries have run out, so a *)
(* passing failure of Postgres never sends an event to the dead-letter     *)
(* stream early.                                                           *)
(***************************************************************************)
THEOREM DeadOnlyAfterRetries == Spec => []DeadAfterRetries
<1>1. Init => DeadInv
  <2>1. SUFFICES ASSUME Init PROVE BuryJustified /\ DeadAfterRetries
    BY InitAttempts DEF DeadInv
  <2>2. QED BY <2>1 DEF Init, BuryJustified, DeadAfterRetries, IsDead
<1>2. DeadInv => DeadAfterRetries
  BY DEF DeadInv
<1>3. QED BY <1>1, <1>2, NextDead, PTL DEF Spec

-----------------------------------------------------------------------------
(* At-least-once delivery.                                                 *)

\* What a step may do to the entries' homes: rows and dead letters only
\* accumulate, and the pending list only loses entries that are safe.
LEMMA NextSafe == SafeInv /\ [Next]_vars => SafeInv'
<1> SUFFICES ASSUME SafeInv, [Next]_vars
             PROVE  SafeInv'
  OBVIOUS
<1>1. /\ AttemptsInv /\ AttemptsInv' /\ AckJustified /\ AckedIsSafe
      /\ TypeOK /\ TypeOK'
  BY NextAttempts DEF SafeInv, AttemptsInv
<1> SUFFICES AckJustified' /\ AckedIsSafe'
  BY <1>1 DEF SafeInv
<1>2. /\ \A m \in EventIds : stored[m] \in Nat /\ stored'[m] \in Nat
                             /\ dlq[m] \in Nat /\ dlq'[m] \in Nat
      /\ 1..lastDelivered \subseteq EventIds
  BY <1>1, StaleDelivered DEF TypeOK
<1>3. ASSUME UNCHANGED <<lastDelivered, pel, stored, dlq, refused>>
      PROVE  AckedIsSafe'
  BY <1>1, <1>3 DEF AckedIsSafe, Settled, IsStored, IsDead
<1>4. ASSUME UNCHANGED <<stored, dlq, refused>>,
             \A t \in Threads : pc'[t] \in {"notify", "ack"}
                                  => pc'[t] = pc[t] /\ cur'[t] = cur[t]
      PROVE  AckJustified'
  BY <1>1, <1>4 DEF AckJustified, IsStored, IsDead
<1>5. ASSUME NEW t \in Threads, Process(t)
      PROVE  AckJustified' /\ AckedIsSafe'
  <2>1. /\ lastDelivered' = lastDelivered
        /\ cur[t] \in EventIds
        /\ \A m \in EventIds : dlq'[m] >= dlq[m] /\ stored'[m] >= stored[m]
        /\ refused \subseteq refused'
    BY <1>1, <1>5, ProcessFrame
  <2>2. \A m \in EventIds : /\ stored[m] > 0 => stored'[m] > 0
                            /\ dlq[m] > 0 => dlq'[m] > 0
    BY <1>2, <2>1
  <2>3. \A u \in Threads : u # t => pc'[u] = pc[u] /\ cur'[u] = cur[u]
    BY <1>1, <1>5 DEF Process, Upsert, Insert, Notify, DlqAdd, Ack, Done, Goto, TypeOK
  <2>4. ASSUME /\ pc'[t] = "notify" => stored'[cur'[t]] > 0
               /\ pc'[t] = "ack" => \/ stored'[cur'[t]] > 0
                                    \/ dlq'[cur'[t]] > 0
                                    \/ cur'[t] \in refused'
        PROVE  AckJustified'
    <3>1. ASSUME NEW u \in Threads
          PROVE  /\ pc'[u] = "notify" => stored'[cur'[u]] > 0
                 /\ pc'[u] = "ack" => \/ stored'[cur'[u]] > 0
                                      \/ dlq'[cur'[u]] > 0
                                      \/ cur'[u] \in refused'
      <4>1. CASE u = t
        BY <2>4, <4>1
      <4>2. CASE u # t
        <5>1. pc'[u] = pc[u] /\ cur'[u] = cur[u]
          BY <2>3, <4>2
        <5>2. pc[u] \in {"notify", "ack"} => cur[u] \in EventIds
          BY <1>1 DEF TypeOK
        <5>3. QED BY <1>1, <2>1, <2>2, <5>1, <5>2 DEF AckJustified, IsStored, IsDead
      <4>3. QED BY <4>1, <4>2
    <3>2. QED BY <3>1 DEF AckJustified, IsStored, IsDead
  <2>5. pel' = pel => AckedIsSafe'
    BY <1>1, <1>2, <2>1, <2>2 DEF AckedIsSafe, Settled, IsStored, IsDead
  <2>6. CASE Upsert(t)
    <3>1. pc'[t] \notin {"notify", "ack"} /\ pel' = pel
      BY <1>1, <2>6 DEF Upsert, Done, Goto, TypeOK, groupVars
    <3>2. QED BY <2>4, <2>5, <3>1
  <2>7. CASE Insert(t)
    <3>1. pel' = pel /\ pc'[t] # "ack"
      BY <1>1, <2>7 DEF Insert, Done, Goto, TypeOK, groupVars
    <3>2. pc'[t] = "notify" => cur' = cur /\ stored'[cur[t]] = stored[cur[t]] + 1
      BY <1>1, <2>1, <2>7 DEF Insert, Done, Goto, TypeOK
    <3>3. pc'[t] = "notify" => stored'[cur'[t]] > 0
      BY <1>2, <2>1, <3>2
    <3>4. QED BY <2>4, <2>5, <3>1, <3>3
  <2>8. CASE Notify(t)
    <3>1. pel' = pel /\ pc[t] = "notify" /\ pc'[t] = "ack" /\ cur' = cur
      BY <1>1, <2>8 DEF Notify, Goto, TypeOK, groupVars
    <3>2. stored[cur[t]] > 0
      BY <1>1, <3>1 DEF AckJustified, IsStored
    <3>3. QED BY <2>1, <2>2, <2>4, <2>5, <3>1, <3>2
  <2>9. CASE DlqAdd(t)
    <3>1. /\ pel' = pel /\ pc'[t] = "ack" /\ cur' = cur
          /\ \/ dlq' = [dlq EXCEPT ![cur[t]] = @ + 1]
             \/ cur[t] \in refused'
      BY <1>1, <2>9 DEF DlqAdd, Goto, TypeOK, groupVars
    <3>2. dlq'[cur[t]] > 0 \/ cur[t] \in refused'
      BY <1>1, <1>2, <2>1, <3>1 DEF TypeOK
    <3>3. QED BY <2>4, <2>5, <3>1, <3>2
  <2>10. CASE Ack(t)
    <3>1. pel' \in {pel, pel \ {cur[t]}} /\ pc[t] = "ack" /\ pc'[t] = "loop"
      BY <1>1, <2>10 DEF Ack, Done, Goto, TypeOK
    <3>2. IsStored(cur[t]) \/ IsDead(cur[t]) \/ cur[t] \in refused
      BY <1>1, <3>1 DEF AckJustified
    <3>3. AckedIsSafe'
      <4>1. SUFFICES ASSUME NEW m \in (1..lastDelivered) \ pel'
                     PROVE  IsStored(m)' \/ IsDead(m)' \/ m \in refused'
        BY <2>1 DEF AckedIsSafe, Settled, IsStored, IsDead
      <4>2. m = cur[t] \/ m \notin pel
        BY <3>1
      <4>3. IsStored(m) \/ IsDead(m) \/ m \in refused
        BY <1>1, <3>2, <4>2 DEF AckedIsSafe, Settled
      <4>4. m \in EventIds
        BY <1>2
      <4>5. QED BY <2>1, <2>2, <4>3, <4>4 DEF IsStored, IsDead
    <3>4. QED BY <2>4, <3>1, <3>3
  <2>11. QED BY <1>5, <2>6, <2>7, <2>8, <2>9, <2>10 DEF Process
<1>6. CASE Read
  <2> DEFINE batch == FirstOf((lastDelivered + 1)..produced, ReadCount)
  <2>0. produced \in Nat /\ lastDelivered \in Nat /\ lastDelivered < produced
    BY <1>1, <1>6, NumEventsAssumption DEF Read, TypeOK
  <2>1. PICK last \in Nat : /\ last = LastOf(batch)
                            /\ last > lastDelivered
                            /\ batch = (lastDelivered + 1)..last
    BY <2>0, ReadBatch
  <2>2. \A x : x \in batch <=> x \in 1..last /\ x > lastDelivered
    BY <2>0, <2>1, Segment
  <2>3. /\ lastDelivered' = last
        /\ pel' = pel \cup batch
        /\ UNCHANGED <<pc, cur, stored, dlq, refused>>
    BY <1>6, <2>1 DEF Read, Delivered, dbVars
  <2> HIDE DEF batch
  <2>4. (1..last) \ pel' \subseteq (1..lastDelivered) \ pel
    BY <2>0, <2>2, <2>3
  <2>5. AckedIsSafe'
    BY <1>1, <2>3, <2>4 DEF AckedIsSafe, Settled, IsStored, IsDead
  <2>6. QED BY <1>4, <2>3, <2>5
<1>7. CASE Begin
  <2>1. PICK m \in work["run"] : pc' = [pc EXCEPT !["run"] = FirstCall(m)]
                                 /\ cur' = [cur EXCEPT !["run"] = m]
    BY <1>7 DEF Begin, Enter, Goto
  <2>2. \A t \in Threads : pc'[t] \in {"notify", "ack"} => pc'[t] = pc[t] /\ cur'[t] = cur[t]
    BY <1>1, <2>1 DEF FirstCall, TypeOK
  <2>3. QED BY <1>3, <1>4, <1>7, <2>2 DEF Begin, streamVars, groupVars, dbVars
<1>8. CASE Claim
  <2>1. PICK m \in work["reclaim"] :
          /\ \/ pc' = [pc EXCEPT !["reclaim"] = FirstCall(m)]
             \/ pc' = [pc EXCEPT !["reclaim"] = "dlqAdd"]
          /\ cur' = [cur EXCEPT !["reclaim"] = m]
    BY <1>8 DEF Claim, Enter, Goto
  <2>2. \A t \in Threads : pc'[t] \in {"notify", "ack"} => pc'[t] = pc[t] /\ cur'[t] = cur[t]
    BY <1>1, <2>1 DEF FirstCall, TypeOK
  <2>3. QED BY <1>3, <1>4, <1>8, <2>2 DEF Claim, streamVars, dbVars
<1>9. CASE Crash
  <2>1. \A t \in Threads : pc'[t] = "loop"
    BY <1>9 DEF Crash
  <2>2. QED BY <1>3, <1>4, <1>9, <2>1 DEF Crash, streamVars, groupVars, dbVars
<1>10. CASE Push \/ (\E m \in EventIds : BecomeStale(m)) \/ Scan \/ ClaimSkip \/ UNCHANGED vars
  BY <1>3, <1>4, <1>10 DEF Push, BecomeStale, Scan, ClaimSkip, vars, streamVars,
     groupVars, dbVars, workerVars
<1>11. QED
  BY <1>5, <1>6, <1>7, <1>8, <1>9, <1>10
     DEF Next, RunStep, ReclaimStep, Threads

LEMMA InitSafe == Init => SafeInv
<1> SUFFICES ASSUME Init PROVE AckJustified /\ AckedIsSafe
  BY InitAttempts DEF SafeInv
<1>1. AckJustified
  BY DEF Init, AckJustified
<1>2. Settled = {}
  BY DEF Init, Settled
<1>3. QED BY <1>1, <1>2 DEF AckedIsSafe

(***************************************************************************)
(* An acknowledged entry is a row of events or an entry of the dead-letter *)
(* stream, but for those whose XADD in moveToDLQ was reported as failed:   *)
(* no crash, no lost reply, no failing statement and no interleaving loses *)
(* any other event.                                                        *)
(***************************************************************************)
THEOREM AcknowledgedIsSafe == Spec => []AckedIsSafe
<1>1. SafeInv => AckedIsSafe
  BY DEF SafeInv
<1>2. QED BY <1>1, InitSafe, NextSafe, PTL DEF Spec

(***************************************************************************)
(* So nothing at all is lost where that XADD does not fail.                *)
(***************************************************************************)
COROLLARY NothingIsLost ==
    ASSUME "dlqAdd" \notin Faults
    PROVE  Spec => [](\A m \in Settled : IsStored(m) \/ IsDead(m))
<1> DEFINE NoneRefused == refused = {}
           NoneLost    == \A m \in Settled : IsStored(m) \/ IsDead(m)
<1>1. Init => NoneRefused
  BY DEF Init
<1>2. NoneRefused /\ [Next]_vars => NoneRefused'
  BY DEF Next, Push, BecomeStale, RunStep, ReclaimStep, Read, Begin, Scan, Claim,
     ClaimSkip, Process, Upsert, Insert, Notify, DlqAdd, Ack, Crash, RedisFails, vars
<1>3. AckedIsSafe /\ NoneRefused => NoneLost
  BY DEF AckedIsSafe
<1> HIDE DEF NoneRefused, NoneLost
<1>4. Spec => []NoneLost
  BY <1>1, <1>2, <1>3, AcknowledgedIsSafe, PTL DEF Spec
<1>5. QED BY <1>4 DEF NoneLost

-----------------------------------------------------------------------------
(* The consumer implements EventDelivery.                                  *)

Accepted == 1..produced
Saved    == {m \in EventIds : IsStored(m)}
Dead     == {m \in EventIds : IsDead(m)}

\* What a step of EventDelivery does to the mapped state.
LEMMA MappedStep ==
    ASSUME \/ UNCHANGED <<Accepted, Saved, Dead, refused, Settled>>
           \/ \E e \in EventIds :
                \/ /\ e \notin Accepted
                   /\ Accepted' = Accepted \cup {e}
                   /\ UNCHANGED <<Saved, Dead, refused, Settled>>
                \/ /\ e \in Accepted
                   /\ Saved' = Saved \cup {e}
                   /\ UNCHANGED <<Accepted, Dead, refused, Settled>>
                \/ /\ e \in Accepted
                   /\ Dead' = Dead \cup {e}
                   /\ UNCHANGED <<Accepted, Saved, refused, Settled>>
                \/ /\ e \in Accepted
                   /\ refused' = refused \cup {e}
                   /\ Dead' \in {Dead, Dead \cup {e}}
                   /\ UNCHANGED <<Accepted, Saved, Settled>>
                \/ /\ e \in Saved \cup Dead \cup refused
                   /\ Settled' = Settled \cup {e}
                   /\ UNCHANGED <<Accepted, Saved, Dead, refused>>
    PROVE  [Delivery!Next]_(Delivery!vars)
BY DEF Accepted, Saved, Dead, Delivery!Next, Delivery!vars, Delivery!Accept,
   Delivery!Save, Delivery!Bury, Delivery!Refuse, Delivery!Settle

LEMMA StepImplements ==
    SafeInv /\ [Next]_vars => [Delivery!Next]_(Delivery!vars)
<1> SUFFICES ASSUME SafeInv, [Next]_vars
             PROVE  [Delivery!Next]_(Delivery!vars)
  OBVIOUS
<1>1. /\ TypeOK /\ HeldDelivered /\ AckJustified
      /\ produced \in Nat /\ lastDelivered \in Nat /\ lastDelivered <= produced
      /\ NumEvents \in Nat /\ produced <= NumEvents
  BY NumEventsAssumption DEF SafeInv, AttemptsInv, TypeOK
<1>2. \A m \in EventIds : stored[m] \in Nat /\ dlq[m] \in Nat
  BY <1>1 DEF TypeOK
<1>3. ASSUME UNCHANGED <<produced, lastDelivered, pel, stored, dlq, refused>>
      PROVE  [Delivery!Next]_(Delivery!vars)
  <2>1. UNCHANGED <<Accepted, Saved, Dead, refused, Settled>>
    BY <1>3 DEF Accepted, Saved, Dead, Settled, IsStored, IsDead
  <2>2. QED BY <2>1, MappedStep
<1>4. CASE Push
  <2>1. produced + 1 \in EventIds /\ produced + 1 \notin Accepted
    BY <1>1, <1>4 DEF Push, EventIds, Accepted
  <2>2. Accepted' = Accepted \cup {produced + 1}
    BY <1>1, <1>4 DEF Push, Accepted
  <2>3. UNCHANGED <<Saved, Dead, refused, Settled>>
    BY <1>4 DEF Push, Saved, Dead, Settled, IsStored, IsDead, groupVars, dbVars
  <2>4. QED BY <2>1, <2>2, <2>3, MappedStep
<1>5. CASE Read
  <2> DEFINE batch == FirstOf((lastDelivered + 1)..produced, ReadCount)
  <2>1. lastDelivered < produced
    BY <1>5 DEF Read
  <2>2. PICK last \in Nat : /\ last = LastOf(batch)
                            /\ last > lastDelivered
                            /\ batch = (lastDelivered + 1)..last
    BY <1>1, <2>1, ReadBatch
  <2>3. \A x : x \in batch <=> x \in 1..last /\ x > lastDelivered
    BY <1>1, <2>2, Segment
  <2>4. /\ lastDelivered' = last
        /\ pel' = pel \cup batch
        /\ UNCHANGED <<produced, stored, dlq, refused>>
    BY <1>5, <2>2 DEF Read, Delivered, dbVars
  <2> HIDE DEF batch
  <2>5. (1..last) \ (pel \cup batch) = (1..lastDelivered) \ pel
    <3>1. \A x : x \in 1..lastDelivered <=> x \in 1..last /\ ~(x > lastDelivered)
      BY <1>1, <2>2
    <3>2. \A x : x \in (1..last) \ (pel \cup batch) <=> x \in (1..lastDelivered) \ pel
      BY <2>3, <3>1
    <3>3. QED BY <3>2
  <2>6. UNCHANGED <<Accepted, Saved, Dead, refused, Settled>>
    BY <2>4, <2>5 DEF Accepted, Saved, Dead, Settled, IsStored, IsDead
  <2>7. QED BY <2>6, MappedStep
<1>6. ASSUME NEW t \in Threads, Process(t)
      PROVE  [Delivery!Next]_(Delivery!vars)
  <2>1. /\ UNCHANGED <<produced, lastDelivered>>
        /\ cur[t] \in EventIds
    BY <1>1, <1>6, ProcessFrame
  <2>2. cur[t] \in 1..lastDelivered /\ cur[t] \in Accepted
    BY <1>1, <2>1 DEF HeldDelivered, Accepted, EventIds
  <2>3. CASE UNCHANGED <<pel, stored, dlq, refused>>
    BY <1>3, <2>1, <2>3
  <2>4. CASE stored' = [stored EXCEPT ![cur[t]] = @ + 1] /\ UNCHANGED <<pel, dlq, refused>>
    <3>1. UNCHANGED <<Accepted, Dead, refused, Settled>>
      BY <2>1, <2>4 DEF Accepted, Dead, Settled, IsDead
    <3>2. \A m \in EventIds : stored'[m] > 0 <=> stored[m] > 0 \/ m = cur[t]
      BY <1>1, <1>2, <2>1, <2>4 DEF TypeOK
    <3>3. Saved' = Saved \cup {cur[t]}
      BY <2>1, <3>2 DEF Saved, IsStored
    <3>4. QED BY <2>1, <2>2, <3>1, <3>3, MappedStep
  <2>5. CASE /\ dlq' = [dlq EXCEPT ![cur[t]] = @ + 1]
             /\ refused' \in {refused, refused \cup {cur[t]}}
             /\ UNCHANGED <<pel, stored>>
    <3>1. UNCHANGED <<Accepted, Saved, Settled>>
      BY <2>1, <2>5 DEF Accepted, Saved, Settled, IsStored
    <3>2. \A m \in EventIds : dlq'[m] > 0 <=> dlq[m] > 0 \/ m = cur[t]
      BY <1>1, <1>2, <2>1, <2>5 DEF TypeOK
    <3>3. Dead' = Dead \cup {cur[t]}
      BY <2>1, <3>2 DEF Dead, IsDead
    <3>4. QED BY <2>1, <2>2, <2>5, <3>1, <3>3, MappedStep
  <2>6. CASE refused' = refused \cup {cur[t]} /\ UNCHANGED <<pel, stored, dlq>>
    <3>1. UNCHANGED <<Accepted, Saved, Dead, Settled>>
      BY <2>1, <2>6 DEF Accepted, Saved, Dead, Settled, IsStored, IsDead
    <3>2. QED BY <2>1, <2>2, <2>6, <3>1, MappedStep
  <2>7. CASE pc[t] = "ack" /\ pel' = pel \ {cur[t]} /\ UNCHANGED <<stored, dlq, refused>>
    <3>1. UNCHANGED <<Accepted, Saved, Dead>>
      BY <2>1, <2>7 DEF Accepted, Saved, Dead, IsStored, IsDead
    <3>2. Settled' = Settled \cup {cur[t]}
      BY <2>1, <2>2, <2>7 DEF Settled
    <3>3. cur[t] \in Saved \cup Dead \cup refused
      BY <1>1, <2>1, <2>7 DEF AckJustified, Saved, Dead
    <3>4. QED BY <2>1, <2>7, <3>1, <3>2, <3>3, MappedStep
  <2>8. QED
    BY <1>6, <2>3, <2>4, <2>5, <2>6, <2>7
       DEF Process, Upsert, Insert, Notify, DlqAdd, Ack, groupVars, dbVars
<1>7. CASE Crash \/ (\E m \in EventIds : BecomeStale(m)) \/ Begin \/ Scan \/ Claim
             \/ ClaimSkip \/ UNCHANGED vars
  BY <1>3, <1>7 DEF Crash, BecomeStale, Begin, Scan, Claim, ClaimSkip, vars,
     streamVars, groupVars, dbVars
<1>8. QED
  BY <1>4, <1>5, <1>6, <1>7 DEF Next, RunStep, ReclaimStep, Threads

(***************************************************************************)
(* The two goroutines, Redis, Postgres and every restart implement the     *)
(* at-least-once delivery of EventDelivery: in particular an event is      *)
(* forgotten by the queue only when one of its two homes has it or the     *)
(* append to the dead-letter stream was reported as failed.                *)
(***************************************************************************)
THEOREM ConsumerImplementsDelivery == Spec => ImplementsDelivery
<1>1. Init => Delivery!Init
  <2>1. SUFFICES ASSUME Init
                 PROVE  /\ Accepted = {} /\ Saved = {} /\ Dead = {}
                        /\ refused = {} /\ Settled = {}
    BY DEF Accepted, Saved, Dead, Delivery!Init
  <2>2. QED BY <2>1 DEF Init, Accepted, Saved, Dead, Settled, IsStored, IsDead
<1>2. QED BY <1>1, InitSafe, NextSafe, StepImplements, PTL
          DEF Spec, ImplementsDelivery, Delivery!Spec
-----------------------------------------------------------------------------
(* The count of an issue and its rows.                                     *)

\* A set of goroutines is finite, and a goroutine more or less counts one.
LEMMA ThreadSets ==
    /\ IsFiniteSet(Threads)
    /\ \A T \in SUBSET Threads : IsFiniteSet(T) /\ Cardinality(T) \in Nat
<1>1. IsFiniteSet({"run"})
  BY FS_Singleton
<1>2. IsFiniteSet({"run"} \cup {"reclaim"})
  BY <1>1, FS_AddElement
<1>3. IsFiniteSet(Threads)
  BY <1>2, {"run", "reclaim"} = {"run"} \cup {"reclaim"} DEF Threads
<1>4. QED BY <1>3, FS_Subset, FS_CardinalityType

LEMMA SmallerSet ==
    ASSUME NEW S, IsFiniteSet(S), NEW T \in SUBSET S
    PROVE  /\ Cardinality(T) \in Nat /\ Cardinality(S) \in Nat
           /\ Cardinality(T) <= Cardinality(S)
BY FS_Subset, FS_CardinalityType

LEMMA OneMore ==
    ASSUME NEW S, IsFiniteSet(S), NEW x, x \notin S
    PROVE  /\ IsFiniteSet(S \cup {x})
           /\ Cardinality(S \cup {x}) = Cardinality(S) + 1
BY FS_AddElement

LEMMA OneLess ==
    ASSUME NEW S, IsFiniteSet(S), NEW x \in S
    PROVE  Cardinality(S \ {x}) = Cardinality(S) - 1
BY FS_RemoveElement

\* An insert adds one row to the rows of the issue of its entry.
LEMMA RowsOfInsert ==
    ASSUME TypeOK, NEW m \in EventIds, stored' = [stored EXCEPT ![m] = @ + 1],
           NEW f \in Fingerprints
    PROVE  IF Fp[m] = f
           THEN /\ EventRows(f)' = EventRows(f) \cup {<<m, stored[m] + 1>>}
                /\ <<m, stored[m] + 1>> \notin EventRows(f)
           ELSE EventRows(f)' = EventRows(f)
<1>1. /\ stored[m] \in Nat /\ stored'[m] = stored[m] + 1
      /\ \A k \in EventIds : k # m => stored'[k] = stored[k]
  BY DEF TypeOK
<1>2. \A r : r \in EventRows(f) <=>
               \E k \in EventsOf(f) : \E i \in 1..stored[k] : r = <<k, i>>
  BY DEF EventRows
<1>3. \A r : r \in EventRows(f)' <=>
               \E k \in EventsOf(f) : \E i \in 1..stored'[k] : r = <<k, i>>
  BY DEF EventRows, EventsOf
<1>4. 1..(stored[m] + 1) = (1..stored[m]) \cup {stored[m] + 1}
  BY <1>1
<1>5. CASE Fp[m] # f
  <2>1. m \notin EventsOf(f) /\ EventsOf(f) \subseteq EventIds
    BY <1>5 DEF EventsOf
  <2>2. \A r : r \in EventRows(f)' <=> r \in EventRows(f)
    BY <1>1, <1>2, <1>3, <2>1
  <2>3. EventRows(f)' = EventRows(f)
    BY <2>2
  <2>4. QED BY <1>5, <2>3
<1>6. CASE Fp[m] = f
  <2>1. m \in EventsOf(f) /\ EventsOf(f) \subseteq EventIds
    BY <1>6 DEF EventsOf
  <2>2. \A r : r \in EventRows(f)' <=> r \in EventRows(f) \/ r = <<m, stored[m] + 1>>
    BY <1>1, <1>2, <1>3, <1>4, <2>1
  <2>3. EventRows(f)' = EventRows(f) \cup {<<m, stored[m] + 1>>}
    BY <2>2
  <2>4. <<m, stored[m] + 1>> \notin EventRows(f)
    BY <1>1, <1>2
  <2>5. QED BY <1>6, <2>3, <2>4
<1>7. QED BY <1>5, <1>6

\* A step that inserts no row and sends no goroutine to the insert keeps the
\* counts in order, whatever it forgets.
LEMMA CountKept ==
    ASSUME TypeOK, CountInv, UNCHANGED stored,
           \A f \in Fingerprints : Counting(f)' \subseteq Counting(f),
           \A f \in Fingerprints : issueCount'[f] \in Nat /\ issueCount'[f] >= issueCount[f]
    PROVE  CountInv'
<1> SUFFICES ASSUME NEW f \in Fingerprints
             PROVE  /\ IsFiniteSet(EventRows(f)')
                    /\ Cardinality(EventRows(f)') + Cardinality(Counting(f)') <= issueCount'[f]
  BY DEF CountInv
<1>1. EventRows(f)' = EventRows(f) /\ IsFiniteSet(EventRows(f))
  BY DEF CountInv, EventRows, EventsOf
<1>2. Counting(f) \subseteq Threads /\ Counting(f)' \subseteq Counting(f)
  BY DEF Counting
<1>3. /\ Cardinality(Counting(f)') <= Cardinality(Counting(f))
      /\ Cardinality(Counting(f)') \in Nat /\ Cardinality(Counting(f)) \in Nat
  BY <1>2, ThreadSets, SmallerSet
<1>4. Cardinality(EventRows(f)) \in Nat
  BY <1>1, FS_CardinalityType
<1>5. /\ Cardinality(EventRows(f)) + Cardinality(Counting(f)) <= issueCount[f]
      /\ issueCount[f] \in Nat /\ issueCount'[f] \in Nat /\ issueCount'[f] >= issueCount[f]
  BY DEF CountInv, TypeOK
<1>6. QED BY <1>1, <1>3, <1>4, <1>5

LEMMA NextCount == TypeOK /\ TypeOK' /\ CountInv /\ [Next]_vars => CountInv'
<1> SUFFICES ASSUME TypeOK, TypeOK', CountInv, [Next]_vars
             PROVE  CountInv'
  OBVIOUS
<1>0. \A f \in Fingerprints : issueCount[f] \in Nat /\ issueCount'[f] \in Nat
  BY DEF TypeOK
<1>1. ASSUME UNCHANGED <<stored, issueCount>>,
             \A t \in Threads : pc'[t] = "insert" => pc[t] = "insert" /\ cur'[t] = cur[t]
      PROVE  CountInv'
  BY <1>0, <1>1, CountKept DEF Counting
<1>2. ASSUME NEW t \in Threads, Upsert(t)
      PROVE  CountInv'
  <2> DEFINE g == Fp[cur[t]]
  <2>1. g \in Fingerprints /\ pc[t] = "upsert" /\ stored' = stored
    BY <1>2, FpAssumption DEF Upsert, TypeOK
  <2>2. CASE pc' = [pc EXCEPT ![t] = "loop"]
    <3>1. cur' = [cur EXCEPT ![t] = 0]
          /\ issueCount' \in {issueCount, [issueCount EXCEPT ![g] = @ + 1]}
      BY <1>2, <2>2 DEF Upsert, Done, Goto, NewCount, TypeOK
    <3>2. \A f \in Fingerprints : Counting(f)' \subseteq Counting(f)
      BY <2>2, <3>1 DEF Counting, TypeOK
    <3>3. \A f \in Fingerprints : issueCount'[f] >= issueCount[f]
      BY <1>0, <2>1, <3>1 DEF TypeOK
    <3>4. QED BY <1>0, <2>1, <3>2, <3>3, CountKept
  <2>3. CASE pc' # [pc EXCEPT ![t] = "loop"]
    <3>1. /\ issueCount' = [issueCount EXCEPT ![g] = @ + 1]
          /\ pc' = [pc EXCEPT ![t] = "insert"]
          /\ cur' = cur
      BY <1>2, <2>3 DEF Upsert, Done, Goto, NewCount
    <3> SUFFICES ASSUME NEW f \in Fingerprints
                 PROVE  /\ IsFiniteSet(EventRows(f)')
                        /\ Cardinality(EventRows(f)') + Cardinality(Counting(f)') <= issueCount'[f]
      BY DEF CountInv
    <3>2. EventRows(f)' = EventRows(f) /\ IsFiniteSet(EventRows(f))
      BY <2>1 DEF CountInv, EventRows, EventsOf
    <3>3. Cardinality(EventRows(f)) \in Nat
      BY <3>2, FS_CardinalityType
    <3>4. Counting(f) \in SUBSET Threads /\ t \notin Counting(f)
      BY <2>1 DEF Counting
    <3>5. IsFiniteSet(Counting(f)) /\ Cardinality(Counting(f)) \in Nat
      BY <3>4, ThreadSets
    <3>6. Cardinality(EventRows(f)) + Cardinality(Counting(f)) <= issueCount[f]
      BY DEF CountInv
    <3>7. CASE f = g
      <4>1. Counting(f)' = Counting(f) \cup {t}
        BY <2>1, <3>1, <3>7 DEF Counting, TypeOK
      <4>2. Cardinality(Counting(f)') = Cardinality(Counting(f)) + 1
        BY <3>4, <3>5, <4>1, OneMore
      <4>3. issueCount'[f] = issueCount[f] + 1
        BY <2>1, <3>1, <3>7 DEF TypeOK
      <4>4. QED BY <1>0, <3>2, <3>3, <3>5, <3>6, <4>2, <4>3
    <3>8. CASE f # g
      <4>1. Counting(f)' = Counting(f) /\ issueCount'[f] = issueCount[f]
        BY <2>1, <3>1, <3>8 DEF Counting, TypeOK
      <4>2. QED BY <3>2, <3>6, <4>1
    <3>9. QED BY <3>7, <3>8
  <2>4. QED BY <2>2, <2>3
<1>3. ASSUME NEW t \in Threads, Insert(t)
      PROVE  CountInv'
  <2> DEFINE g == Fp[cur[t]]
             m == cur[t]
  <2>1. /\ m \in EventIds /\ g \in Fingerprints /\ pc[t] = "insert"
        /\ issueCount' = issueCount
        /\ pc'[t] # "insert"
        /\ \A u \in Threads : u # t => pc'[u] = pc[u] /\ cur'[u] = cur[u]
    BY <1>3, FpAssumption DEF Insert, Done, Goto, TypeOK
  <2>2. \A f \in Fingerprints : Counting(f)' = Counting(f) \ {t}
    BY <2>1 DEF Counting
  <2>3. CASE stored' = stored
    BY <1>0, <2>1, <2>2, <2>3, CountKept
  <2>4. CASE stored' = [stored EXCEPT ![m] = @ + 1]
    <3> SUFFICES ASSUME NEW f \in Fingerprints
                 PROVE  /\ IsFiniteSet(EventRows(f)')
                        /\ Cardinality(EventRows(f)') + Cardinality(Counting(f)') <= issueCount[f]
      BY <2>1 DEF CountInv
    <3>1. IsFiniteSet(EventRows(f)) /\ Cardinality(EventRows(f)) \in Nat
      BY FS_CardinalityType DEF CountInv
    <3>2. Counting(f) \in SUBSET Threads
      BY DEF Counting
    <3>3. IsFiniteSet(Counting(f)) /\ Cardinality(Counting(f)) \in Nat
      BY <3>2, ThreadSets
    <3>4. Cardinality(EventRows(f)) + Cardinality(Counting(f)) <= issueCount[f]
      BY DEF CountInv
    <3>5. CASE g = f
      <4>1. /\ EventRows(f)' = EventRows(f) \cup {<<m, stored[m] + 1>>}
            /\ <<m, stored[m] + 1>> \notin EventRows(f)
        BY <2>1, <2>4, <3>5, RowsOfInsert
      <4>2. IsFiniteSet(EventRows(f)') /\ Cardinality(EventRows(f)') = Cardinality(EventRows(f)) + 1
        BY <3>1, <4>1, OneMore
      <4>3. t \in Counting(f)
        BY <2>1, <3>5 DEF Counting
      <4>4. Cardinality(Counting(f)') = Cardinality(Counting(f)) - 1
        BY <2>2, <3>3, <4>3, OneLess
      <4>5. QED BY <1>0, <3>1, <3>3, <3>4, <4>2, <4>4
    <3>6. CASE g # f
      <4>1. EventRows(f)' = EventRows(f)
        BY <2>1, <2>4, <3>6, RowsOfInsert
      <4>2. t \notin Counting(f)
        BY <3>6 DEF Counting
      <4>3. Counting(f)' = Counting(f)
        BY <2>2, <4>2
      <4>4. QED BY <3>1, <3>4, <4>1, <4>3
    <3>7. QED BY <3>5, <3>6
  <2>5. QED BY <1>3, <2>3, <2>4 DEF Insert
<1>4. ASSUME NEW t \in Threads, Notify(t) \/ DlqAdd(t) \/ Ack(t)
      PROVE  CountInv'
  <2>1. UNCHANGED <<stored, issueCount>>
    BY <1>4 DEF Notify, DlqAdd, Ack, dbVars
  <2>2. \A u \in Threads : pc'[u] = "insert" => pc[u] = "insert" /\ cur'[u] = cur[u]
    BY <1>4 DEF Notify, DlqAdd, Ack, Done, Goto, TypeOK
  <2>3. QED BY <1>1, <2>1, <2>2
<1>5. CASE Begin \/ Claim
  <2>1. UNCHANGED <<stored, issueCount>>
    BY <1>5 DEF Begin, Claim, dbVars
  <2>2. PICK t \in Threads, m \in EventIds :
          /\ pc' \in {[pc EXCEPT ![t] = FirstCall(m)], [pc EXCEPT ![t] = "dlqAdd"]}
          /\ cur' = [cur EXCEPT ![t] = m]
    BY <1>5 DEF Begin, Claim, Take, Enter, Goto, Threads, TypeOK
  <2>3. \A u \in Threads : pc'[u] = "insert" => pc[u] = "insert" /\ cur'[u] = cur[u]
    BY <2>2 DEF FirstCall, TypeOK
  <2>4. QED BY <1>1, <2>1, <2>3
<1>6. CASE Crash
  <2>1. UNCHANGED <<stored, issueCount>> /\ \A t \in Threads : pc'[t] = "loop"
    BY <1>6 DEF Crash, dbVars
  <2>2. QED BY <1>1, <2>1
<1>7. CASE \/ Push \/ Read \/ Scan \/ ClaimSkip \/ UNCHANGED vars
           \/ \E m \in EventIds : BecomeStale(m)
  <2>1. UNCHANGED <<stored, issueCount, pc, cur>>
    BY <1>7 DEF Push, Read, Scan, ClaimSkip, BecomeStale, vars, dbVars, workerVars
  <2>2. QED BY <1>1, <2>1
<1>8. QED
  BY <1>2, <1>3, <1>4, <1>5, <1>6, <1>7
     DEF Next, RunStep, ReclaimStep, Process, Threads

(***************************************************************************)
(* issues.count never falls below the number of rows of the issue's        *)
(* events, although nothing holds the two statements of Execute together.  *)
(* Inductively, each goroutine between the two has one count to spare.     *)
(***************************************************************************)
THEOREM CountCoversRows == Spec => []CountCoversEvents
<1>1. Init => CountInv
  <2> SUFFICES ASSUME Init, NEW f \in Fingerprints
               PROVE  /\ IsFiniteSet(EventRows(f))
                      /\ Cardinality(EventRows(f)) + Cardinality(Counting(f)) <= issueCount[f]
    BY DEF CountInv
  <2>1. EventRows(f) = {} /\ Counting(f) = {} /\ issueCount[f] = 0
    BY DEF Init, EventRows, EventsOf, Counting
  <2>2. QED BY <2>1, FS_EmptySet
<1>2. TypeOK /\ CountInv => CountCoversEvents
  <2> SUFFICES ASSUME TypeOK, CountInv, NEW f \in Fingerprints
               PROVE  Cardinality(EventRows(f)) <= issueCount[f]
    BY DEF CountCoversEvents
  <2>1. Cardinality(EventRows(f)) \in Nat
    BY FS_CardinalityType DEF CountInv
  <2>2. Cardinality(Counting(f)) \in Nat
    BY ThreadSets DEF Counting
  <2>3. QED BY <2>1, <2>2 DEF CountInv, TypeOK
<1>3. QED BY <1>1, <1>2, NextCount, TypeCorrect, PTL DEF Spec
-----------------------------------------------------------------------------
(* The evaluation of a new issue.                                          *)

\* What EvaluatedOnce says of one issue.
OnceFor(f) ==
    evaluated[f] + Cardinality(Creators(f)) + (IF f \in missed THEN 1 ELSE 0)
        = IF issueCount[f] = 0 THEN 0 ELSE 1

LEMMA TermTypes ==
    ASSUME TypeOK, NEW f \in Fingerprints
    PROVE  /\ evaluated[f] \in Nat /\ issueCount[f] \in Nat
           /\ Creators(f) \in SUBSET Threads
           /\ IsFiniteSet(Creators(f)) /\ Cardinality(Creators(f)) \in Nat
<1>1. Creators(f) \in SUBSET Threads
  BY DEF Creators
<1>2. QED BY <1>1, ThreadSets DEF TypeOK

\* Nothing happens to the issue.
LEMMA OnceKept ==
    ASSUME NEW f \in Fingerprints, OnceFor(f),
           Creators(f)' = Creators(f), evaluated'[f] = evaluated[f],
           f \in missed' <=> f \in missed,
           issueCount'[f] = 0 <=> issueCount[f] = 0
    PROVE  OnceFor(f)'
BY DEF OnceFor

\* The goroutine that created the row evaluates the rules, or fails to.
LEMMA OnceDecided ==
    ASSUME TypeOK, NEW f \in Fingerprints, OnceFor(f),
           NEW t \in Creators(f), Creators(f)' = Creators(f) \ {t},
           \/ evaluated'[f] = evaluated[f] + 1 /\ missed' = missed
           \/ evaluated'[f] = evaluated[f] /\ f \in missed',
           issueCount'[f] = issueCount[f]
    PROVE  OnceFor(f)'
<1> DEFINE n  == Cardinality(Creators(f))
           nn == Cardinality(Creators(f)')
           i  == IF f \in missed THEN 1 ELSE 0
           ii == IF f \in missed' THEN 1 ELSE 0
           x  == IF issueCount[f] = 0 THEN 0 ELSE 1
<1>1. evaluated[f] \in Nat /\ n \in Nat /\ i \in {0, 1} /\ ii \in {0, 1} /\ x \in {0, 1}
  BY TermTypes
<1>2. n # 0 /\ nn = n - 1
  BY TermTypes, FS_EmptySet, OneLess
<1>3. evaluated[f] + n + i = x
  BY DEF OnceFor
<1>4. f \notin missed
  <2>1. i = 0
    BY <1>1, <1>2, <1>3
  <2>2. QED BY <2>1
<1>5. \/ evaluated'[f] = evaluated[f] + 1 /\ ii = 0
      \/ evaluated'[f] = evaluated[f] /\ ii = 1
  BY <1>4
<1>6. i = 0
  BY <1>4
<1> SUFFICES evaluated'[f] + nn + ii = x
  BY DEF OnceFor
<1> HIDE DEF n, nn, i, ii, x
<1>7. QED BY <1>1, <1>2, <1>3, <1>5, <1>6

\* The row is created, by a goroutine that knows it or one that has failed.
LEMMA OnceCreated ==
    ASSUME TypeOK, NEW f \in Fingerprints, OnceFor(f), NEW t \in Threads,
           \/ /\ t \notin Creators(f) /\ Creators(f)' = Creators(f) \cup {t}
              /\ missed' = missed
           \/ Creators(f)' = Creators(f) /\ f \in missed',
           evaluated'[f] = evaluated[f],
           issueCount[f] = 0, issueCount'[f] # 0
    PROVE  OnceFor(f)'
<1> DEFINE n  == Cardinality(Creators(f))
           nn == Cardinality(Creators(f)')
           i  == IF f \in missed THEN 1 ELSE 0
           ii == IF f \in missed' THEN 1 ELSE 0
<1>1. evaluated[f] \in Nat /\ n \in Nat /\ i \in {0, 1} /\ ii \in {0, 1}
  BY TermTypes
<1>2. evaluated[f] + n + i = 0
  BY DEF OnceFor
<1>3. \/ nn = n + 1 /\ ii = i
      \/ nn = n /\ ii = 1
  BY TermTypes, OneMore
<1> SUFFICES evaluated[f] + nn + ii = 1
  BY DEF OnceFor
<1> HIDE DEF n, nn, i, ii
<1>4. QED BY <1>1, <1>2, <1>3

LEMMA NextEvaluated ==
    TypeOK /\ TypeOK' /\ EvaluatedOnce /\ [Next]_vars => EvaluatedOnce'
<1> SUFFICES ASSUME TypeOK, TypeOK', EvaluatedOnce, [Next]_vars,
                    NEW f \in Fingerprints
             PROVE  OnceFor(f)'
  BY DEF EvaluatedOnce, OnceFor
<1>0. /\ OnceFor(f)
      /\ issueCount[f] \in Nat /\ issueCount'[f] \in Nat
  BY DEF EvaluatedOnce, OnceFor, TypeOK
<1>1. ASSUME UNCHANGED <<evaluated, missed, issueCount, created>>,
             \A t \in Threads : pc[t] \in {"insert", "notify"}
                                \/ pc'[t] \in {"insert", "notify"}
                                => pc'[t] = pc[t] /\ cur'[t] = cur[t]
      PROVE  OnceFor(f)'
  <2>1. Creators(f)' = Creators(f)
    BY <1>1 DEF Creators
  <2>2. QED BY <1>0, <1>1, <2>1, OnceKept
<1>2. ASSUME NEW t \in Threads, Upsert(t)
      PROVE  OnceFor(f)'
  <2>0. PICK g \in Fingerprints : g = Fp[cur[t]]
    BY <1>2, FpAssumption DEF Upsert, TypeOK
  <2>1. /\ pc[t] = "upsert" /\ evaluated' = evaluated
        /\ issueCount' \in {issueCount, [issueCount EXCEPT ![g] = issueCount[g] + 1]}
        /\ missed' \in {missed, missed \cup {g}}
    BY <1>2, <2>0 DEF Upsert, NewCount, Miss
  <2>2. \A u \in Threads : u # t => /\ pc'[u] = pc[u] /\ cur'[u] = cur[u]
                                    /\ created'[u] = created[u]
    BY <1>2 DEF Upsert, Done, Goto, TypeOK
  <2>3. t \notin Creators(f)
    BY <2>1 DEF Creators
  <2>4. CASE pc' = [pc EXCEPT ![t] = "insert"]
    <3>1. /\ issueCount' = [issueCount EXCEPT ![g] = issueCount[g] + 1]
          /\ created' = [created EXCEPT ![t] = (issueCount[g] = 0)]
          /\ cur' = cur /\ missed' = missed
          /\ pc'[t] = "insert"
      BY <1>2, <2>0, <2>4 DEF Upsert, Done, Goto, NewCount, WasCreated, TypeOK
    <3>2. created'[t] <=> issueCount[g] = 0
      BY <3>1 DEF TypeOK
    <3>3. CASE f = g /\ issueCount[g] = 0
      <4>1. Creators(f)' = Creators(f) \cup {t}
        BY <2>0, <2>2, <2>3, <3>1, <3>2, <3>3 DEF Creators
      <4>2. issueCount'[f] # 0
        BY <2>0, <3>1, <3>3 DEF TypeOK
      <4>3. QED BY <1>0, <2>1, <2>3, <3>1, <3>3, <4>1, <4>2, OnceCreated
    <3>4. CASE ~(f = g /\ issueCount[g] = 0)
      <4>1. Creators(f)' = Creators(f)
        BY <2>0, <2>2, <2>3, <3>1, <3>2, <3>4 DEF Creators
      <4>2. issueCount'[f] = 0 <=> issueCount[f] = 0
        BY <1>0, <2>0, <3>1, <3>4 DEF TypeOK
      <4>3. QED BY <1>0, <2>1, <3>1, <4>1, <4>2, OnceKept
    <3>5. QED BY <3>3, <3>4
  <2>5. CASE pc' # [pc EXCEPT ![t] = "insert"]
    <3>1. /\ pc'[t] = "loop"
          /\ \/ UNCHANGED <<issueCount, missed>>
             \/ /\ issueCount' = [issueCount EXCEPT ![g] = issueCount[g] + 1]
                /\ missed' = IF issueCount[g] = 0 THEN missed \cup {g} ELSE missed
      BY <1>2, <2>0, <2>5 DEF Upsert, Done, Goto, NewCount, WasCreated, Miss, TypeOK
    <3>2. Creators(f)' = Creators(f)
      BY <2>2, <2>3, <3>1 DEF Creators
    <3>3. CASE UNCHANGED <<issueCount, missed>>
      BY <1>0, <2>1, <3>2, <3>3, OnceKept
    <3>4. CASE /\ issueCount' = [issueCount EXCEPT ![g] = issueCount[g] + 1]
               /\ missed' = IF issueCount[g] = 0 THEN missed \cup {g} ELSE missed
      <4>1. CASE f = g /\ issueCount[g] = 0
        <5>1. issueCount'[f] # 0 /\ f \in missed'
          BY <2>0, <3>4, <4>1 DEF TypeOK
        <5>2. QED BY <1>0, <2>1, <3>2, <4>1, <5>1, OnceCreated
      <4>2. CASE ~(f = g /\ issueCount[g] = 0)
        <5>1. issueCount'[f] = 0 <=> issueCount[f] = 0
          BY <1>0, <2>0, <3>4, <4>2 DEF TypeOK
        <5>2. f \in missed' <=> f \in missed
          BY <3>4, <4>2
        <5>3. QED BY <1>0, <2>1, <3>2, <5>1, <5>2, OnceKept
      <4>3. QED BY <4>1, <4>2
    <3>5. QED BY <3>1, <3>3, <3>4
  <2>6. QED BY <2>4, <2>5
<1>3. ASSUME NEW t \in Threads, Insert(t) \/ Notify(t)
      PROVE  OnceFor(f)'
  <2>0. PICK g \in Fingerprints : g = Fp[cur[t]]
    BY <1>3, FpAssumption DEF Insert, Notify, TypeOK
  <2>1. pc[t] \in {"insert", "notify"} /\ issueCount' = issueCount
    BY <1>3 DEF Insert, Notify, dbVars
  <2>2. \A u \in Threads : u # t => /\ pc'[u] = pc[u] /\ cur'[u] = cur[u]
                                    /\ created'[u] = created[u]
    BY <1>3 DEF Insert, Notify, Done, Goto, TypeOK
  <2>3. t \in Creators(f) <=> f = g /\ created[t]
    BY <2>0, <2>1 DEF Creators
  <2>4. CASE pc'[t] = "notify"
    <3>1. /\ pc[t] = "insert" /\ cur' = cur
          /\ UNCHANGED <<created, missed, evaluated>>
      BY <1>3, <2>4 DEF Insert, Notify, Done, Goto, TypeOK
    <3>2. Creators(f)' = Creators(f)
      BY <2>2, <2>4, <3>1 DEF Creators
    <3>3. QED BY <1>0, <2>1, <3>1, <3>2, OnceKept
  <2>5. CASE pc'[t] # "notify"
    <3>1. pc'[t] \in {"loop", "ack"}
      BY <1>3, <2>5 DEF Insert, Notify, Done, Goto, TypeOK
    <3>2. Creators(f)' = Creators(f) \ {t}
      BY <2>2, <3>1 DEF Creators
    <3>3. CASE created[t]
      <4>1. \/ evaluated' = [evaluated EXCEPT ![g] = evaluated[g] + 1] /\ missed' = missed
            \/ evaluated' = evaluated /\ missed' = missed \cup {g}
        BY <1>3, <2>0, <2>5, <3>3 DEF Insert, Notify, Evaluates, Miss, Goto, TypeOK
      <4>2. CASE f = g
        <5>1. \/ evaluated'[f] = evaluated[f] + 1 /\ missed' = missed
              \/ evaluated'[f] = evaluated[f] /\ f \in missed'
          BY <4>1, <4>2 DEF TypeOK
        <5>2. QED BY <1>0, <2>1, <2>3, <3>2, <3>3, <4>2, <5>1, OnceDecided
      <4>3. CASE f # g
        <5>1. evaluated'[f] = evaluated[f] /\ (f \in missed' <=> f \in missed)
          BY <4>1, <4>3 DEF TypeOK
        <5>2. Creators(f)' = Creators(f)
          BY <2>3, <3>2, <4>3
        <5>3. QED BY <1>0, <2>1, <5>1, <5>2, OnceKept
      <4>4. QED BY <4>2, <4>3
    <3>4. CASE ~created[t]
      <4>1. evaluated' = evaluated /\ missed' = missed
        BY <1>3, <2>5, <3>4 DEF Insert, Notify, Evaluates, Miss, Goto, TypeOK, alertVars
      <4>2. Creators(f)' = Creators(f)
        BY <2>3, <3>2, <3>4
      <4>3. QED BY <1>0, <2>1, <4>1, <4>2, OnceKept
    <3>5. QED BY <3>3, <3>4
  <2>6. QED BY <2>4, <2>5
<1>4. ASSUME NEW t \in Threads, DlqAdd(t) \/ Ack(t)
      PROVE  OnceFor(f)'
  <2>1. UNCHANGED <<evaluated, missed, issueCount>>
    BY <1>4 DEF DlqAdd, Ack, dbVars, alertVars
  <2>2. /\ pc[t] \notin {"insert", "notify"} /\ pc'[t] \notin {"insert", "notify"}
        /\ \A u \in Threads : u # t => /\ pc'[u] = pc[u] /\ cur'[u] = cur[u]
                                       /\ created'[u] = created[u]
    BY <1>4 DEF DlqAdd, Ack, Done, Goto, TypeOK
  <2>3. Creators(f)' = Creators(f)
    BY <2>2 DEF Creators
  <2>4. QED BY <1>0, <2>1, <2>3, OnceKept
<1>5. CASE Begin \/ Claim
  <2>1. UNCHANGED <<evaluated, missed, issueCount, created>>
    BY <1>5 DEF Begin, Claim, dbVars, alertVars
  <2>2. PICK t \in Threads, m \in EventIds :
          /\ pc[t] = "loop"
          /\ pc' \in {[pc EXCEPT ![t] = FirstCall(m)], [pc EXCEPT ![t] = "dlqAdd"]}
          /\ cur' = [cur EXCEPT ![t] = m]
    BY <1>5 DEF Begin, Claim, Take, Enter, Goto, Threads, TypeOK
  <2>3. \A u \in Threads : pc[u] \in {"insert", "notify"} \/ pc'[u] \in {"insert", "notify"}
                            => pc'[u] = pc[u] /\ cur'[u] = cur[u]
    BY <2>2 DEF FirstCall, TypeOK
  <2>4. QED BY <1>1, <2>1, <2>3
<1>6. CASE Crash
  <2>1. /\ UNCHANGED <<evaluated, issueCount>>
        /\ missed' = missed \cup {k \in Fingerprints : Creators(k) # {}}
        /\ \A t \in Threads : pc'[t] = "loop"
    BY <1>6 DEF Crash, dbVars
  <2>2. Creators(f)' = {}
    BY <2>1 DEF Creators
  <2>3. CASE Creators(f) = {}
    <3>1. f \in missed' <=> f \in missed
      BY <2>1, <2>3
    <3>2. QED BY <1>0, <2>1, <2>2, <2>3, <3>1, OnceKept
  <2>4. CASE Creators(f) # {}
    <3>1. /\ evaluated[f] \in Nat
          /\ Cardinality(Creators(f)) \in Nat /\ Cardinality(Creators(f)) # 0
      BY <2>4, TermTypes, FS_EmptySet
    <3>2. evaluated[f] = 0 /\ issueCount[f] # 0
      BY <1>0, <3>1 DEF OnceFor
    <3>3. f \in missed' /\ Cardinality(Creators(f)') = 0
      BY <2>1, <2>2, <2>4, FS_EmptySet
    <3>4. QED BY <2>1, <3>2, <3>3 DEF OnceFor
  <2>5. QED BY <2>3, <2>4
<1>7. CASE \/ Push \/ Read \/ Scan \/ ClaimSkip \/ UNCHANGED vars
           \/ \E m \in EventIds : BecomeStale(m)
  <2>1. UNCHANGED <<evaluated, missed, issueCount, created, pc, cur>>
    BY <1>7 DEF Push, Read, Scan, ClaimSkip, BecomeStale, vars, dbVars, workerVars, alertVars
  <2>2. QED BY <1>1, <2>1
<1>8. QED
  BY <1>2, <1>3, <1>4, <1>5, <1>6, <1>7
     DEF Next, RunStep, ReclaimStep, Process, Threads

(***************************************************************************)
(* A new issue's rules are evaluated at most once, and not at all only     *)
(* when the one goroutine that created its row failed or died before: the  *)
(* retries of the entry never repeat the evaluation.                       *)
(***************************************************************************)
THEOREM NewIssueEvaluatedOnce == Spec => []EvaluatedOnce
<1>1. Init => EvaluatedOnce
  <2> SUFFICES ASSUME Init, NEW f \in Fingerprints
               PROVE  OnceFor(f)
    BY DEF EvaluatedOnce, OnceFor
  <2>1. evaluated[f] = 0 /\ Creators(f) = {} /\ f \notin missed /\ issueCount[f] = 0
    BY DEF Init, Creators
  <2>2. QED BY <2>1, FS_EmptySet DEF OnceFor
<1>2. QED BY <1>1, NextEvaluated, TypeCorrect, PTL DEF Spec
=============================================================================
