------------------------- MODULE ProjectLife_proofs -------------------------
(***************************************************************************)
(* Proofs about ProjectKeys, for every set of keys, users and requests and *)
(* every time to live, and about its composition with the issues of a      *)
(* project.                                                                *)
(***************************************************************************)
EXTENDS ProjectLife, FiniteSetTheorems, TLAPS

-----------------------------------------------------------------------------
(* Type correctness.                                                       *)

LEMMA InitKeysType == Init => TypeOK
BY KeysAssumption, TTLAssumption, KeyBoundsAssumption DEF Init, TypeOK, Quiet, NoDrop

LEMMA FaultType ==
    ASSUME TypeOK, Fault \/ UNCHANGED faults
    PROVE  faults' \in 0..MaxFaults
BY KeyBoundsAssumption DEF TypeOK, Fault

PCs  == {"idle", "limit", "get", "lookup", "fill", "push"}
Reqs == [pc : PCs, key : Keys, expired : BOOLEAN]

\* A step that leaves all but a request and the faults alone.
LEMMA RequestType ==
    ASSUME TypeOK, NEW r \in Requests, NEW q \in Reqs,
           req' = [req EXCEPT ![r] = q],
           Fault \/ UNCHANGED faults, UNCHANGED <<table, ttl, removal, age, calls>>
    PROVE  TypeOK'
<1>1. faults' \in 0..MaxFaults
  BY FaultType
<1>2. req \in [Requests -> Reqs]
  BY DEF TypeOK, Reqs, PCs
<1>3. req' \in [Requests -> Reqs]
  BY <1>2
<1>4. UNCHANGED <<row, known, created, recorded, unsure, ttl, removal, age, calls>>
  BY DEF table
<1>5. QED BY <1>1, <1>3, <1>4 DEF TypeOK, Reqs, PCs

\* The request as it was, but for its place in the code.
LEMMA MovedRequest ==
    ASSUME TypeOK, NEW r \in Requests, NEW pc \in PCs
    PROVE  /\ [req[r] EXCEPT !.pc = pc] \in Reqs
           /\ [req EXCEPT ![r].pc = pc] = [req EXCEPT ![r] = [req[r] EXCEPT !.pc = pc]]
           /\ [req[r] EXCEPT !.pc = pc].pc = pc
           /\ [req[r] EXCEPT !.pc = pc].key = req[r].key
           /\ [req[r] EXCEPT !.pc = pc].expired = req[r].expired
<1>1. req[r] \in Reqs
  BY DEF TypeOK, Reqs, PCs
<1>2. QED BY <1>1 DEF Reqs

LEMMA QuietType == Quiet \in Reqs
BY KeysAssumption DEF Quiet, Reqs, PCs

\* Such a step with the request moved on or ended.
LEMMA MoveType ==
    ASSUME TypeOK, NEW r \in Requests, NEW pc \in PCs,
           req' = [req EXCEPT ![r].pc = pc] \/ req' = [req EXCEPT ![r] = Quiet],
           Fault \/ UNCHANGED faults, UNCHANGED <<table, ttl, removal, age, calls>>
    PROVE  TypeOK'
<1>1. CASE req' = [req EXCEPT ![r] = Quiet]
  BY <1>1, QuietType, RequestType
<1>2. CASE req' = [req EXCEPT ![r].pc = pc]
  <2>1. req' = [req EXCEPT ![r] = [req[r] EXCEPT !.pc = pc]]
        /\ [req[r] EXCEPT !.pc = pc] \in Reqs
    BY <1>2, MovedRequest
  <2>2. QED BY <2>1, RequestType
<1>3. QED BY <1>1, <1>2

LEMMA StepKeysType == TypeOK /\ [Next]_vars => TypeOK'
<1> SUFFICES ASSUME TypeOK, [Next]_vars PROVE TypeOK'
  OBVIOUS
<1> USE KeysAssumption, TTLAssumption, KeyBoundsAssumption
<1>1. CASE Tick
  <2>1. ttl' \in [Keys -> 0..TTL]
    <3>1. ttl \in [Keys -> 0..TTL]
      BY DEF TypeOK
    <3>2. \A k \in Keys : Left(ttl[k]) \in 0..TTL
      BY <3>1 DEF Left
    <3>3. QED BY <1>1, <3>2 DEF Tick
  <2>2. age' \in [Keys -> 0..TTL]
    BY <1>1 DEF Tick, TypeOK
  <2>3. UNCHANGED <<row, known, created, recorded, unsure, req, removal, calls, faults>>
    BY <1>1 DEF Tick, table, budgets
  <2>4. QED BY <2>1, <2>2, <2>3 DEF TypeOK
<1>2. ASSUME NEW u \in Users, NEW k \in Keys, Create(u, k) PROVE TypeOK'
  <2>1. row' \in [Keys -> Users \cup {"none", "deleted"}]
    BY <1>2 DEF Create, TypeOK
  <2>2. known' \subseteq {j \in Keys : row'[j] # "none"}
    BY <1>2, UsersAssumption DEF Create, TypeOK
  <2>3. QED BY <1>2, <2>1, <2>2 DEF Create, TypeOK, budgets
<1>2a. ASSUME NEW k \in Keys, AuditAndTell(k) PROVE TypeOK'
  <2>1. faults' \in 0..MaxFaults
    BY <1>2a, FaultType DEF AuditAndTell
  <2>2. created' \subseteq Keys /\ known' \subseteq {j \in Keys : row'[j] # "none"}
    BY <1>2a DEF AuditAndTell, TypeOK
  <2>3. QED BY <1>2a, <2>1, <2>2 DEF AuditAndTell, TypeOK
<1>3. ASSUME NEW d \in Removers, NEW u \in Users, NEW k \in Keys, AskRemoval(d, u, k)
      PROVE  TypeOK'
  BY <1>3 DEF AskRemoval, TypeOK, table, budgets
<1>4. ASSUME NEW d \in Removers, Verify(d) PROVE TypeOK'
  BY <1>4 DEF Verify, TypeOK, table, budgets, NoDrop
<1>5. ASSUME NEW d \in Removers, Drop(d) PROVE TypeOK'
  <2>1. faults' \in 0..MaxFaults
    BY <1>5, FaultType DEF Drop
  <2>2. row' \in [Keys -> Users \cup {"none", "deleted"}] /\ unsure' \subseteq Keys
    BY <1>5 DEF Drop, TypeOK
  <2>3. QED BY <1>5, <2>1, <2>2 DEF Drop, TypeOK, NoDrop
<1>6. ASSUME NEW d \in Removers, AuditAndAnswer(d) PROVE TypeOK'
  <2>1. faults' \in 0..MaxFaults
    BY <1>6, FaultType DEF AuditAndAnswer, Record
  <2>2. recorded' \subseteq Keys /\ unsure' \subseteq Keys
    BY <1>6 DEF AuditAndAnswer, Record, TypeOK
  <2>3. QED BY <1>6, <2>1, <2>2 DEF AuditAndAnswer, TypeOK, NoDrop
<1>7. ASSUME NEW r \in Requests, NEW k \in Keys, Begin(r, k) PROVE TypeOK'
  BY <1>7 DEF Begin, TypeOK, table
<1>8. ASSUME NEW r \in Requests, Throttle(r) PROVE TypeOK'
  <2>1. Fault \/ UNCHANGED faults
    BY <1>8 DEF Throttle
  <2>2. /\ UNCHANGED <<table, ttl, removal, age, calls>>
        /\ \/ req' = [req EXCEPT ![r].pc = "get"]
           \/ req' = [req EXCEPT ![r] = Quiet]
    BY <1>8 DEF Throttle
  <2>3. "get" \in PCs
    BY DEF PCs
  <2>4. QED BY <2>1, <2>2, <2>3, MoveType
<1>9. ASSUME NEW r \in Requests, CacheGet(r) PROVE TypeOK'
  <2>1. Fault \/ UNCHANGED faults
    BY <1>9 DEF CacheGet
  <2>2. /\ UNCHANGED <<table, ttl, removal, age, calls>>
        /\ \/ req' = [req EXCEPT ![r].pc = "push"]
           \/ req' = [req EXCEPT ![r].pc = "lookup"]
    BY <1>9 DEF CacheGet, HitKeeps
  <2>3. "push" \in PCs /\ "lookup" \in PCs
    BY DEF PCs
  <2>4. QED BY <2>1, <2>2, <2>3, MoveType
<1>10. ASSUME NEW r \in Requests, Lookup(r) PROVE TypeOK'
  <2>1. Fault \/ UNCHANGED faults
    BY <1>10 DEF Lookup
  <2>2. /\ UNCHANGED <<table, ttl, removal, age, calls>>
        /\ \/ req' = [req EXCEPT ![r].pc = "fill"]
           \/ req' = [req EXCEPT ![r] = Quiet]
    BY <1>10 DEF Lookup
  <2>3. "fill" \in PCs
    BY DEF PCs
  <2>4. QED BY <2>1, <2>2, <2>3, MoveType
<1>11. ASSUME NEW r \in Requests, Fill(r) PROVE TypeOK'
  <2>1. faults' \in 0..MaxFaults
    BY <1>11, FaultType DEF Fill
  <2>2. ttl' \in [Keys -> 0..TTL]
    BY <1>11 DEF Fill, TypeOK
  <2>3. QED BY <1>11, <2>1, <2>2 DEF Fill, TypeOK, table
<1>12. ASSUME NEW r \in Requests, Refuse(r) \/ Push(r) PROVE TypeOK'
  <2>1. /\ req' = [req EXCEPT ![r] = Quiet]
        /\ Fault \/ UNCHANGED faults
        /\ UNCHANGED <<table, ttl, removal, age, calls>>
    BY <1>12 DEF Refuse, Push
  <2>2. QED BY <2>1, QuietType, RequestType
<1>13. CASE UNCHANGED vars
  BY <1>13 DEF vars, table, budgets, TypeOK
<1>14. QED
  BY <1>1, <1>2, <1>2a, <1>3, <1>4, <1>5, <1>6, <1>7, <1>8, <1>9, <1>10, <1>11, <1>12, <1>13
     DEF Next, Inner

(***************************************************************************)
(* Every reachable state is a table, a cache and a set of requests of the  *)
(* shape the code keeps; no entry lives longer than its time to live.      *)
(***************************************************************************)
THEOREM TypeCorrect == Spec => []TypeOK
BY InitKeysType, StepKeysType, PTL DEF Spec

-----------------------------------------------------------------------------
(* A deletion takes effect within one time to live.                        *)

LEMMA InitTTL == Init => TTLInv
<1> SUFFICES ASSUME Init PROVE TTLInv
  OBVIOUS
<1>1. TypeOK
  BY InitKeysType
<1>2. Existing /\ Running /\ Expired
  BY TTLAssumption DEF Init, Existing, Running, Expired, Quiet
<1>3. QED BY <1>1, <1>2 DEF TTLInv

\* What a step of a request may do without disturbing the parts that speak of
\* time: the table and the ages stay, the cache keeps its times, and the
\* request reaches "fill" only if the table has the row.
LEMMA RequestKeepsTTL ==
    ASSUME TTLInv, NEW r \in Requests, NEW q, TypeOK', UNCHANGED <<row, ttl, age>>,
           req' = [req EXCEPT ![r] = q],
           q.pc = "fill" => age[q.key] = 0,
           q.expired => /\ row[q.key] = "deleted" /\ age[q.key] = TTL
                        /\ q.pc \in {"idle", "limit", "get", "lookup"}
    PROVE  TTLInv'
<1>1. \A s \in Requests : req'[s] = IF s = r THEN q ELSE req[s]
  BY DEF TTLInv, TypeOK
<1>2. Existing'
  <2>1. SUFFICES ASSUME NEW k \in Keys, row'[k] # "deleted" \/ Filling(k)'
                 PROVE  age'[k] = 0
    BY DEF Existing
  <2>2. CASE row'[k] # "deleted"
    BY <2>2 DEF TTLInv, Existing
  <2>3. CASE Filling(k)'
    <3>1. PICK s \in Requests : req'[s].pc = "fill" /\ req'[s].key = k
      BY <2>3 DEF Filling
    <3>2. CASE s = r
      BY <3>1, <3>2, <1>1
    <3>3. CASE s # r
      BY <3>1, <3>3, <1>1 DEF TTLInv, Existing, Filling
    <3>4. QED BY <3>2, <3>3
  <2>4. QED BY <2>1, <2>2, <2>3
<1>3. Running'
  BY DEF TTLInv, Running
<1>4. Expired'
  BY <1>1 DEF TTLInv, Expired
<1>5. QED BY <1>2, <1>3, <1>4 DEF TTLInv

LEMMA StepTTL == TTLInv /\ [Next]_vars => TTLInv'
<1> SUFFICES ASSUME TTLInv, [Next]_vars PROVE TTLInv'
  OBVIOUS
<1>0. TypeOK /\ TypeOK'
  BY StepKeysType DEF TTLInv
<1> USE TTLAssumption
<1>1. CASE Tick
  <2>1. UNCHANGED <<row, req>>
    BY <1>1 DEF Tick, table
  <2>2. \A k \in Keys : /\ ttl[k] \in 0..TTL /\ age[k] \in 0..TTL
                        /\ ttl'[k] = IF ttl[k] = 0 THEN 0 ELSE ttl[k] - 1
                        /\ age'[k] = IF row[k] # "deleted" \/ Filling(k) THEN 0
                                     ELSE IF age[k] < TTL THEN age[k] + 1 ELSE TTL
    BY <1>0, <1>1 DEF Tick, Left, TypeOK
  <2>3. Existing'
    BY <2>1, <2>2 DEF Existing, Filling
  <2>4. Running'
    <3>1. SUFFICES ASSUME NEW k \in Keys PROVE ttl'[k] + age'[k] <= TTL
      BY DEF Running
    <3>2. ttl[k] + age[k] <= TTL
      BY DEF TTLInv, Running
    <3>3. QED BY <2>2, <3>2
  <2>5. Expired'
    <3>1. SUFFICES ASSUME NEW r \in Requests, req[r].expired
                   PROVE  age'[req[r].key] = TTL
      BY <2>1 DEF TTLInv, Expired
    <3>2. req[r].key \in Keys
      BY <1>0 DEF TypeOK
    <3>3. row[req[r].key] = "deleted" /\ age[req[r].key] = TTL
      BY <3>1 DEF TTLInv, Expired
    <3>4. ~Filling(req[r].key)
      BY <3>2, <3>3 DEF TTLInv, Existing
    <3>5. QED BY <2>2, <3>2, <3>3, <3>4
  <2>6. QED BY <1>0, <2>3, <2>4, <2>5 DEF TTLInv
<1>2. ASSUME NEW u \in Users, NEW k \in Keys, Create(u, k) PROVE TTLInv'
  <2>1. row[k] = "none" /\ UNCHANGED <<ttl, req, age>>
        /\ \A j \in Keys : row'[j] = IF j = k THEN u ELSE row[j]
    BY <1>0, <1>2 DEF Create, TypeOK
  <2>2. Existing'
    BY <2>1 DEF TTLInv, Existing, Filling
  <2>3. Expired'
    BY <1>0, <2>1 DEF TTLInv, Expired, TypeOK
  <2>4. QED BY <1>0, <2>1, <2>2, <2>3 DEF TTLInv, Running
<1>2a. ASSUME NEW k \in Keys, AuditAndTell(k) PROVE TTLInv'
  BY <1>0, <1>2a DEF AuditAndTell, TTLInv, Existing, Filling, Running, Expired
<1>3. ASSUME NEW d \in Removers, NEW u \in Users, NEW k \in Keys, AskRemoval(d, u, k)
      PROVE  TTLInv'
  BY <1>0, <1>3 DEF AskRemoval, table, TTLInv, Existing, Filling, Running, Expired
<1>4. ASSUME NEW d \in Removers, Verify(d) PROVE TTLInv'
  BY <1>0, <1>4 DEF Verify, table, TTLInv, Existing, Filling, Running, Expired
<1>5. ASSUME NEW d \in Removers, Drop(d) PROVE TTLInv'
  <2>1. /\ UNCHANGED <<ttl, req, age>>
        /\ \A j \in Keys : row'[j] = row[j] \/ row'[j] = "deleted"
    BY <1>0, <1>5 DEF Drop, TypeOK
  <2>2. Existing'
    BY <2>1 DEF TTLInv, Existing, Filling
  <2>3. Expired'
    BY <1>0, <2>1 DEF TTLInv, Expired, TypeOK
  <2>4. QED BY <1>0, <2>1, <2>2, <2>3 DEF TTLInv, Running
<1>6. ASSUME NEW d \in Removers, AuditAndAnswer(d) PROVE TTLInv'
  BY <1>0, <1>6 DEF AuditAndAnswer, TTLInv, Existing, Filling, Running, Expired
<1>7. ASSUME NEW r \in Requests, NEW k \in Keys, Begin(r, k) PROVE TTLInv'
  <2> DEFINE q == [pc |-> "limit", key |-> k, expired |-> row[k] = "deleted" /\ age[k] = TTL]
  <2>1. UNCHANGED <<row, ttl, age>> /\ req' = [req EXCEPT ![r] = q]
    BY <1>7 DEF Begin, table
  <2>2. q.pc = "limit" /\ (q.expired => row[q.key] = "deleted" /\ age[q.key] = TTL)
    OBVIOUS
  <2> HIDE DEF q
  <2>3. QED BY <1>0, <2>1, <2>2, RequestKeepsTTL
<1>8. ASSUME NEW r \in Requests, Throttle(r) PROVE TTLInv'
  <2>1. UNCHANGED <<row, ttl, age>> /\ req[r].pc = "limit"
    BY <1>8 DEF Throttle, table
  <2>2. CASE req' = [req EXCEPT ![r].pc = "get"]
    <3> DEFINE q == [req[r] EXCEPT !.pc = "get"]
    <3>1. req' = [req EXCEPT ![r] = q] /\ q.pc = "get" /\ q.key = req[r].key
          /\ q.expired = req[r].expired
      BY <1>0, <2>2, MovedRequest DEF PCs
    <3>2. q.expired => row[q.key] = "deleted" /\ age[q.key] = TTL
      BY <3>1 DEF TTLInv, Expired
    <3>3. QED BY <1>0, <2>1, <3>1, <3>2, RequestKeepsTTL
  <2>3. CASE req' = [req EXCEPT ![r] = Quiet]
    BY <1>0, <2>1, <2>3, RequestKeepsTTL DEF Quiet
  <2>4. QED BY <1>8, <2>2, <2>3 DEF Throttle
<1>9. ASSUME NEW r \in Requests, CacheGet(r) PROVE TTLInv'
  <2>1. UNCHANGED <<row, ttl, age>> /\ req[r].pc = "get" /\ req[r].key \in Keys
    BY <1>0, <1>9 DEF CacheGet, table, HitKeeps, TypeOK
  <2>2. CASE ttl[req[r].key] > 0 /\ req' = [req EXCEPT ![r].pc = "push"]
    <3> DEFINE q == [req[r] EXCEPT !.pc = "push"]
    <3>1. req' = [req EXCEPT ![r] = q] /\ q.pc = "push" /\ q.key = req[r].key
          /\ q.expired = req[r].expired
      BY <1>0, <2>2 DEF TypeOK
    <3>2. ~q.expired
      <4>1. ttl[q.key] + age[q.key] <= TTL /\ ttl[q.key] \in 0..TTL /\ age[q.key] \in 0..TTL
        BY <1>0, <2>1, <3>1 DEF TTLInv, Running, TypeOK
      <4>2. age[q.key] # TTL
        BY <2>2, <3>1, <4>1
      <4>3. QED BY <3>1, <4>2 DEF TTLInv, Expired
    <3>3. QED BY <1>0, <2>1, <3>1, <3>2, RequestKeepsTTL
  <2>3. CASE req' = [req EXCEPT ![r].pc = "lookup"]
    <3> DEFINE q == [req[r] EXCEPT !.pc = "lookup"]
    <3>1. req' = [req EXCEPT ![r] = q] /\ q.pc = "lookup" /\ q.key = req[r].key
          /\ q.expired = req[r].expired
      BY <1>0, <2>3 DEF TypeOK
    <3>2. q.expired => row[q.key] = "deleted" /\ age[q.key] = TTL
      BY <3>1 DEF TTLInv, Expired
    <3>3. QED BY <1>0, <2>1, <3>1, <3>2, RequestKeepsTTL
  <2>4. QED BY <1>9, <2>2, <2>3 DEF CacheGet
<1>10. ASSUME NEW r \in Requests, Lookup(r) PROVE TTLInv'
  <2>1. UNCHANGED <<row, ttl, age>> /\ req[r].pc = "lookup" /\ req[r].key \in Keys
    BY <1>0, <1>10 DEF Lookup, table, TypeOK
  <2>2. CASE Found(req[r].key) /\ req' = [req EXCEPT ![r].pc = "fill"]
    <3> DEFINE q == [req[r] EXCEPT !.pc = "fill"]
    <3>1. req' = [req EXCEPT ![r] = q] /\ q.pc = "fill" /\ q.key = req[r].key
          /\ q.expired = req[r].expired
      BY <1>0, <2>2 DEF TypeOK
    <3>2. row[q.key] # "deleted"
      BY <2>2, <3>1, UsersAssumption DEF Found
    <3>3. age[q.key] = 0
      BY <2>1, <3>1, <3>2 DEF TTLInv, Existing
    <3>4. ~q.expired
      BY <3>1, <3>2 DEF TTLInv, Expired
    <3>5. QED BY <1>0, <2>1, <3>1, <3>3, <3>4, RequestKeepsTTL
  <2>3. CASE req' = [req EXCEPT ![r] = Quiet]
    BY <1>0, <2>1, <2>3, RequestKeepsTTL DEF Quiet
  <2>4. QED BY <1>10, <2>2, <2>3 DEF Lookup
<1>11. ASSUME NEW r \in Requests, Fill(r) PROVE TTLInv'
  <2>1. UNCHANGED <<row, age>> /\ req[r].pc = "fill" /\ req[r].key \in Keys
        /\ req' = [req EXCEPT ![r].pc = "push"]
    BY <1>0, <1>11 DEF Fill, table, TypeOK
  <2>2. \A s \in Requests : /\ req'[s].key = req[s].key
                            /\ req'[s].expired = req[s].expired
                            /\ s # r => req'[s].pc = req[s].pc
                            /\ s = r => req'[s].pc = "push"
    BY <1>0, <2>1 DEF TypeOK
  <2>3. Existing'
    BY <2>1, <2>2 DEF TTLInv, Existing, Filling
  <2>4. age[req[r].key] = 0 /\ ~req[r].expired
    BY <2>1 DEF TTLInv, Existing, Filling, Expired
  <2>5. Running'
    <3>1. \A k \in Keys : ttl'[k] = ttl[k] \/ (k = req[r].key /\ ttl'[k] = TTL)
      BY <1>0, <1>11 DEF Fill, TypeOK
    <3>2. QED BY <2>1, <2>4, <3>1 DEF TTLInv, Running
  <2>6. Expired'
    BY <2>1, <2>2, <2>4 DEF TTLInv, Expired
  <2>7. QED BY <1>0, <2>3, <2>5, <2>6 DEF TTLInv
<1>12. ASSUME NEW r \in Requests, Refuse(r) \/ Push(r) PROVE TTLInv'
  <2>1. UNCHANGED <<row, ttl, age>> /\ req' = [req EXCEPT ![r] = Quiet]
    BY <1>12 DEF Refuse, Push, table
  <2>2. QED BY <1>0, <2>1, RequestKeepsTTL DEF Quiet
<1>13. CASE UNCHANGED vars
  BY <1>0, <1>13 DEF vars, table, TTLInv, Existing, Filling, Running, Expired
<1>14. QED
  BY <1>1, <1>2, <1>2a, <1>3, <1>4, <1>5, <1>6, <1>7, <1>8, <1>9, <1>10, <1>11, <1>12, <1>13
     DEF Next, Inner

(***************************************************************************)
(* The key of a deleted project is refused from one time to live after the *)
(* deletion on, or after the last entry that a request which had still     *)
(* found the project stored: however many requests there are, whatever     *)
(* fails, and although no deletion touches the cache.                      *)
(***************************************************************************)
THEOREM KeyExpires == Spec => []RefusedAfterTTL
<1>1. TTLInv => RefusedAfterTTL
  BY DEF TTLInv, Expired, RefusedAfterTTL
<1>2. QED BY <1>1, InitTTL, StepTTL, PTL DEF Spec

-----------------------------------------------------------------------------
(* The audit log.                                                          *)

LEMMA StepRecorded == TypeOK /\ DeletionRecorded /\ [Next]_vars => DeletionRecorded'
<1> SUFFICES ASSUME TypeOK, DeletionRecorded, [Next]_vars PROVE DeletionRecorded'
  OBVIOUS
<1>1. ASSUME UNCHANGED table, UNCHANGED removal PROVE DeletionRecorded'
  BY <1>1 DEF table, DeletionRecorded
<1>2. ASSUME NEW d \in Removers, removal[d].pc # "audit", UNCHANGED table, NEW x,
             removal' = [removal EXCEPT ![d] = x]
      PROVE  DeletionRecorded'
  BY <1>2 DEF table, DeletionRecorded, TypeOK
<1>3. ASSUME NEW d \in Removers, Drop(d) PROVE DeletionRecorded'
  <2>1. /\ removal[d].pc = "delete" /\ removal[d].key \in Keys
        /\ recorded' = recorded /\ unsure \subseteq unsure'
        /\ \A e \in Removers \ {d} : removal'[e] = removal[e]
        /\ \A k \in Keys : k # removal[d].key => row'[k] = row[k]
    BY <1>3 DEF Drop, TypeOK
  <2>2. removal[d].key \in unsure' \/ (/\ removal'[d].pc = "audit"
                                       /\ removal'[d].key = removal[d].key)
    BY <1>3 DEF Drop, TypeOK
  <2>3. SUFFICES ASSUME NEW k \in Keys, row'[k] = "deleted"
                 PROVE  \/ k \in recorded' \cup unsure'
                        \/ \E e \in Removers : removal'[e].pc = "audit" /\ removal'[e].key = k
    BY DEF DeletionRecorded
  <2>4. CASE k = removal[d].key
    BY <2>2, <2>4
  <2>5. CASE k # removal[d].key
    <3>1. \/ k \in recorded \cup unsure
          \/ \E e \in Removers : removal[e].pc = "audit" /\ removal[e].key = k
      BY <2>1, <2>3, <2>5 DEF DeletionRecorded
    <3>2. CASE k \in recorded \cup unsure
      BY <2>1, <3>2
    <3>3. ASSUME NEW e \in Removers, removal[e].pc = "audit", removal[e].key = k
          PROVE  removal'[e].pc = "audit" /\ removal'[e].key = k
      BY <2>1, <3>3
    <3>4. QED BY <3>1, <3>2, <3>3
  <2>6. QED BY <2>4, <2>5
<1>4. ASSUME NEW d \in Removers, AuditAndAnswer(d) PROVE DeletionRecorded'
  <2>1. /\ row' = row /\ recorded \subseteq recorded' /\ unsure \subseteq unsure'
        /\ removal[d].key \in recorded' \cup unsure'
        /\ \A e \in Removers \ {d} : removal'[e] = removal[e]
    BY <1>4 DEF AuditAndAnswer, Record, TypeOK
  <2>2. QED BY <2>1 DEF DeletionRecorded
<1>5. ASSUME NEW u \in Users, NEW k \in Keys, Create(u, k) PROVE DeletionRecorded'
  BY <1>5, UsersAssumption DEF Create, DeletionRecorded, TypeOK
<1>5a. ASSUME NEW k \in Keys, AuditAndTell(k) PROVE DeletionRecorded'
  BY <1>5a DEF AuditAndTell, DeletionRecorded
<1>6. ASSUME NEW d \in Removers, NEW u \in Users, NEW k \in Keys, AskRemoval(d, u, k)
      PROVE  DeletionRecorded'
  BY <1>6, <1>2 DEF AskRemoval
<1>7. ASSUME NEW d \in Removers, Verify(d) PROVE DeletionRecorded'
  BY <1>7 DEF Verify, NoDrop, table, DeletionRecorded, TypeOK
<1>8. CASE Tick
  BY <1>1, <1>8 DEF Tick
<1>9. ASSUME NEW r \in Requests,
             \/ \E k \in Keys : Begin(r, k)
             \/ Throttle(r) \/ CacheGet(r) \/ Lookup(r) \/ Fill(r) \/ Refuse(r) \/ Push(r)
      PROVE  DeletionRecorded'
  BY <1>1, <1>9 DEF Begin, Throttle, CacheGet, Lookup, Fill, Refuse, Push
<1>10. CASE UNCHANGED vars
  BY <1>1, <1>10 DEF vars
<1>11. QED
  BY <1>3, <1>4, <1>5, <1>5a, <1>6, <1>7, <1>8, <1>9, <1>10 DEF Next, Inner

(***************************************************************************)
(* No deleted project lacks its audit entry, but for the one a request is  *)
(* about to write and those of which a write failed, with every            *)
(* interleaving of deletions of the same project.                          *)
(***************************************************************************)
THEOREM DeletionsRecorded == Spec => []DeletionRecorded
<1>1. Init => DeletionRecorded
  BY DEF Init, DeletionRecorded
<1>2. QED BY <1>1, InitKeysType, StepKeysType, StepRecorded, PTL DEF Spec

-----------------------------------------------------------------------------
(* ProjectLife: the keys and the issues of one project.                    *)

\* LifeNext has the actions of ProjectKeys as its conjuncts.
LEMMA LifeImplementsKeys == LifeSpec => Spec
<1>1. LifeInit => Init
  BY DEF LifeInit
<1>2. [LifeNext]_lifeVars => [Next]_vars
  BY DEF LifeNext, lifeVars, PushEvent, DropProject, Next
<1> QED
  BY <1>1, <1>2, PTL DEF LifeSpec, Spec

\* Before its project is created a key opens nothing and nothing is removed.
Unborn(k) ==
    /\ ttl[k] = 0
    /\ \A r \in Requests : req[r].key = k => req[r].pc \notin {"fill", "push"}
    /\ \A d \in Removers : removal[d].key = k => removal[d].pc = "idle"

\* No event is accepted before the project is created.
LifeInv ==
    /\ TypeOK
    /\ row[Wrong] = "none"
    /\ \A k \in Keys : row[k] = "none" => Unborn(k)
    /\ row[Watched] = "none" => clock = 0

LEMMA InitLife == LifeInit => LifeInv
<1> SUFFICES ASSUME LifeInit PROVE LifeInv
  OBVIOUS
<1>1. TypeOK
  BY InitKeysType DEF LifeInit
<1> QED
  BY <1>1, KeysAssumption, WatchedAssumption
  DEF LifeInit, Init, Issues!Init, LifeInv, Unborn, Quiet, NoDrop

LEMMA UnbornStays ==
    ASSUME LifeInv, [Next]_vars, NEW k \in Keys, row'[k] = "none"
    PROVE  row[k] = "none" /\ Unborn(k)'
<1> USE DEF LifeInv
<1>1. CASE UNCHANGED vars
  BY <1>1 DEF Unborn, vars, table
<1>2. CASE Tick
  BY <1>2 DEF Tick, TypeOK, Unborn, Left, table
<1>3. ASSUME NEW u \in Users, NEW j \in Keys, Create(u, j)
      PROVE  row[k] = "none" /\ Unborn(k)'
  BY <1>3, UsersAssumption DEF Create, TypeOK, Unborn
<1>3a. ASSUME NEW j \in Keys, AuditAndTell(j)
       PROVE  row[k] = "none" /\ Unborn(k)'
  BY <1>3a DEF AuditAndTell, Unborn
<1>4. ASSUME NEW d \in Removers, NEW u \in Users, NEW j \in Keys, AskRemoval(d, u, j)
      PROVE  row[k] = "none" /\ Unborn(k)'
  BY <1>4 DEF AskRemoval, TypeOK, Unborn, table
<1>5. ASSUME NEW d \in Removers, Verify(d) \/ AuditAndAnswer(d)
      PROVE  row[k] = "none" /\ Unborn(k)'
  BY <1>5 DEF Verify, AuditAndAnswer, TypeOK, Unborn, NoDrop, table
<1>6. ASSUME NEW d \in Removers, Drop(d)
      PROVE  row[k] = "none" /\ Unborn(k)'
  BY <1>6 DEF Drop, TypeOK, Unborn, NoDrop
<1>7. ASSUME NEW r \in Requests, NEW j \in Keys, Begin(r, j)
      PROVE  row[k] = "none" /\ Unborn(k)'
  BY <1>7 DEF Begin, TypeOK, Unborn, table
<1>8. ASSUME NEW r \in Requests, Throttle(r) \/ Refuse(r) \/ Push(r)
      PROVE  row[k] = "none" /\ Unborn(k)'
  BY <1>8 DEF Throttle, Refuse, Push, TypeOK, Unborn, Quiet, table
<1>9. ASSUME NEW r \in Requests, CacheGet(r)
      PROVE  row[k] = "none" /\ Unborn(k)'
  BY <1>9 DEF CacheGet, HitKeeps, TypeOK, Unborn, table
<1>10. ASSUME NEW r \in Requests, Lookup(r)
       PROVE  row[k] = "none" /\ Unborn(k)'
  BY <1>10, UsersAssumption DEF Lookup, Found, TypeOK, Unborn, Quiet, table
<1>11. ASSUME NEW r \in Requests, Fill(r)
       PROVE  row[k] = "none" /\ Unborn(k)'
  BY <1>11 DEF Fill, TypeOK, Unborn, table
<1> QED
  BY <1>1, <1>2, <1>3, <1>3a, <1>4, <1>5, <1>6, <1>7, <1>8, <1>9, <1>10, <1>11 DEF Next, Inner

LEMMA WrongStays ==
    ASSUME LifeInv, [Next]_vars
    PROVE  row'[Wrong] = "none"
<1> USE DEF LifeInv
<1>1. UNCHANGED row \/ (\E u \in Users, k \in Keys : Create(u, k)) \/ \E d \in Removers : Drop(d)
  BY DEF vars, table, Next, Inner, Tick, AuditAndTell, AskRemoval, Verify, AuditAndAnswer, Begin,
         Throttle, CacheGet, Lookup, Fill, Refuse, Push
<1>2. ASSUME NEW u \in Users, NEW k \in Keys, Create(u, k)
      PROVE  row'[Wrong] = "none"
  BY <1>2, KeysAssumption DEF Create, TypeOK
<1>3. ASSUME NEW d \in Removers, Drop(d)
      PROVE  row'[Wrong] = "none"
  BY <1>3, KeysAssumption DEF Drop, Unborn, TypeOK
<1> QED
  BY <1>1, <1>2, <1>3

LEMMA StepLife == LifeInv /\ [LifeNext]_lifeVars => LifeInv'
<1> SUFFICES ASSUME LifeInv, [LifeNext]_lifeVars PROVE LifeInv'
  OBVIOUS
<1>1. [Next]_vars
  BY DEF LifeNext, lifeVars, PushEvent, DropProject, Next
<1>2. TypeOK'
  BY <1>1, StepKeysType DEF LifeInv
<1>3. row'[Wrong] = "none" /\ \A k \in Keys : row'[k] = "none" => Unborn(k)'
  BY <1>1, UnbornStays, WrongStays
<1>4. ASSUME row'[Watched] = "none"
      PROVE  clock' = 0
  <2>1. row[Watched] = "none" /\ clock = 0
    BY <1>1, <1>4, UnbornStays, WatchedAssumption DEF LifeInv
  <2>2. CASE \E r \in Requests : PushEvent(r)
    BY <2>1, <2>2, WatchedAssumption, KeysAssumption
    DEF PushEvent, Push, LifeInv, Unborn, TypeOK
  <2>3. CASE UNCHANGED clock
    BY <2>1, <2>3
  <2> QED
    BY <2>2, <2>3 DEF LifeNext, lifeVars, issueVars, DropProject, Issues!Cascade, Issues!Work,
       Issues!Browse, Issues!Store, Issues!Bury, Issues!Open, Issues!CheckOwner, Issues!Select,
       Issues!Close, Issues!data
<1> QED
  BY <1>2, <1>3, <1>4 DEF LifeInv

\* A step of the whole is one of the list, or none.
LEMMA LifeListStep == LifeInv /\ [LifeNext]_lifeVars => [Issues!Next]_(Issues!vars)
<1> SUFFICES ASSUME LifeInv, [LifeNext]_lifeVars PROVE [Issues!Next]_(Issues!vars)
  OBVIOUS
<1>1. CASE UNCHANGED lifeVars
  BY <1>1 DEF lifeVars, issueVars, vars, table, alive, Issues!vars, Issues!data
<1>2. CASE Inner /\ UNCHANGED issueVars
  <2>1. CASE UNCHANGED row
    BY <1>2, <2>1 DEF alive, issueVars, Issues!vars, Issues!data
  <2>2. CASE \E u \in Users, k \in Keys : Create(u, k)
    <3>1. PICK u \in Users, k \in Keys : Create(u, k)
      BY <2>2
    <3>2. CASE k = Watched
      <4>1. ~alive /\ alive' /\ clock = 0
        BY <3>1, <3>2, WatchedAssumption, UsersAssumption DEF Create, alive, LifeInv, TypeOK
      <4> QED
        BY <1>2, <4>1 DEF Issues!Next, Issues!data, issueVars, alive
    <3>3. CASE k # Watched
      <4>1. alive' = alive
        BY <3>1, <3>3 DEF Create, alive, LifeInv, TypeOK
      <4> QED
        BY <1>2, <4>1 DEF issueVars, Issues!vars, Issues!data
    <3> QED
      BY <3>2, <3>3
  <2> QED
    BY <1>2, <2>1, <2>2 DEF Inner, Tick, AuditAndTell, AskRemoval, Verify, AuditAndAnswer, Begin,
       Throttle, CacheGet, Lookup, Fill, Refuse, table
<1>3. CASE \E r \in Requests : PushEvent(r)
  BY <1>3 DEF PushEvent, Push, table, alive, Issues!Next
<1>4. CASE \E d \in Removers : DropProject(d)
  BY <1>4 DEF DropProject, alive, issueVars, Issues!Next, Issues!vars, Issues!data
<1>5. CASE (Issues!Work \/ Issues!Browse) /\ UNCHANGED vars
  BY <1>5 DEF vars, table, alive, Issues!Next
<1> QED
  BY <1>1, <1>2, <1>3, <1>4, <1>5 DEF LifeNext

(***************************************************************************)
(* For the list, the project comes into being once, before its first event,*)
(* and goes once, with its issues, whatever ingestion and deletions do:    *)
(* IssueList, which assumes no more, is implemented.                       *)
(***************************************************************************)
THEOREM LifeImplementsList == LifeSpec => Issues!Spec
<1>1. LifeInit => Issues!Init
  BY DEF LifeInit
<1> QED
  BY <1>1, InitLife, StepLife, LifeListStep, PTL DEF LifeSpec, Issues!Spec

-----------------------------------------------------------------------------
(* The issues.                                                             *)

LEMMA InitIssues == Issues!Init => IssuesTyped /\ NoIssueOutlivesProject
<1> SUFFICES ASSUME Issues!Init PROVE IssuesTyped /\ NoIssueOutlivesProject
  OBVIOUS
<1>1. clock \in 0..MaxEvents /\ lastSeen \in [Fingerprints -> 0..MaxEvents]
  BY ListAssumption DEF Issues!Init
<1>2. IssuesTyped
  BY <1>1 DEF Issues!Init, Issues!NoWalk, IssuesTyped, Issues!TypeOK, alive
<1>3. NoIssueOutlivesProject
  BY DEF Issues!Init, NoIssueOutlivesProject, Issues!NoIssueOutlivesProject, Issues!Rows
<1> QED
  BY <1>2, <1>3

LEMMA StepIssuesTyped == IssuesTyped /\ [Issues!Next]_(Issues!vars) => IssuesTyped'
<1> SUFFICES ASSUME Issues!TypeOK, [Issues!Next]_(Issues!vars) PROVE Issues!TypeOK'
  BY DEF IssuesTyped
<1> DEFINE Walks == [pc : {"idle", "owner", "select", "end"}, page : Nat \ {0},
                     shown : SUBSET Fingerprints, listed : SUBSET Fingerprints,
                     touched : SUBSET Fingerprints, doubtful : SUBSET Fingerprints]
<1>1. /\ clock \in 0..MaxEvents /\ backlog \subseteq Issues!Events
      /\ lastSeen \in [Fingerprints -> 0..MaxEvents] /\ walk \in Walks
  BY DEF Issues!TypeOK
<1>2. ASSUME clock' \in 0..MaxEvents, backlog' \subseteq Issues!Events,
             lastSeen' \in [Fingerprints -> 0..MaxEvents], walk' \in Walks
      PROVE  Issues!TypeOK'
  BY <1>2 DEF Issues!TypeOK, Issues!Events, alive
<1>3. Issues!NoWalk \in Walks /\ Issues!Rows \subseteq Fingerprints
  BY DEF Issues!NoWalk, Issues!Rows
<1>4. ASSUME NEW f \in Fingerprints, Issues!Accept(f)
      PROVE  Issues!TypeOK'
  BY <1>1, <1>2, <1>4, ListAssumption DEF Issues!Accept, Issues!Events
<1>5. ASSUME NEW e \in backlog, Issues!Store(e)
      PROVE  Issues!TypeOK'
  <2>1. e.fp \in Fingerprints /\ e.time \in 0..MaxEvents
    BY <1>1 DEF Issues!Events
  <2>2. lastSeen' \in [Fingerprints -> 0..MaxEvents] /\ clock' = clock
    BY <1>1, <1>5, <2>1 DEF Issues!Store
  <2>3. backlog' \subseteq Issues!Events
    BY <1>1, <1>5 DEF Issues!Store
  <2>4. walk' \in Walks
    <3>1. walk.doubtful \cup Issues!Passed(e) \in SUBSET Fingerprints
      BY <1>1 DEF Issues!Passed, Issues!Rows
    <3>2. walk.touched \cup {e.fp} \in SUBSET Fingerprints
      BY <1>1, <2>1
    <3> QED
      BY <1>1, <1>5, <3>1, <3>2 DEF Issues!Store
  <2> QED
    BY <1>1, <1>2, <2>2, <2>3, <2>4
<1>6. ASSUME NEW e \in backlog, Issues!Bury(e)
      PROVE  Issues!TypeOK'
  BY <1>1, <1>2, <1>6 DEF Issues!Bury
<1>7. CASE Issues!Open
  <2>1. PICK raw \in {0, 1} :
          walk' = [Issues!NoWalk EXCEPT !.pc = "owner", !.page = Issues!PageOf(raw),
                                        !.listed = Issues!Rows]
    BY <1>7 DEF Issues!Open
  <2>2. Issues!PageOf(raw) \in Nat \ {0}
    BY DEF Issues!PageOf
  <2>3. walk' \in Walks
    BY <1>3, <2>1, <2>2
  <2> QED
    BY <1>1, <1>2, <1>7, <2>3 DEF Issues!Open, Issues!data
<1>8. CASE Issues!CheckOwner
  <2>1. walk' \in Walks
    BY <1>1, <1>3, <1>8 DEF Issues!CheckOwner
  <2> QED
    BY <1>1, <1>2, <1>8, <2>1 DEF Issues!CheckOwner, Issues!data
<1>9. CASE Issues!Select
  <2>1. PICK S \in Issues!Pages(walk.page), last \in {walk.page * Limit >= Issues!Total(walk.page)} :
          walk' = [walk EXCEPT !.shown = walk.shown \cup S,
                               !.doubtful = walk.doubtful \cup Issues!Split(walk.page),
                               !.pc = IF last THEN "end" ELSE "owner",
                               !.page = IF last THEN walk.page ELSE walk.page + 1]
    BY <1>9 DEF Issues!Select
  <2>2. /\ (IF last THEN "end" ELSE "owner") \in {"idle", "owner", "select", "end"}
        /\ (IF last THEN walk.page ELSE walk.page + 1) \in Nat \ {0}
    BY <1>1
  <2>3. /\ walk.shown \cup S \in SUBSET Fingerprints
        /\ walk.doubtful \cup Issues!Split(walk.page) \in SUBSET Fingerprints
    BY <1>1 DEF Issues!Pages, Issues!Split, Issues!Rows
  <2>4. walk' \in Walks
    BY <1>1, <2>1, <2>2, <2>3
  <2> QED
    BY <1>1, <1>2, <1>9, <2>4 DEF Issues!Select, Issues!data
<1>10. CASE Issues!Close
  BY <1>1, <1>2, <1>3, <1>10 DEF Issues!Close, Issues!data
<1>11. CASE UNCHANGED <<Issues!data, walk>>
  BY <1>1, <1>2, <1>11 DEF Issues!data
<1>12. CASE Issues!Cascade
  <2>1. lastSeen' \in [Fingerprints -> 0..MaxEvents]
    BY <1>12, ListAssumption DEF Issues!Cascade
  <2> QED
    BY <1>1, <1>2, <1>12, <2>1 DEF Issues!Cascade
<1> QED
  BY <1>4, <1>5, <1>6, <1>7, <1>8, <1>9, <1>10, <1>11, <1>12
  DEF Issues!Next, Issues!Work, Issues!Browse, Issues!vars

LEMMA StepNoIssue ==
    NoIssueOutlivesProject /\ [Issues!Next]_(Issues!vars) => NoIssueOutlivesProject'
<1> SUFFICES ASSUME NoIssueOutlivesProject, [Issues!Next]_(Issues!vars), ~alive'
             PROVE  Issues!Rows' = {}
  BY DEF NoIssueOutlivesProject, Issues!NoIssueOutlivesProject
<1>1. CASE Issues!Cascade
  BY <1>1 DEF Issues!Cascade, Issues!Rows
<1>2. CASE UNCHANGED <<alive, lastSeen>>
  BY <1>2 DEF NoIssueOutlivesProject, Issues!NoIssueOutlivesProject, Issues!Rows
<1>3. ASSUME NEW e \in backlog, Issues!Store(e), UNCHANGED alive
      PROVE  FALSE
  BY <1>3 DEF Issues!Store, Issues!Storable
<1>4. CASE Issues!Browse /\ UNCHANGED alive
  <2>1. UNCHANGED lastSeen
    BY <1>4 DEF Issues!Browse, Issues!Open, Issues!CheckOwner, Issues!Select, Issues!Close,
       Issues!data
  <2> QED
    BY <1>2, <1>4, <2>1
<1>5. ASSUME NEW e \in backlog, Issues!Bury(e), UNCHANGED alive
      PROVE  Issues!Rows' = {}
  BY <1>2, <1>5 DEF Issues!Bury
<1>6. ASSUME NEW f \in Fingerprints, Issues!Accept(f), UNCHANGED alive
      PROVE  Issues!Rows' = {}
  BY <1>2, <1>6 DEF Issues!Accept
<1>7. CASE UNCHANGED Issues!vars
  BY <1>2, <1>7 DEF Issues!vars, Issues!data
<1> QED
  BY <1>1, <1>3, <1>4, <1>5, <1>6, <1>7 DEF Issues!Next, Issues!Work

(***************************************************************************)
(* The state of the list keeps its types through the life of the project.  *)
(***************************************************************************)
THEOREM ListTyped == LifeSpec => []IssuesTyped
<1>1. LifeInit => IssuesTyped
  BY InitIssues DEF LifeInit
<1> QED
  BY <1>1, InitLife, StepLife, LifeListStep, StepIssuesTyped, PTL DEF LifeSpec

(***************************************************************************)
(* So does the whole: cache, requests and deletions on the one side, issues*)
(* and the walk through their pages on the other.                          *)
(***************************************************************************)
THEOREM LifeTyped == LifeSpec => []LifeTypeOK
<1>1. TypeOK /\ IssuesTyped => LifeTypeOK
  BY DEF LifeTypeOK
<1> QED
  BY <1>1, LifeImplementsKeys, TypeCorrect, ListTyped, PTL

(***************************************************************************)
(* A deleted project has no issues: the events that its cached key still   *)
(* lets in, and those the worker still holds, are refused by the foreign   *)
(* key, however long they are retried.                                     *)
(***************************************************************************)
THEOREM IssuesGone == LifeSpec => []NoIssueOutlivesProject
<1>1. LifeInit => NoIssueOutlivesProject
  BY InitIssues DEF LifeInit
<1> QED
  BY <1>1, InitLife, StepLife, LifeListStep, StepNoIssue, PTL DEF LifeSpec

-----------------------------------------------------------------------------
(* Paging.                                                                 *)

Before(f) == {g \in Issues!Rows : Issues!Sooner(g, f)}

\* No time is ahead of the clock.
Timely ==
    /\ \A e \in backlog : e.time <= clock
    /\ \A f \in Fingerprints : lastSeen[f] <= clock

\* The issues that the walk promises to show.
Promised == walk.listed \ (walk.touched \cup walk.doubtful)

\* What an unfinished walk has not shown of them is on a page to come.
Unshown ==
    /\ clock = 0 => backlog = {} /\ walk.listed = {}
    /\ alive /\ walk.pc # "idle" =>
         \A f \in Promised :
            /\ lastSeen[f] > 0
            /\ \/ f \in walk.shown
               \/ walk.pc # "end" /\ Issues!Rank(f) >= (walk.page - 1) * Limit

WalkInv == IssuesTyped /\ Timely /\ Unshown

LEMMA SameCardinality == \A S : Issues!Cardinality(S) = Cardinality(S)
BY DEF Issues!Cardinality, Cardinality

LEMMA RankIsBefore == \A f : Issues!Rank(f) = Cardinality(Before(f))
BY SameCardinality DEF Issues!Rank, Before

LEMMA RowsFinite ==
    /\ IsFiniteSet(Issues!Rows) /\ Cardinality(Issues!Rows) \in Nat
    /\ \A f : /\ Before(f) \subseteq Issues!Rows /\ IsFiniteSet(Before(f))
              /\ Issues!Rank(f) \in Nat
<1>1. IsFiniteSet(Issues!Rows)
  BY ListAssumption, FS_Subset DEF Issues!Rows
<1>2. \A f : Before(f) \subseteq Issues!Rows
  BY DEF Before
<1> QED
  BY <1>1, <1>2, FS_Subset, FS_CardinalityType, RankIsBefore

\* A set within another, and not the same, has fewer elements.
LEMMA FewerWithin ==
    ASSUME NEW S, IsFiniteSet(S), NEW T \in SUBSET S, T # S
    PROVE  Cardinality(T) < Cardinality(S)
BY FS_Subset, FS_CardinalityType

LEMMA RankBound ==
    ASSUME WalkInv, NEW f \in Issues!Rows
    PROVE  Issues!Rank(f) \in 0..(Cardinality(Issues!Rows) - 1)
<1>1. lastSeen[f] \in Nat
  BY DEF WalkInv, IssuesTyped, Issues!TypeOK, Issues!Rows
<1>2. f \notin Before(f)
  BY <1>1 DEF Before, Issues!Sooner
<1>3. Issues!Rank(f) < Cardinality(Issues!Rows)
  BY <1>2, RowsFinite, FewerWithin, RankIsBefore
<1> QED
  BY <1>3, RowsFinite

\* A page that does not cut through the rows with the time of f shows f if the
\* places they share are its own.
LEMMA WholeBlock ==
    ASSUME WalkInv, NEW f \in Issues!Rows, NEW n \in Nat \ {0}, NEW S \in Issues!Pages(n),
           f \notin Issues!Split(n), Issues!Rank(f) \in Issues!Window(n)
    PROVE  f \in S
<1> DEFINE T == Issues!Tied(f)
           P == Issues!Places(f)
<1>1. T \subseteq Issues!Rows /\ f \in T
  BY DEF Issues!Tied
<1>2. IsFiniteSet(T) /\ Cardinality(T) \in Nat
  BY <1>1, RowsFinite, FS_Subset, FS_CardinalityType
<1>3. Cardinality(T) >= 1
  BY <1>1, <1>2, FS_EmptySet
<1>4. P = Issues!Rank(f)..(Issues!Rank(f) + Cardinality(T) - 1) /\ Issues!Rank(f) \in Nat
  BY RowsFinite, SameCardinality DEF Issues!Places
<1>5. Cardinality(P) = Cardinality(T)
  <2>1. Issues!Rank(f) \in Int /\ Issues!Rank(f) + Cardinality(T) - 1 \in Int
    BY <1>2, <1>4
  <2>2. Cardinality(Issues!Rank(f)..(Issues!Rank(f) + Cardinality(T) - 1))
          = IF Issues!Rank(f) > Issues!Rank(f) + Cardinality(T) - 1 THEN 0
            ELSE (Issues!Rank(f) + Cardinality(T) - 1) - Issues!Rank(f) + 1
    BY <2>1, FS_Interval
  <2> HIDE DEF P, T
  <2> QED
    BY <1>2, <1>3, <1>4, <2>2
<1>6. P \cap Issues!Window(n) = P
  <2>1. Issues!Rank(f) \in P
    BY <1>2, <1>3, <1>4
  <2> QED
    BY <2>1 DEF Issues!Split
<1>7. Cardinality(S \cap T) = Cardinality(P \cap Issues!Window(n))
  BY SameCardinality DEF Issues!Pages
<1>8. S \cap T = T
  BY <1>2, <1>5, <1>6, <1>7, FS_Subset
<1> QED
  BY <1>1, <1>8

\* The rows of a page and of the one before it.
LEMMA PageArithmetic ==
    ASSUME NEW p \in Nat \ {0}
    PROVE  /\ (p - 1) * Limit \in Nat /\ p * Limit \in Nat
           /\ (p - 1) * Limit + Limit = p * Limit /\ (p + 1) - 1 = p
           /\ (p - 1) * Limit < p * Limit
BY ListAssumption

\* An event moves only the issues that its own passes towards the front.
LEMMA RankKept ==
    ASSUME WalkInv, NEW e \in backlog, Issues!Store(e),
           NEW f \in Issues!Rows, f # e.fp, f \notin Issues!Passed(e)
    PROVE  /\ Issues!Rank(f)' >= Issues!Rank(f) /\ Issues!Rank(f)' \in Nat
           /\ lastSeen'[f] = lastSeen[f]
<1>1. /\ e.fp \in Fingerprints /\ e.time \in Nat \ {0}
      /\ lastSeen \in [Fingerprints -> Nat] /\ f \in Fingerprints
  BY ListAssumption DEF WalkInv, IssuesTyped, Issues!TypeOK, Issues!Events, Issues!Rows
<1>2. /\ lastSeen'[e.fp] = e.time
      /\ \A g \in Fingerprints : g # e.fp => lastSeen'[g] = lastSeen[g]
  BY <1>1 DEF Issues!Store
<1>3. lastSeen[e.fp] > lastSeen[f] => e.time > lastSeen[f]
  BY <1>1 DEF Issues!Passed, Issues!Sooner
<1>4. Before(f) \subseteq Before(f)'
  <2>1. SUFFICES ASSUME NEW g \in Fingerprints, lastSeen[g] > 0, lastSeen[g] > lastSeen[f]
                 PROVE  lastSeen'[g] > 0 /\ lastSeen'[g] > lastSeen'[f]
    BY DEF Before, Issues!Rows, Issues!Sooner
  <2>2. CASE g = e.fp
    BY <1>1, <1>2, <1>3, <2>1, <2>2
  <2>3. CASE g # e.fp
    BY <1>1, <1>2, <2>1, <2>3
  <2> QED
    BY <2>2, <2>3
<1>5. IsFiniteSet(Before(f)')
  BY ListAssumption, FS_Subset DEF Before, Issues!Rows
<1>6. Issues!Rank(f)' = Cardinality(Before(f)') /\ Issues!Rank(f) = Cardinality(Before(f))
  BY SameCardinality DEF Issues!Rank, Before
<1>7. Cardinality(Before(f)) <= Cardinality(Before(f)')
  BY <1>4, <1>5, FS_Subset
<1>8. Cardinality(Before(f)) \in Nat /\ Cardinality(Before(f)') \in Nat
  BY <1>5, RowsFinite, FS_CardinalityType
<1> QED
  BY <1>1, <1>2, <1>6, <1>7, <1>8

LEMMA StoreWalk ==
    ASSUME WalkInv, IssuesTyped', NoIssueOutlivesProject, NEW e \in backlog, Issues!Store(e),
           UNCHANGED alive
    PROVE  Timely' /\ Unshown'
<1>1. /\ e.fp \in Fingerprints /\ e.time \in Nat \ {0} /\ clock \in Nat
      /\ lastSeen \in [Fingerprints -> Nat]
  BY ListAssumption DEF WalkInv, IssuesTyped, Issues!TypeOK, Issues!Events
<1>2. /\ lastSeen'[e.fp] = e.time
      /\ \A g \in Fingerprints : g # e.fp => lastSeen'[g] = lastSeen[g]
      /\ backlog' \subseteq backlog /\ clock' = clock
  BY <1>1 DEF Issues!Store
<1>3. Timely'
  BY <1>1, <1>2 DEF WalkInv, Timely
<1>4. e.time <= clock
  BY DEF WalkInv, Timely
<1>5. clock' # 0
  BY <1>1, <1>2, <1>4
<1>6. ASSUME walk'.pc # "idle", alive', NEW f \in Promised'
      PROVE  /\ lastSeen'[f] > 0
             /\ \/ f \in walk'.shown
                \/ walk'.pc # "end" /\ Issues!Rank(f)' >= (walk'.page - 1) * Limit
  <2>1. /\ walk.pc # "idle" /\ walk'.pc = walk.pc /\ walk'.page = walk.page
        /\ walk'.listed = walk.listed /\ walk'.shown = walk.shown
        /\ walk'.touched = walk.touched \cup {e.fp}
        /\ walk'.doubtful = walk.doubtful \cup Issues!Passed(e)
    BY <1>6 DEF Issues!Store, WalkInv, IssuesTyped, Issues!TypeOK
  <2>2. /\ f \in Promised /\ f # e.fp /\ f \notin Issues!Passed(e)
        /\ f \in Fingerprints
    BY <1>6, <2>1 DEF Promised, WalkInv, IssuesTyped, Issues!TypeOK
  <2>3. /\ lastSeen[f] > 0
        /\ f \in walk.shown \/ (walk.pc # "end" /\ Issues!Rank(f) >= (walk.page - 1) * Limit)
    BY <1>6, <2>1, <2>2 DEF WalkInv, Unshown
  <2>4. f \in Issues!Rows
    BY <2>2, <2>3 DEF Issues!Rows
  <2>5. /\ Issues!Rank(f)' >= Issues!Rank(f) /\ Issues!Rank(f)' \in Nat
        /\ lastSeen'[f] = lastSeen[f]
    BY <2>1, <2>2, <2>4, RankKept
  <2>6. Issues!Rank(f) \in Nat /\ (walk.page - 1) * Limit \in Nat
    <3>1. walk.page \in Nat \ {0}
      BY DEF WalkInv, IssuesTyped, Issues!TypeOK
    <3> QED
      BY <3>1, RowsFinite, PageArithmetic
  <2> QED
    BY <2>1, <2>3, <2>5, <2>6
<1> QED
  BY <1>3, <1>5, <1>6 DEF Unshown

LEMMA SelectWalk ==
    ASSUME WalkInv, Issues!Select, UNCHANGED alive
    PROVE  Timely' /\ Unshown'
<1> DEFINE p == walk.page
           more == ~(p * Limit >= Issues!Total(p))
<1>1. walk.pc = "select" /\ UNCHANGED <<clock, backlog, lastSeen>>
  BY DEF Issues!Select, Issues!data
<1>2. Timely'
  BY <1>1 DEF WalkInv, Timely
<1>3. PICK S \in Issues!Pages(p) :
         /\ walk'.shown = walk.shown \cup S
         /\ walk'.pc = IF more THEN "owner" ELSE "end"
         /\ walk'.page = IF more THEN p + 1 ELSE p
         /\ walk'.listed = walk.listed /\ walk'.touched = walk.touched
         /\ walk'.doubtful = walk.doubtful \cup Issues!Split(p) /\ p \in Nat \ {0}
  BY DEF Issues!Select, WalkInv, IssuesTyped, Issues!TypeOK
<1>4. ASSUME alive', NEW f \in Promised'
      PROVE  /\ lastSeen'[f] > 0
             /\ \/ f \in walk'.shown
                \/ walk'.pc # "end" /\ Issues!Rank(f)' >= (walk'.page - 1) * Limit
  <2>0. f \in Promised /\ f \notin Issues!Split(p)
    BY <1>3, <1>4 DEF Promised
  <2>1. /\ lastSeen[f] > 0
        /\ f \in walk.shown \/ Issues!Rank(f) >= (p - 1) * Limit
    BY <1>1, <1>4, <2>0 DEF WalkInv, Unshown
  <2>2. f \in Issues!Rows
    BY <2>0, <2>1 DEF Promised, WalkInv, IssuesTyped, Issues!TypeOK, Issues!Rows
  <2>3. Issues!Rank(f)' = Issues!Rank(f) /\ lastSeen' = lastSeen
    BY <1>1 DEF Issues!Rank, Issues!Rows, Issues!Sooner
  <2>4. CASE f \in walk.shown
    BY <1>3, <2>1, <2>3, <2>4
  <2>5. CASE Issues!Rank(f) \in Issues!Window(p)
    <3>1. f \in S
      BY <1>3, <2>0, <2>2, <2>5, WholeBlock
    <3> QED
      BY <1>3, <2>1, <2>3, <3>1
  <2>6. CASE f \notin walk.shown /\ Issues!Rank(f) \notin Issues!Window(p)
    <3>1. Issues!Rank(f) \in 0..(Cardinality(Issues!Rows) - 1) /\ Cardinality(Issues!Rows) \in Nat
      BY <2>2, RankBound, RowsFinite
    <3>2. /\ (p - 1) * Limit \in Nat /\ p * Limit \in Nat /\ (p + 1) - 1 = p
          /\ (p - 1) * Limit < p * Limit
      BY <1>3, PageArithmetic
    <3>3. Issues!Rank(f) >= p * Limit
      BY <2>1, <2>6, <3>1, <3>2 DEF Issues!Window
    <3>4. Issues!Total(p) = Cardinality(Issues!Rows)
      BY <3>1, <3>2, <3>3, SameCardinality DEF Issues!Total
    <3>5. more
      BY <3>1, <3>2, <3>3, <3>4
    <3> QED
      BY <1>3, <2>1, <2>3, <3>2, <3>3, <3>5
  <2> QED
    BY <2>4, <2>5, <2>6
<1>5. clock' = 0 => backlog' = {} /\ walk'.listed = {}
  BY <1>1, <1>3 DEF WalkInv, Unshown
<1> QED
  BY <1>2, <1>4, <1>5 DEF Unshown

LEMMA StepWalk ==
    WalkInv /\ NoIssueOutlivesProject /\ [Issues!Next]_(Issues!vars) => WalkInv'
<1> SUFFICES ASSUME WalkInv, NoIssueOutlivesProject, [Issues!Next]_(Issues!vars)
             PROVE  WalkInv'
  OBVIOUS
<1>1. IssuesTyped'
  BY StepIssuesTyped DEF WalkInv
<1> SUFFICES Timely' /\ Unshown'
  BY <1>1 DEF WalkInv
<1>2. IssuesTyped /\ Timely /\ Unshown
  BY DEF WalkInv
<1>3. ASSUME UNCHANGED lastSeen
      PROVE  \A f : Issues!Rank(f)' = Issues!Rank(f)
  BY <1>3 DEF Issues!Rank, Issues!Rows, Issues!Sooner
<1>4. ASSUME UNCHANGED <<alive, clock, lastSeen, walk>>, backlog' \subseteq backlog
      PROVE  Timely' /\ Unshown'
  BY <1>2, <1>3, <1>4 DEF Timely, Unshown, Promised
<1>5. CASE UNCHANGED Issues!vars
  BY <1>4, <1>5 DEF Issues!vars, Issues!data
<1>6. ASSUME NEW f \in Fingerprints, Issues!Accept(f), UNCHANGED alive
      PROVE  Timely' /\ Unshown'
  <2>1. PICK time \in 1..MaxEvents :
          /\ time >= clock /\ clock' = time /\ UNCHANGED <<lastSeen, walk>>
          /\ backlog' = backlog \cup {[fp |-> f, time |-> time]}
          /\ clock \in Nat /\ \A e \in backlog : e.time \in Nat
          /\ \A g \in Fingerprints : lastSeen[g] \in Nat
    BY <1>2, <1>6, ListAssumption DEF Issues!Accept, IssuesTyped, Issues!TypeOK, Issues!Events
  <2>2. Timely'
    BY <1>2, <2>1 DEF Timely
  <2>3. Unshown'
    BY <1>2, <1>3, <1>6, <2>1 DEF Unshown, Promised
  <2> QED
    BY <2>2, <2>3
<1>7. ASSUME NEW e \in backlog, Issues!Store(e), UNCHANGED alive
      PROVE  Timely' /\ Unshown'
  BY <1>1, <1>7, StoreWalk
<1>8. ASSUME NEW e \in backlog, Issues!Bury(e), UNCHANGED alive
      PROVE  Timely' /\ Unshown'
  BY <1>4, <1>8 DEF Issues!Bury
<1>9. CASE Issues!Open /\ UNCHANGED alive
  <2>1. /\ UNCHANGED <<clock, backlog, lastSeen>>
        /\ walk'.listed = Issues!Rows /\ walk'.page = 1 /\ walk'.pc = "owner"
    BY <1>9 DEF Issues!Open, Issues!data, Issues!NoWalk, Issues!PageOf
  <2>2. Timely'
    BY <1>2, <2>1 DEF Timely
  <2>3. \A f \in Issues!Rows : lastSeen[f] > 0 /\ Issues!Rank(f) >= (1 - 1) * Limit
    BY RowsFinite, ListAssumption DEF Issues!Rows
  <2>4. clock' = 0 => backlog' = {} /\ walk'.listed = {}
    BY <1>2, <2>1 DEF Unshown, Timely, Issues!Rows, IssuesTyped, Issues!TypeOK
  <2>5. Unshown'
    BY <1>3, <2>1, <2>3, <2>4 DEF Unshown, Promised
  <2> QED
    BY <2>2, <2>5
<1>10. CASE Issues!CheckOwner /\ UNCHANGED alive
  <2>1. UNCHANGED <<clock, backlog, lastSeen>>
    BY <1>10 DEF Issues!CheckOwner, Issues!data
  <2>2. Timely'
    BY <1>2, <2>1 DEF Timely
  <2>3. CASE alive
    <3>1. /\ walk'.pc = "select" /\ walk.pc = "owner" /\ walk'.page = walk.page
          /\ walk'.shown = walk.shown
          /\ walk'.listed = walk.listed /\ walk'.touched = walk.touched
          /\ walk'.doubtful = walk.doubtful
      BY <1>2, <1>10, <2>3 DEF Issues!CheckOwner, IssuesTyped, Issues!TypeOK
    <3> QED
      BY <1>2, <1>3, <1>10, <2>1, <2>2, <3>1 DEF Unshown, Promised
  <2>4. CASE ~alive
    <3>1. walk' = Issues!NoWalk
      BY <1>10, <2>4 DEF Issues!CheckOwner
    <3> QED
      BY <1>2, <2>1, <2>2, <3>1 DEF Unshown, Issues!NoWalk
  <2> QED
    BY <2>3, <2>4
<1>11. CASE Issues!Select /\ UNCHANGED alive
  BY <1>11, SelectWalk
<1>12. CASE Issues!Close /\ UNCHANGED alive
  BY <1>2, <1>12 DEF Issues!Close, Issues!data, Issues!NoWalk, Timely, Unshown
<1>13. CASE ~alive /\ clock = 0 /\ alive' = TRUE /\ UNCHANGED <<Issues!data, walk>>
  BY <1>2, <1>13 DEF Issues!data, Timely, Unshown, Promised
<1>14. CASE alive /\ alive' = FALSE /\ Issues!Cascade
  <2>1. /\ ~alive' /\ UNCHANGED <<clock, backlog, walk>>
        /\ \A f \in Fingerprints : lastSeen'[f] = 0
    BY <1>14 DEF Issues!Cascade
  <2>2. clock \in Nat /\ \A e \in backlog : e.time > 0
    BY <1>2, ListAssumption DEF IssuesTyped, Issues!TypeOK, Issues!Events
  <2> QED
    BY <1>2, <2>1, <2>2 DEF Timely, Unshown
<1> QED
  BY <1>5, <1>6, <1>7, <1>8, <1>9, <1>10, <1>11, <1>12, <1>13, <1>14
  DEF Issues!Next, Issues!Work, Issues!Browse

LEMMA InitWalk == Issues!Init => WalkInv
<1> SUFFICES ASSUME Issues!Init PROVE WalkInv
  OBVIOUS
<1>1. IssuesTyped
  BY InitIssues
<1>2. Timely /\ Unshown
  BY DEF Issues!Init, Issues!NoWalk, Timely, Unshown
<1> QED
  BY <1>1, <1>2 DEF WalkInv

(***************************************************************************)
(* Who pages through the list sees every issue that held still, whatever   *)
(* moves around it and however tied rows are ordered, for any number of    *)
(* issues and any size of a page: a new event only pushes the others       *)
(* towards the pages to come, an old one pulls those it passes and no      *)
(* other, a page that cuts through no tied rows shows all those whose      *)
(* places it has, and the total of a page that is not past the end is the  *)
(* number of rows.                                                         *)
(***************************************************************************)
THEOREM WalksAreComplete == LifeSpec => []WalkComplete
<1>1. LifeInit => WalkInv /\ NoIssueOutlivesProject
  BY InitWalk, InitIssues DEF LifeInit
<1>2. WalkInv => WalkComplete
  BY DEF WalkInv, Unshown, Promised, WalkComplete, Issues!WalkComplete
<1> QED
  BY <1>1, <1>2, InitLife, StepLife, LifeListStep, StepNoIssue, StepWalk, PTL DEF LifeSpec
=============================================================================
