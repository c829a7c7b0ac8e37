----------------------------- MODULE ProjectKeys -----------------------------
(***************************************************************************)
(* Projects and their API keys: the projects table, the Redis cache that   *)
(* the ingest API keeps of it (CachedProjectRepository), the requests of   *)
(* POST /ingest/event up to the queue, and the requests that create and    *)
(* delete projects.  main.go gives the cached repository to ingestion only,*)
(* so a deletion touches the table and leaves the cache to its time to     *)
(* live.  Between any two calls of a request other requests run, and time  *)
(* passes.                                                                 *)
(***************************************************************************)
EXTENDS Integers

CONSTANTS
    Keys,       \* API keys, each of one project at most
    Wrong,      \* a key that was never issued
    Users,
    Requests,   \* ingest requests that may be under way at a time
    Removers,   \* deletions that may be under way at a time
    TTL,        \* time to live of a cache entry, in ticks
    MaxCalls,   \* bound on the ingest requests
    MaxFaults   \* bound on failing calls

ASSUME KeysAssumption == Wrong \in Keys
ASSUME UsersAssumption == "none" \notin Users /\ "deleted" \notin Users
ASSUME TTLAssumption == TTL \in Nat \ {0}
ASSUME KeyBoundsAssumption == MaxCalls \in Nat /\ MaxFaults \in Nat

VARIABLES
    row,       \* projects: the owner of the project of a key, "none" before
               \* its creation, "deleted" after its deletion
    ttl,       \* Redis: ticks the cache entry of a key has left, 0 without one
    req,       \* the ingest requests
    removal,   \* the deletions
    known,     \* keys that their owners have
    created,   \* audit_logs: keys whose project has a project.api_key_created entry
    recorded,  \* audit_logs: keys whose project has a project.deleted entry
    \* history and budgets
    age,       \* ticks since the project was there, or a lookup that saw it
               \* had yet to store it, up to TTL
    unsure,    \* keys whose deletion or audit entry failed, applied or not
    calls, faults

budgets == <<calls, faults>>
table   == <<row, known, created, recorded, unsure>>
vars    == <<table, ttl, req, removal, age, budgets>>

\* expired: begun when the project had been gone for TTL.
Quiet  == [pc |-> "idle", key |-> Wrong, expired |-> FALSE]
NoDrop == [pc |-> "idle", key |-> Wrong, user |-> "none"]

TypeOK ==
    /\ row \in [Keys -> Users \cup {"none", "deleted"}]
    /\ ttl \in [Keys -> 0..TTL]
    /\ req \in [Requests -> [pc : {"idle", "limit", "get", "lookup", "fill", "push"},
                             key : Keys, expired : BOOLEAN]]
    /\ removal \in [Removers -> [pc : {"idle", "verify", "delete", "audit"},
                                 key : Keys, user : Users \cup {"none"}]]
    /\ known \subseteq {k \in Keys : row[k] # "none"}
    /\ created \subseteq Keys /\ recorded \subseteq Keys /\ unsure \subseteq Keys
    /\ age \in [Keys -> 0..TTL]
    /\ calls \in 0..MaxCalls /\ faults \in 0..MaxFaults

Init ==
    /\ row = [k \in Keys |-> "none"]
    /\ ttl = [k \in Keys |-> 0]
    /\ req = [r \in Requests |-> Quiet]
    /\ removal = [d \in Removers |-> NoDrop]
    /\ known = {} /\ created = {} /\ recorded = {} /\ unsure = {}
    /\ age = [k \in Keys |-> 0]
    /\ calls = 0 /\ faults = 0

Fault ==
    /\ faults < MaxFaults
    /\ faults' = faults + 1

\* projects has a row with this key.
Found(k) == row[k] \in Users

-----------------------------------------------------------------------------
(* Time.                                                                   *)

Filling(k) == \E r \in Requests : req[r].pc = "fill" /\ req[r].key = k

\* An entry is removed when no time is left.
Left(n) == IF n = 0 THEN 0 ELSE n - 1

Tick ==
    /\ ttl' = [k \in Keys |-> Left(ttl[k])]
    /\ age' = [k \in Keys |-> IF row[k] # "deleted" \/ Filling(k) THEN 0
                              ELSE IF age[k] < TTL THEN age[k] + 1 ELSE TTL]
    /\ UNCHANGED <<table, req, removal, budgets>>

-----------------------------------------------------------------------------
(* Creating and deleting projects.                                         *)

\* The row, with a fresh random key.
Create(u, k) ==
    /\ row[k] = "none" /\ k # Wrong
    /\ row' = [row EXCEPT ![k] = u]
    /\ UNCHANGED <<known, created, recorded, unsure, ttl, req, removal, age, budgets>>

\* The entry of the audit log, whose failure is logged and nothing else, and
\* the answer, with which the owner learns the key.  It may never come: the
\* insert reported an error, or the process has ended.
AuditAndTell(k) ==
    /\ row[k] # "none" /\ k \notin known
    /\ known' = known \cup {k}
    /\ \/ created' = created \cup {k} /\ UNCHANGED faults
       \/ Fault /\ UNCHANGED created
    /\ UNCHANGED <<row, recorded, unsure, ttl, req, removal, age, calls>>

AskRemoval(d, u, k) ==
    /\ removal[d].pc = "idle"
    /\ row[k] # "none"
    /\ removal' = [removal EXCEPT ![d] = [pc |-> "verify", key |-> k, user |-> u]]
    /\ UNCHANGED <<table, ttl, req, age, budgets>>

\* GetByID and the comparison of the owner: 404 and 403 end the request.
Verify(d) ==
    /\ removal[d].pc = "verify"
    /\ removal' = [removal EXCEPT ![d] = IF row[@.key] = @.user
                                         THEN [@ EXCEPT !.pc = "delete"] ELSE NoDrop]
    /\ UNCHANGED <<table, ttl, req, age, budgets>>

\* DELETE of the row, which does not mind that it is gone.
Drop(d) ==
    LET k == removal[d].key IN
    /\ removal[d].pc = "delete"
    /\ \/ /\ row' = [row EXCEPT ![k] = "deleted"]
          /\ removal' = [removal EXCEPT ![d].pc = "audit"]
          /\ UNCHANGED <<unsure, faults>>
       \/ /\ Fault
          /\ row' = [row EXCEPT ![k] = "deleted"] \/ row' = row
          /\ unsure' = unsure \cup {k}
          /\ removal' = [removal EXCEPT ![d] = NoDrop]
    /\ UNCHANGED <<known, created, ttl, req, recorded, age, calls>>

\* Mutant: the entry is written only if the row is still there.
RecordIfFound(d) ==
    LET k == removal[d].key IN
    /\ recorded' = recorded \cup {j \in {k} : Found(j)}
    /\ UNCHANGED <<unsure, faults>>

\* The entry of the audit log; a failure is logged and nothing else.
Record(d) ==
    LET k == removal[d].key IN
    \/ recorded' = recorded \cup {k} /\ UNCHANGED <<unsure, faults>>
    \/ Fault /\ unsure' = unsure \cup {k} /\ UNCHANGED recorded

AuditAndAnswer(d) ==
    /\ removal[d].pc = "audit"
    /\ Record(d)
    /\ removal' = [removal EXCEPT ![d] = NoDrop]
    /\ UNCHANGED <<row, known, created, ttl, req, age, calls>>

-----------------------------------------------------------------------------
(* Ingestion.                                                              *)

\* The header is there and the body decodes.
Begin(r, k) ==
    /\ req[r].pc = "idle"
    /\ k = Wrong \/ k \in known
    /\ calls < MaxCalls
    /\ calls' = calls + 1
    /\ req' = [req EXCEPT ![r] = [pc |-> "limit", key |-> k,
                                  expired |-> row[k] = "deleted" /\ age[k] = TTL]]
    /\ UNCHANGED <<table, ttl, removal, age, faults>>

\* An error of the limiter lets the request pass; a refusal is a 429.
Throttle(r) ==
    /\ req[r].pc = "limit"
    /\ \/ req' = [req EXCEPT ![r].pc = "get"] /\ (UNCHANGED faults \/ Fault)
       \/ req' = [req EXCEPT ![r] = Quiet] /\ UNCHANGED faults
    /\ UNCHANGED <<table, ttl, removal, age, calls>>

\* Mutant: every hit gives the entry a new time to live.
HitRenews(k) == ttl' = [ttl EXCEPT ![k] = TTL]

\* A hit reads the entry and leaves its time to live alone.
HitKeeps(k) == UNCHANGED ttl

\* The cache: a hit saves the query; an error is treated as a miss.
CacheGet(r) ==
    LET k == req[r].key IN
    /\ req[r].pc = "get"
    /\ \/ ttl[k] > 0 /\ req' = [req EXCEPT ![r].pc = "push"] /\ HitKeeps(k) /\ UNCHANGED faults
       \/ ttl[k] = 0 /\ req' = [req EXCEPT ![r].pc = "lookup"] /\ UNCHANGED <<ttl, faults>>
       \/ Fault /\ req' = [req EXCEPT ![r].pc = "lookup"] /\ UNCHANGED ttl
    /\ UNCHANGED <<table, removal, age, calls>>

\* The table: no row is a 401, which is not cached; an error is a 500.
Lookup(r) ==
    /\ req[r].pc = "lookup"
    /\ \/ Found(req[r].key) /\ req' = [req EXCEPT ![r].pc = "fill"] /\ UNCHANGED faults
       \/ ~Found(req[r].key) /\ req' = [req EXCEPT ![r] = Quiet] /\ UNCHANGED faults
       \/ Fault /\ req' = [req EXCEPT ![r] = Quiet]
    /\ UNCHANGED <<table, ttl, removal, age, calls>>

\* SET with the time to live, best effort: an error changes nothing.
Fill(r) ==
    /\ req[r].pc = "fill"
    /\ \/ ttl' = [ttl EXCEPT ![req[r].key] = TTL] /\ (UNCHANGED faults \/ Fault)
       \/ Fault /\ UNCHANGED ttl
    /\ req' = [req EXCEPT ![r].pc = "push"]
    /\ UNCHANGED <<table, removal, age, calls>>

\* Validation refuses the event, or the queue does.
Refuse(r) ==
    /\ req[r].pc = "push"
    /\ UNCHANGED faults \/ Fault
    /\ req' = [req EXCEPT ![r] = Quiet]
    /\ UNCHANGED <<table, ttl, removal, age, calls>>

\* The event is in the stream, whether or not the answer of Redis arrives.
Push(r) ==
    /\ req[r].pc = "push"
    /\ UNCHANGED faults \/ Fault
    /\ req' = [req EXCEPT ![r] = Quiet]
    /\ UNCHANGED <<table, ttl, removal, age, calls>>

-----------------------------------------------------------------------------
\* The steps that leave the stream and the children of a project alone.
Inner ==
    \/ Tick
    \/ \E u \in Users, k \in Keys :
         Create(u, k) \/ \E d \in Removers : AskRemoval(d, u, k)
    \/ \E k \in Keys : AuditAndTell(k)
    \/ \E d \in Removers : Verify(d) \/ AuditAndAnswer(d)
    \/ \E r \in Requests :
         \/ \E k \in Keys : Begin(r, k)
         \/ Throttle(r) \/ CacheGet(r) \/ Lookup(r) \/ Fill(r) \/ Refuse(r)

Next == Inner \/ (\E d \in Removers : Drop(d)) \/ (\E r \in Requests : Push(r))

Spec == Init /\ [][Next]_vars

-----------------------------------------------------------------------------
(* Properties.                                                             *)

(***************************************************************************)
(* "window staleness selama TTL (5 menit)" (cached_project_repo.go:28-34): *)
(* a request that begins TTL after its project was deleted, and after the  *)
(* last lookup that had still seen it stored its entry, does not get past  *)
(* the key, however the requests before it overlapped the deletion and     *)
(* whatever failed.                                                        *)
(***************************************************************************)
RefusedAfterTTL == \A r \in Requests : req[r].pc \in {"fill", "push"} => ~req[r].expired

(***************************************************************************)
(* No project disappears unrecorded (project.go:144-166): a deleted        *)
(* project has its audit entry, or the request that deleted it is about to *)
(* write it, or one of the two writes failed.                              *)
(***************************************************************************)
DeletionRecorded ==
    \A k \in Keys : row[k] = "deleted" =>
        \/ k \in recorded \cup unsure
        \/ \E d \in Removers : removal[d].pc = "audit" /\ removal[d].key = k

-----------------------------------------------------------------------------
(* What the proof of RefusedAfterTTL needs: the time an entry has left and *)
(* the time its project has been gone fit into one TTL, and no lookup that *)
(* saw the project is older than that.                                     *)

Existing == \A k \in Keys : row[k] # "deleted" \/ Filling(k) => age[k] = 0
Running  == \A k \in Keys : ttl[k] + age[k] <= TTL
Expired  == \A r \in Requests : req[r].expired =>
    /\ row[req[r].key] = "deleted" /\ age[req[r].key] = TTL
    /\ req[r].pc \in {"idle", "limit", "get", "lookup"}

TTLInv == TypeOK /\ Existing /\ Running /\ Expired
=============================================================================
