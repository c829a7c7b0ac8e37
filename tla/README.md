# Verification of the SentinelIX backend

SentinelIX collects error events of applications, groups them into issues,
watches URLs, and shows both live in a dashboard. The backend is three Go
processes, `cmd/api`, `cmd/worker` and `cmd/status-api`, that share a Postgres
database and a Redis server. This directory holds TLA+ models of its concurrent
parts, TLC configurations that check them on small instances, and TLAPS proofs.

`PROJECT.json` is the index: which lines of the code each definition stands
for, what each run checks, one mutated definition per property that the
property rejects, the hazards of the code, and the disagreements found.

    tlc -workers 2 -config IngestConsumer_delivery.cfg MCIngestConsumer
    tlapm IngestConsumer_proofs.tla

## 1. The system

| component | state it keeps | operations | talks to |
|---|---|---|---|
| Ingest API (`usecase/ingest_event.go`, `handler_ingest.go`) | none | `Execute`: rate limit, key lookup, validate, push | rate limiter, project cache, ingest queue |
| Rate limiter (`repository/redis/ratelimiter.go`) | a counter per key and window, in Redis | `Allow` | called by ingest, login, dashboard middleware |
| Project cache (`cached_project_repo.go`) | project rows by API key hash, 5 minutes, in Redis | `GetByAPIKeyHash`, `Delete` | Postgres behind it |
| Ingest queue (`repository/redis/queue.go`) | a Redis stream | `Push` | read by the worker's consumer group |
| Ingest consumer (`worker/ingest_consumer.go`) | the group's pending entries, a dead-letter stream | `Run`, `RunReclaim`, `processMessage`, `moveToDLQ` | event grouping, broadcast, alert evaluation |
| Event grouping (`usecase/group_issue.go`, `issue_repo.go`, `event_repo.go`) | `issues`, `events` | upsert an issue, insert an event | called by the consumer |
| Alert rules and evaluation (`alert_rule.go`, `evaluate_alert.go`, `alert_notifier.go`, `notifier.go`) | `alert_rules`, `alert_logs` | CRUD, `EvaluateNewIssue`, `EvaluateThresholds` | consumer and ticker, mail and webhooks |
| Monitor CRUD (`usecase/monitor.go`) | `monitors` | create, update, delete, each followed by a publication | monitor supervisor, through Redis |
| Monitor supervisor and checkers (`monitor_checker.go`, `monitor_sync.go`, `check_monitor.go`) | a map of cancel functions, one goroutine per monitor, `monitor_checks`, `monitors.status` | `Run`, `Sync`, `Remove`, `Check` | the watched URLs, broadcast |
| Broadcaster (`broadcaster.go`) | none: Redis publish/subscribe | `Publish`, `Subscribe` | worker to API, API to worker |
| WebSocket hub (`delivery/ws`) | rooms, a buffered channel per client | `register`, `unregister`, `BroadcastToProject`, two pumps per client | the dashboards |
| Sessions (`usecase/auth.go`, `refresh_token_repo.go`) | `refresh_tokens`, a cookie in the browser | register, login, refresh with rotation, logout | rate limiters |
| Projects, issues, audit log, status page | rows | CRUD and reads | Postgres |

What is hard in it, and what would make it right:

* **Ingest consumer.** Two goroutines share a consumer group and a consumer name;
  every call to Redis or Postgres can fail before or after it took effect, the
  process can die between two calls, and entries become idle whether or not
  someone works on them. Right means: no acknowledged event is lost, retries are
  bounded and none is skipped, the issue count covers its events, every event is
  settled in the end.
* **Monitor fleet.** A table, messages about it that may be lost or reordered, a
  supervisor started while they arrive, and goroutines that are cancelled in the
  middle of a check. Right means: one live checker per monitor, with the settings
  the table has, and a status column that says what the last check found.
* **WebSocket hub.** A broadcast loop that must neither block nor send on a closed
  channel, next to goroutines that close channels. Right means: no panic, no
  leak, and no dashboard that stays connected with a message missing.
* **Alerts.** The check of the cooldown, the notification and its log are three
  steps, in several goroutines and next to edits of the rules. Right means: at
  most one notification per rule and issue within the cooldown, up to the
  failures the code accepts, and none lost by a cooldown that never notified.
* **Sessions.** Revoking a token and issuing its successor are two statements. Right
  means: a token is exchanged once, its reuse is noticed, and a client that sends its
  requests one after the other stays logged in, with no live token behind its back.
* **Rate limiting.** A counter per window, read and written in several commands that
  are no transaction, against a clock that moves on and keys that expire. Right means:
  a bound on what is admitted in any period of a window's length, a previous window
  that is never forgotten while it counts, and no key that stays for ever.
* **Project keys.** A cache in front of the projects, filled by lookups that may be
  older than a deletion. Right means: a revoked key stops working in a bounded time,
  the deletion is on record, and nothing of a deleted project comes back from events
  that were on their way.
* **Issue list.** Pages of a list whose order changes with every event, in the order in
  which the worker gets events stored, retries included. Right means: who pages
  through the list sees every issue that held still.
* **Dashboard requests.** Read the row, find its project, compare the owner, merge,
  validate, write, record: statements without a transaction, next to other requests
  and to the deletion of the project. Right means: tenants stay apart, rows stay valid,
  no edit is lost but by a stale copy, changes are audited, and the status page is right
  about the moment of its query.

The hazards behind these, each with its line, are in `PROJECT.json`.

## 2. Modules

| module | models | main properties |
|---|---|---|
| `EventDelivery` | what the pipeline promises: an accepted event may be saved or buried any number of times, is settled only when it was, or when its burial was refused, and once settled stays so | (abstract specification) |
| `IngestConsumer` | stream, consumer group, the two goroutines, grouping, crashes | `AttemptsBounded`, `DeadAfterRetries`, `CountCoversEvents`, `EvaluatedOnce`, `ImplementsDelivery`, `EventuallySettled` |
| `IngestConsumer_proofs` | proofs about it | |
| `Fleet` | what the supervisor promises: a map from monitors to the settings of their checkers, which are read from the table, replaced one by one, and dropped only with the row or with the worker | (abstract specification) |
| `MonitorFleet` | API requests on monitors, deletions of projects, publish/subscribe, supervisor, checkers, restarts | `OneCheckerPerMonitor`, `AppliedWhenDrained`, `ImplementsFleet`, `EventuallyApplied` |
| `MonitorFleet_proofs` | proofs about it | |
| `Broadcast` | what the hub promises: an atomic broadcast to the members of a room, which drops the newest message of a client, and the client, only when more than a buffer of them wait | (abstract specification) |
| `WsHub` | subscriber, hub, both pumps of each client | `NeverPanics`, `NoSilentGap`, `ImplementsBroadcast`, `EventuallyReleased` |
| `WsHub_proofs` | proofs about it | |
| `AlertCooldown` | API requests on alert rules, `EvaluateNewIssue` in the consumer's goroutines, the threshold ticker, notifier, `alert_logs`, crashes | `CooldownKept`, `NoFalseCooldown`, `DeletedStaysDeleted`, `EventuallyNotified` |
| `AlertCooldown_proofs` | proofs about it | |
| `SessionTokens` | login, refresh and logout statement by statement, the cookies of the browsers | `ExchangedOnce`, `CalmSessions` |
| `SessionTokens_proofs` | proofs about it | |
| `RateLimiter` | `Allow`, command by command, against the clock and the expiry of keys | `PreviousWindowWeighed`, `SlidingBound`, `KeysExpire` |
| `RateLimiter_proofs` | proofs about it | |
| `ProjectKeys` | projects and their keys: creation, deletion, the cache, ingest requests up to the queue | `RefusedAfterTTL`, `DeletionRecorded` |
| `IssueList` | issues by `last_seen`, the events that set it, a client paging through the list | `WalkComplete`, `NoIssueOutlivesProject` |
| `ProjectLife` | the composition of `ProjectKeys` and `IssueList` | those of its parts |
| `ProjectLife_proofs` | proofs about the composition and its parts | |
| `Dashboard` | the requests about rules, monitors and issues, their audit log, the status page | `RowsValid`, `EditsKept`, `TenantsApart`, `AuditComplete`, `PageRight` |
| `Dashboard_proofs` | proofs about it | |
| `MC...` | the values TLC needs for the constants | |

### IngestConsumer

A goroutine is a program counter `pc[t]`, the entries left in the reply it loops
over (`work[t]`) and the entry it processes (`cur[t]`). `Read` and `Begin` are the
loop of `Run`; `Scan`, `Claim` and `ClaimSkip` are `reclaimOnce`; `Upsert`,
`Insert`, `Notify`, `DlqAdd` and `Ack` are `processMessage` and `moveToDLQ`, which
both goroutines share. A call that leaves the process is one step with up to three
outcomes: done, failed, done but reported as failed. The delivery counter is the
one Redis keeps per pending entry (1 at `XREADGROUP`, +1 at `XCLAIM`); `seen` is its
copy in the `XPENDING` reply, which is what the code compares with
`maxDeliveryCount`. Idle time is the set `stale`; an entry may enter it at any
moment, also while a goroutine still holds it, which is what the idle time of 30
seconds amounts to with batches of ten and notifications that wait 10 seconds.
`Crash` empties the memory of the process and leaves Redis and Postgres alone.

History: `evaluated[f]` counts the evaluations of an issue's `new_issue` rules, `missed`
are the new issues whose goroutine failed or died before it evaluated them, `refused`
the entries whose dead-letter XADD reported an error.

Events are numbers in stream order. `Fp` maps an event to its issue; malformed
ones are those `processMessage` cannot parse.

### MonitorFleet

A row's settings are represented by the number of the write they come from
(`config[m]`, 0 for no row), so that "the checker runs the current settings" is an
equality. A request is a record with a program counter: Update and Delete read the
row, write it, then publish; Create writes and publishes. `bus` is what Redis has
delivered to the worker's subscription and `RunMonitorSync` has not handled;
publications reach it only while the worker is subscribed. `ListAll`, `BootSpawn`
and `BootDone` are `MonitorSupervisor.Run`; `SyncFetch` and `SyncSpawn` are `Sync`,
whose read is outside the lock; `Spawn` and `Remove` are the critical sections.
`checker` is the set of goroutines with their copy of the row, `cancels` the map.
A check is three steps: `Ping` (request and insert), `Evaluate`, `UpdateStatus`. A
cancelled checker stops or completes the statement it had already sent.

`heard[m]` remembers whether the last write of a monitor was made while the worker
was subscribed (and whether it was still starting) and whether its message was
lost: the fleet cannot follow what it never hears of, and the code accepts that
(`usecase/monitor.go:88-94`). `Cascade` is the deletion of a project, which deletes any
set of monitors and publishes nothing: their checkers go on until the worker restarts,
and the table refuses what they insert.

Under the mapping to `Fleet`, what the worker has read and not started yet (`Held`) is
the rest of the rows of `Run` and the row in the hand of `Sync`, and what runs
(`Running`) are the settings of the goroutines that are not cancelled. `Fleet` lets a
start replace newer settings by older ones, as `Run` does when it is overtaken by `Sync`
(`monitor_boot`).

### WsHub

`current` and `left` are the message and the clients the loop of
`BroadcastToProject` still has to come to; the read lock is held as long as
`current # 0`, and `LockFree` is the condition of the write lock. `kicks[c]` counts
the goroutines started by `go h.unregister(client)`. `buf[c]` and `closes[c]` are
the channel; a receive from a closed channel drains it first, as Go does. `got` and
`due` are history: what was written to the connection and what was broadcast to the
project since the client joined. The code's range over a map visits clients in any
order, and so does `Deliver`.

Under the mapping to `Broadcast` a message is published when the loop begins: what is on
its way to a client is the message in the hand of its `WritePump`, what its channel
holds, and the message of the loop if the loop has not come to the client yet. A client
is slow as long as a goroutine started to unregister it has not run.

### AlertCooldown

An evaluator is a goroutine of the consumer or the ticker. It holds the copies of
the rules its query returned (`todo`, `rule`), the issues still to consider for the
present rule (`targets`: one for a consumer, those whose count is above the
threshold for the ticker) and the issue it is about to notify of. `CheckCooldown`
reads the last log of the pair, `Send` is the notifier's request, `Log` the insert:
three steps, with time, edits, deletions and other evaluators in between. Each can
fail; a request can be delivered and yet report an error. Skipping to the next
issue is what the code's `continue` does on every error (`Skip`).

How many events an issue has is not modelled: `Hot` are issues above every
threshold. `EvaluateThresholds` keeps counts for the rules of a pass with the same
window, so that a pass may miss an issue created after it began (`fresh`).

A row is condition, threshold and cooldown. `CreateRule` includes the handler's
default and the validation; a PATCH is `FetchRule` (read, merge, validate) and
`WriteRule`, which writes all fields of its copy; `DeleteRule` takes the logs along
(`ON DELETE CASCADE`), and `HasParent` is the foreign key that refuses later ones.
The model's clock is Postgres' (`sent_at`), with which the worker's is taken to
agree.

History: `sent` are the delivered notifications; `unlogged` the pairs whose last one
has no row in `alert_logs`, either since the evaluator has not come to it, or since
the insert failed, the process died, or the log went with its rule; `switched` are
rules whose condition type was edited.

### SessionTokens

A request is a record with a program counter over the statements of `Refresh`, `Logout`
and `issueTokens`, the token of the cookie it was sent with, and what its answer sets the
cookie to. `Revoke` does not report that the row was revoked already, so that two
overlapping refreshes can both issue a successor. Any statement can fail, applied or not,
and any answer can be lost (`Lose`). On every error `Refresh` answers by clearing the
cookies (`OnError`), also when Postgres was merely unavailable; so does a logout, with a
cookie or without one. Rows are numbered in the order of insertion; `parent` says which
token a row was exchanged for. `raced` are the tokens that a refresh found live while
another one that had found them live was still to revoke them. `calm` are the users whose
browsers never had two requests in flight and met no failure.

### RateLimiter

One identity; the others have counters of their own. The clock is the number of the
window (`win`) and the seconds elapsed in it. `Enter` is `time.Now`, read once; `Incr`
and `Get` are the two commands of the pipeline, `Expire` the third one of the call that
created the key, `Decide` the comparison, in integers (`Window` times the weighted
count). The code compares a float64: where both sides are equal and the weight was
rounded, either answer is possible. `Tick` moves the clock and lets Redis remove keys;
it may fall between any two commands. `Fail` ends a call with an error, its command
executed or not.

History: `punctual` counts the INCRs made during their window, `admitted` are the prompt
calls that were allowed, `hit` the windows in which a command failed. A call held up
beyond its window is not prompt; the comment at `ratelimiter.go:87-90` accepts it.

### ProjectKeys

A project is its key: `row[k]` is the owner, or what became of it. `Create` is the insert,
`AuditAndTell` the audit entry and the answer with the key, before which nobody can ingest
with it; neither may come, if the insert reports an error or the process ends. A deletion
is `Verify`, `Drop` and `AuditAndAnswer`, as many at a time as wanted. An ingest request
is `Begin`, `Throttle` (an error of the limiter lets it pass), `CacheGet`, `Lookup`,
`Fill`, then `Push` or `Refuse`. `ttl[k]` is the time the cache entry has left; `Tick`
takes one from it. Nothing deletes an entry, because `cmd/api/main.go:95` gives the
project usecase the repository without the cache.

History: `age[k]` is how long the project has been gone, counted from the last moment at
which it was there or a lookup that saw it had yet to store it; `expired` marks requests
that begin with `age[k] = TTL`; `unsure` are deletions of which a write failed.

### IssueList and ProjectLife

Time in `IssueList` passes between events or does not: two of them may have one time, as
concurrent requests read `time.Now`, and all the list needs is which is older. `Store`
sets `last_seen` to the event's time, which is older than the present one when a retry
comes late, and may leave the event in the backlog (the failure that makes it be stored
again). A walk is a request per page (`CheckOwner`, `Select`) and ends when the total is
reached, which an empty page reports as 0. `ORDER BY last_seen DESC` leaves the order of
tied rows open, and each page is a query of its own: `Pages(n)` is what the query of page
`n` may return, any rows of a tie that fill the places the tie has on the page. `listed`
and `touched` remember what there was at the start of the walk and what was stored
meanwhile. `doubtful` are the issues a page could not place: those that an issue which
took an older time fell behind (`Passed`), and those whose tie the edge of a page cut
(`Split`).

`ProjectLife` extends the first and instantiates the second: the project of `IssueList`
is alive when its row in `ProjectKeys` is, every `Push` is an `Accept`, and the statement
that drops the row takes the issues along (`Cascade`). Its actions are the conjunctions
of those of the parts, and its properties theirs.

### Dashboard

A row is its project and two fields, the ones `Validate` relates: condition and window of
a rule, channel and interval of a monitor. A handler begins with what it asks for
(`CreateRule`, `EditMonitor`, ...); the statements that follow are shared by all of them:
`OwnProject`, or `Fetch` and `OwnItem` (the row first, then the owner of its project, then
merge and validation), `Insert`, `Update`, `Delete`, `Record`, `Read`. An UPDATE writes
all fields of the copy and does not mind that the row is gone; an INSERT meets the foreign
key. Any statement may fail (`Fail`), and a write may be executed and report an error all
the same, after which a handler of rules returns without an audit entry (`Leads`).
`FindSlug` and `ReadPage` are the status page. The worker (`Group`, `Report`) and the
deletion of the project change the tables in between.

History: `meant` is the row the answered edits amount to, field by field; `tangled` are
items written from a copy that was no longer the row; `done` what was done to a rule and
`unsure` what of it was done by a call that reported an error, the write or the audit entry
(`Doubt`); `served` whose projects were read or written
for whom.

## 3. Runs

All are exhaustive. The constants are the smallest for which the interesting cases
happen; each bound appears in a guard and is named in its module.

| run | instance | shows |
|---|---|---|
| `ingest_delivery` | 2 events, one malformed, 2 retries, every call may fail, 1 Redis fault, 1 crash; fairness | `TypeOK`, `AttemptsBounded`, `DeadAfterRetries`, `CountCoversEvents`, `EvaluatedOnce`, `ImplementsDelivery`, `EventuallySettled` |
| `ingest_alert_lost` | 1 event, a failing insert | **violated**: `NewIssueEvaluated` |
| `monitor_sync` | 1 monitor, 2 requests at a time, 3 writes, 2 checker slots | `TypeOK`, `OneCheckerPerMonitor`, `AppliedWhenDrained` |
| `monitor_restart` | 1 request at a time, 2 writes, a restart, a lost message, failing checks; fairness | `ImplementsFleet`, `EventuallyApplied` |
| `monitor_boot` | as above | **violated**: `AppliedAfterBoot` |
| `ws_hub` | 2 clients of one project, another project nobody watches, buffer 1, 3 messages; fairness | `TypeOK`, `NeverPanics`, `NoSilentGap`, `ImplementsBroadcast`, `EventuallyReleased` |
| `alert_cooldown` | 2 rules, the channel of one broken, 1 issue, 1 consumer and the ticker, 1 PATCH at a time, 3 writes, 2 units of time, 1 failure or crash; fairness of the ticker | `TypeOK`, `NoFalseCooldown`, `DeletedStaysDeleted`, `CooldownKept`, `EventuallyNotified` |
| `session_rotation` | 2 browsers, 2 users, 2 requests at a time, 3 tokens, 1 failure or lost answer | `TypeOK`, `ExchangedOnce`, `CalmSessions` |
| `session_race` | 1 browser, 2 requests at a time, 3 tokens, no failure | **violated**: `OneSuccessor` |
| `rate_window` | 2 calls at a time, 3 in all, a window of 3 seconds with a limit of 2, 3 windows, 1 failing command | `TypeOK`, `PreviousWindowWeighed`, `SlidingBound`, `KeysExpire` |
| `project_life` | 1 project and a key that was never issued, 2 users, 2 ingest requests at a time, 3 in all, 1 deletion at a time, entries that live 2 ticks, 1 fault, 2 issues, events of 3 times, any of them equal, pages of 1 | `LifeTypeOK`, `RefusedAfterTTL`, `DeletionRecorded`, `WalkComplete`, `NoIssueOutlivesProject` |
| `dashboard` | a user with a project and one without, 1 rule, 2 monitors, 1 issue, 2 requests at a time, 3 in all, 1 write or audit entry that reports an error, 2 status changes | `TypeOK`, `RowsValid`, `EditsKept`, `TenantsApart`, `AuditComplete`, `PageRight` |

Why these bounds. *Ingest*: two events are the fewest for which a batch and a
pending list have an order, and the malformed one is buried next to the other one's
retries; two retries separate the first attempt, a retry that may be retried, the last
one and the burial. Both goroutines may process the one event that parses at once, so that
they race for the creation and the count of its issue; two such events of one issue are
left to the theorems `CountCoversRows` and `NewIssueEvaluatedOnce`. Postgres may fail at
every call, without a bound, and one Redis fault at any place meets one crash at
any place. What holds for every number of events, retries and faults is proved
(section 5). *Monitors*: monitors do not interact, the locks and the messages of
one never depend on another, so one suffices; two slots are a current and a
cancelled checker, three writes are a creation and two concurrent changes. With two
slots a third checker waits for a cancelled one to stop, which only delays a spawn. The
proofs cover any number of monitors, requests, slots and restarts.
*Hub*: two clients are one the loop has passed and one it has not come to; a buffer
of one with three messages covers full, drained, and full again. The channel
properties are proved for any size.
*Alerts*: two rules are one that fails and one that must not suffer from it; three
writes are a creation, an edit and a deletion of one rule, or the creation of both
and an edit; two units of time are one inside a cooldown of two and one behind a
cooldown of one. One issue suffices for the ticker's loop over rules; that issues do
not share a cooldown is in the proof, which covers any number of everything.
*Sessions*: three tokens are a login and two successors, of two overlapping refreshes
or of one after the other; two users and two browsers show what one user's trouble
does to another; browsers, users and requests are symmetric. `OneSuccessor` fails with a
login and one overlap already.

*Rate limiter*: three windows are one to fill, one in which it is weighed, and the one in
which its key expires; a window of three seconds has a weight that is neither 0 nor 1; a
limit of two reached by three calls is the fewest for which the bound on a period is met
and for which two calls of one window race for its first INCR.
*Project keys and issues*: two requests are a lookup that stores its entry late and one
that begins after the deletion; two ticks are one in which the entry is still good and one
at the end of which it is not; pages of one row with two issues make every move of an issue
a move between pages, and every tie one across their edge; three times are two issues and
one that is stored after them or goes backwards. One deletion at
a time; the proof covers any number.
*Dashboard*: two requests at a time are a stale copy and the write that outdates it, a
third is the creation before them; two monitors are one up and one down; ownership needs a
user who owns nothing. The proofs cover any number of everything.

Runs use `CHECK_DEADLOCK FALSE` because the instances end: all events are settled,
all writes made, all clients gone.

### Disagreements between code and documentation

* `ingest_alert_lost`: the upsert commits, the insert fails, the retry finds an
  existing issue, and its `new_issue` alert is never evaluated, although the README
  says it is the moment an issue is created.
* `monitor_boot`: rows listed at startup are spawned after messages about them were
  handled. A monitor deleted in between is checked until the next restart; an edit
  in between is undone in the fleet.
* `session_race`: two refreshes with one token look it up before either revokes it. Both get
  a successor and neither is taken for a reuse, although the README of the repository
  (132-135) says that a reuse revokes all sessions of the user, and the comment at
  `auth.go:147-152` names two parties that race with one token as the case it is for.

These three have a run each. The following were met on the way and have none; the models
behave as the code does:

* An idle entry is not a sign that nobody works on it: `Run` and `RunReclaim` of one
  process can process the same entry at once, which the comment at
  `ingest_consumer.go:108-112` excludes.
* The status column is written only when the result differs from the checker's own copy of
  the row (`check_monitor.go:72`). The last write of a cancelled predecessor can stay in
  it, although `domain/monitor.go:136-139` says it is written after every ping.
* `AlertRule.Validate` never looks at `Threshold`, though its comment (`alert.go:48-50`)
  and an unused error (`alert.go:42`) say it must be positive for threshold rules.
* The comments at `cached_project_repo.go:30-36` and `94-97` promise that deleting a project
  invalidates its key at once. Nothing calls that `Delete`, see `ProjectKeys`.
* `domain/project.go:34-37` counts events among what the deletion of a project cascades to.
  The table has no foreign key (migration 000002; 000006 added one for `monitor_checks`
  only), so the events stay, without an issue.
* Monitors older than migration 000007 have a NULL name, which `domain/monitor.go:48-50`
  knows of; `status_repo.go:78-80` scans it into a string, and the status page answers 500.
* Deleting a project deletes its monitors by cascade and publishes nothing; their checkers
  go on until the worker restarts.
* The issue list has no second column to sort by (`issue_repo.go:66`): issues with the same
  `last_seen` may come in another order in the query of the next page, so that one of them is
  shown twice and another not at all. `WalkComplete` excepts issues that tie across the edge
  of a page.
* A write of a rule that is executed and reports an error (its reply is lost, or the client
  has gone) leaves no audit entry: `alert_rule.go:87`, `186` and `206` return before it.
* A page beyond the end of the issue list reports a total of 0, since the count comes with
  the rows.
* A PATCH of a rule deleted meanwhile updates no row, answers 200 with the rule, and records
  "updated" after "deleted".

An event is in neither stream if the XADD of `moveToDLQ` fails, since the XACK follows all
the same. The comment at `ingest_consumer.go:172-176` accepts this, so it is not a finding:
`EventDelivery` has a step for a refused burial, and an entry that was not refused is
never lost.

`CooldownKept` leaves out what the code cannot keep quiet. A notification whose log
could not be written is repeated (`evaluate_alert.go:117-122` prefers that to a false
cooldown). A deletion takes the logs along, and a pass that had listed the rule before
notifies once more. A rule whose condition type is edited while a consumer holds a copy
can be evaluated by the consumer and by the ticker at once. `CalmSessions` leaves out
browsers with overlapping requests: two tabs that refresh with the same token get two
successors (`session_race`), of which the cookie keeps the later one, or the second of them
is taken for theft and ends all sessions of the user. `ExchangedOnce` says that this overlap
is the only way to a second successor.

## 4. Fairness

* `IngestConsumer`: weak fairness of each goroutine as a whole (`Run` and
  `RunReclaim` are loops without an exit while the process lives; the ticker keeps
  ticking) and of time passing for each pending entry. Neither pushes nor successes
  are fair: `EventuallySettled` holds although every Postgres call may fail for ever.
* `MonitorFleet`: weak fairness of the supervisor's startup, of the sync goroutine,
  of a request that has written and goes on to publish, and of a cancelled
  goroutine's exit (its select or its next call sees the cancelled context). New
  requests, checks and restarts are not fair.
* `WsHub`: weak fairness of the broadcast loop (it never blocks), of both pumps (a
  read and a ping fail within the pong deadline once the peer is gone) and of the
  unregistering goroutines. For a goroutine waiting for the write lock this is what
  Go's `RWMutex` gives, since a waiting writer blocks new readers; weak fairness is
  enough to say so because the broadcasts of an instance are bounded. A peer is
  never obliged to leave, and registering and publishing are not fair.
* `AlertCooldown`: weak fairness of the ticker as a whole; its loop has no exit while
  the process lives and a pass has no call without a timeout. The consumer's
  evaluations, the API and time are not fair. Failures are bounded, except those of the
  broken channel, which fails for ever.
* The other modules state no fairness: what they promise is safety only. That an entry of
  the cache expires, for instance, is a bound on its age and not a promise that time passes.

## 5. Proofs

All for arbitrary values of the constants, with no assumption but those stated in
the modules (`ASSUME` on the constants' types).

* `TypeCorrect`: `TypeOK` of the consumer is inductive as it stands. It contains the
  agreement of `pc` and `cur`, which the properties below need.
* `AttemptsAreBounded`. `AttemptsBounded` is not inductive: what limits attempts is
  the delivery count, seen through a snapshot. `AttemptsInv` adds that goroutines
  hold delivered entries only (`HeldDelivered`), that nothing happened to the others
  (`UnreadUntouched`), that the snapshot is current for the entries still to be
  looped over, because only the reclaim loop claims (`SnapshotCurrent`), and that
  each attempt, made or still due in the batch of `Run`, has a delivery of its own
  (`AttemptsCounted`).
* `DeadOnlyAfterRetries` adds that a goroutine about to bury an event that parses
  holds one with exhausted retries (`BuryJustified`).
* `AcknowledgedIsSafe` adds that a goroutine about to acknowledge holds an entry that
  is stored, dead or refused (`AckJustified`). `NothingIsLost` draws the conclusion for
  a Redis that takes every XADD of `moveToDLQ` (`"dlqAdd" \notin Faults`): then no entry
  was refused.
* `ConsumerImplementsDelivery`: from the same invariant, every step of the consumer
  is a step of `EventDelivery` or a stutter under the refinement mapping at the end of
  `IngestConsumer`.
* `CountCoversRows`: the event rows of an issue are the pairs of an event and the number
  of its row (`EventRows`), so that what is compared with the count is a cardinality.
  `CountInv` counts the goroutines between the upsert and the insert as well
  (`Counting`): each has raised the count for a row it has yet to insert, which is why a
  retry, however often it repeats the first statement without the second, only moves
  the two apart in one direction.
* `NewIssueEvaluatedOnce` is a conservation law and inductive with the types: the
  evaluations of an issue, the goroutines on their way to evaluate it (`Creators`) and
  the evaluations that were missed add up to 1 from the moment its row exists, and to 0
  before, since the unique fingerprint lets one upsert in all create the row.
* `ChannelsNeverPanic` (`NeverPanics` is `SendsToOpen` and `ClosedOnce`): `HubInv` says
  that rooms hold their own clients (`RoomsSorted`), that clients the loop has not come to
  are still registered and the lock is held for them (`LoopInv`), and that a registered
  client's channel is open and an unregistered one's was closed at most once
  (`ChannelInv`).
* `CooldownSafe`, `LogsTruthful`, `DeletionFinal` and `AlertsTyped` follow from
  `CooldownInv`. That what an evaluator read about the cooldown still holds when its
  notification is delivered (`MaySend`) needs that nobody else notifies the same pair
  meanwhile: consumers work on different issues, each of which only one of them created
  (`OneConsumer`), and a consumer and the ticker hold copies of the same rule only if it
  was switched (`OneKind`, from `CopiesKnown`). `SentIsLogged` connects the logs the code
  reads with the notifications the property is about, `LogJustified` the other way round.
* `RotationSafe`: `ExchangedOnce` follows from `ExchangeInv`. A request about to issue a
  successor holds a revoked token; of a token that was not raced, one refresh at most is
  past the look-up, and none once it has a successor. `SessionsTyped` is the type invariant.
* `CalmStaysCalm`: `CalmSessions` follows from `CalmInv`. A request of a calm user has its
  browser to itself (`Solo`); no token is in two cookies, two answers or one of each
  (`Unique`); an exchange is about the cookie its browser still has (`Follows`), found the
  token live and leaves it dead (`Exchanged`), so that it never ends in `RevokeAll`; what
  a calm user is about to receive, and a cookie nothing is exchanging, are not revoked
  (`Good`); and every live token is held or was left by a new login (`NoneStray`).

* `HubTyped` follows from the same `HubInv`. `NothingMissing` adds
  `PumpInv`: a client starts with nothing sent, and what is neither written nor in the
  channel is in the hand of its `WritePump`. With it `NoSilentGap` is preserved: a message
  that finds the buffer full leaves a goroutine that will unregister the client, and the
  loop reaches each registered client once per message.
* `HubImplementsBroadcast`: `Receive` publishes to the whole room, because the lock keeps
  the room as it is until the loop ends (`LoopInv`, `RoomsSorted`); a turn of the loop
  changes nothing (`InboxDeliver`) or drops the last message of a client that has more
  than `BufferSize` of them waiting (`InboxDrop`); a receive from the channel changes
  nothing (`InboxTake`); a write takes the first (`InboxTail`, `InboxHead`). That only
  the slow and the disconnected leave their room needs `ReaderInv`: `ReadPump`
  unregisters for a reason, and the hand of a `WritePump` that writes holds one message.
* `TypeCorrect`, `OneChecker` and `AppliedOnceDrained` of the monitor fleet, from
  `FleetInv`. `OneCheckerPerMonitor` needs little but the map of cancel functions.
  `AppliedWhenDrained` says nothing while messages are on their way; `Followed` does. For a
  monitor whose last change was heard of (`heard[m] = "yes"`), `Caught` says that a
  message which will make the fleet catch up is in the channel or about to be published,
  or that `Sync` holds the row of the last write, or that the fleet has caught up.
  `Known` and `GoneForGood` exclude that a message about a deleted monitor is followed by
  its return, since ids are not used twice.
* `SupervisorImplementsFleet`: from `FleetInv` and `Unlisted` (before `ListAll` there is
  nothing to spawn). A spawn is a `Start` because `spawn` cancels, registers and starts in
  one critical section and the map points at the only goroutine in charge
  (`SpawnStarts`, from `OneCheckerPerMonitor`); a `Remove` is a `Stop` because the row is
  gone when its message arrives and does not come back (`RemoveStops`, from `GoneForGood`);
  the checkers, the messages and the requests on their way are stutters.
* `PreviousAlwaysWeighed`, `KeysAlwaysExpire` and `TypeCorrect` of the rate limiter. The
  first follows from `WInv`: the key of a window without a failure outlives the window
  after it (`Kept`), so that a prompt call has read the whole counter (`ReadAll`), to
  which calls of a window that is over no longer add (`Past`). `KeysExpire` is inductive
  together with the types.
* `BoundHolds`: `SlidingBound` for every window and limit. While a window lasts its counter
  counts the punctual INCRs and no other (`Exact`), so each of them has a rank of its own
  (`CallRanks`, `AdmittedRanks`). A period of one window's length lies in two windows. If
  something is admitted in the second part, the call with the largest rank there saw all of
  the first part, each call with a weight of at least 2 of `Window`; the sum of both parts
  is then at most `Limit * (2 * Window - 2) / Window`.
* `KeyExpires` and `DeletionsRecorded` of the project keys. `TTLInv` adds
  that a project that is there, or about to be stored by a lookup that saw it, has age 0
  (`Existing`), that the time an entry has left and the time its project has been gone
  fit into one time to live (`Running`), and that a request begun when nothing could be
  left is not beyond the lookup (`Expired`).
* `LifeImplementsList`: every behaviour of the composition is one of the list, so that what
  is proved of the list holds of the whole. This needs `LifeInv`: a project whose row was
  never written has no event yet, so that its creation is the one the list expects. (That
  the composition is a behaviour of `ProjectKeys` holds by the way its actions are built.)
* `LifeTyped` joins the types of the keys (`TypeCorrect`) and of the list (`ListTyped`).
* `IssuesGone` and `WalksAreComplete` of the list. `WalkInv` says that no time is ahead of
  the clock (`Timely`), and that what an unfinished walk has promised to show and has not
  shown (`Promised`) has at least the rank at which the next page begins (`Unshown`). A rank
  is the number of newer issues. An event lowers the rank of no issue but its own and those
  that it passes (`RankKept`). A tie that lies on a page is shown as a whole, since the page
  has as many rows of it as it has places (`WholeBlock`). A page is not the last one as long
  as an issue has a rank beyond it, since the total counts that issue (`RankBound`).
* `RowsAreValid`, `NoEditLostButStale`, `Isolation`, `AuditTrail`, `PageIsRight` and
  `TypeCorrect` of the dashboard, from `DashInv`: what a request carries at each statement
  (`Shape`), that what it is about to write was validated and its owner compared
  (`Checked`), that a new row is new and a held one stays with its project (`Born`,
  `Single`, `RowInv`), and that a copy that is not stale is what the edits amount to so
  far (`Copy`).

Only model-checked: liveness (`EventuallySettled`, `EventuallyApplied`,
`EventuallyReleased`, `EventuallyNotified`), which is beyond the prover, as is whatever
needs induction over data. Every other property of a passing run is a theorem.

## 6. Plan

What is left, in this order:

1. The consumer composed with `AlertCooldown`: an abstract evaluation that the consumer's
   `Notify` stands for.
2. The uptime figures of the status page over a history of checks.

## 7. Not modelled

Hashing (`pkg/fingerprint`, `pkg/apikey`), JWTs and password rules, HTTP routing, CORS and
configuration are functions of one request without a state to race on; in the models they
appear as the guards or the early returns of the operations they protect, or not at all.
Of the status page the names and the uptime of thirty days are left out, of rules the
channel and its target, of an event its contents but for its fingerprint and whether it
is refused. The filter of the issue list by status is left out because nothing in the
program changes a status. What notifications and broadcasts say is left out. Test
utilities, migrations and the load test are support code, but the constraints of the
migrations (the unique fingerprint, the foreign keys and their cascades) are part of the
actions they affect.
