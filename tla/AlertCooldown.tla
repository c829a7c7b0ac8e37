---------------------------- MODULE AlertCooldown ----------------------------
(***************************************************************************)
(* Alerts.  A rule says when an issue is worth a notification and for how  *)
(* long the pair of rule and issue is quiet after one.  The goroutines of  *)
(* the ingest consumer evaluate the new_issue rules for an issue they have *)
(* just created; a ticker evaluates the threshold rules.  Each of them     *)
(* works on the copies of the rules its query returned, reads the pair's   *)
(* last alert_logs row, notifies, and then inserts the next one, while the *)
(* API edits and deletes the rules.                                        *)
(*                                                                         *)
(* Time is the clock of Postgres (alert_logs.sent_at), which the worker's  *)
(* clock is taken to agree with, in units of the cooldown.                 *)
(***************************************************************************)
EXTENDS Integers, FiniteSets

CONSTANTS
    Rules,           \* alert rule ids
    Issues,          \* issue ids
    Consumers,       \* goroutines of the ingest consumer that group events
    Requests,        \* API requests that may be in flight at a time
    Thresholds,      \* values a request may give for threshold
    Cooldowns,       \* values a request may give for cooldown_minutes
    DefaultCooldown, \* what AlertRuleHandler.Create makes of 0
    Hot,             \* issues above every threshold once they exist
    Broken,          \* rules whose channel refuses every message
    MaxTime,         \* bound on time
    MaxChanges,      \* bound on the API's writes
    MaxFaults,       \* bound on failing calls and crashes
    None

ASSUME AlertConstantsAssumption ==
    /\ Thresholds \subseteq Nat /\ Cooldowns \subseteq Nat
    /\ DefaultCooldown \in Nat \ {0}
    /\ Hot \subseteq Issues /\ Broken \subseteq Rules
    /\ MaxTime \in Nat \ {0} /\ MaxChanges \in Nat /\ MaxFaults \in Nat

Ticker == "ticker"
ASSUME TickerAssumption == Ticker \notin Consumers
Evaluators == Consumers \cup {Ticker}

Conditions == {"new_issue", "threshold"}

\* The fields of alert_rules the evaluation depends on.
RowFields == [condition : Conditions, threshold : Thresholds,
              cooldown : (Cooldowns \cup {DefaultCooldown}) \ {0}]

VARIABLES
    now,
    rules,      \* alert_rules, None where there is no row
    logs,       \* alert_logs
    issues,     \* issues that exist
    fresh,      \* those created in the present pass of the ticker
    request,    \* PATCH requests in flight: the copy to write back, or None
    pc,         \* where each evaluator is
    todo,       \* copies of the rules it has not come to
    rule,       \* the copy it works on, or None
    targets,    \* issues it has still to consider for that rule
    issue,      \* the issue it is about to notify of, or None
    \* history and budgets
    gone,       \* rules deleted so far
    switched,   \* rules whose condition_type was changed
    sent,       \* notifications delivered
    unlogged,   \* pairs whose last notification has no row of alert_logs
    changes,
    faults

apiVars  == <<rules, request, gone, switched, changes>>
evalVars == <<pc, todo, rule, targets, issue>>
vars == <<now, apiVars, logs, issues, fresh, evalVars, sent, unlogged, faults>>

Exists(r) == rules[r] # None

ASSUME NoneAssumption == None \notin Issues \cup RowFields \cup [id : Rules, row : RowFields]

\* What a query on alert_rules returns for the rows with a condition_type.
RowsWith(cond) ==
    {[id |-> r, row |-> rules[r]] : r \in {s \in Rules : Exists(s) /\ rules[s].condition = cond}}

Copies == [id : Rules, row : RowFields]

TypeOK ==
    /\ now \in 1..MaxTime
    /\ rules \in [Rules -> RowFields \cup {None}]
    /\ logs \subseteq [id : Rules, issue : Issues, at : 1..MaxTime]
    /\ fresh \subseteq issues /\ issues \subseteq Issues
    /\ request \in [Requests -> Copies \cup {None}]
    /\ pc \in [Evaluators -> {"idle", "list", "next", "check", "send", "log"}]
    /\ todo \in [Evaluators -> SUBSET Copies]
    /\ rule \in [Evaluators -> Copies \cup {None}]
    /\ targets \in [Evaluators -> SUBSET issues]
    /\ issue \in [Evaluators -> issues \cup {None}]
    /\ \A e \in Evaluators :
         /\ (rule[e] # None) = (pc[e] \in {"check", "send", "log"})
         /\ (issue[e] # None) = (pc[e] \in {"send", "log"})
    /\ gone \subseteq Rules /\ switched \subseteq Rules
    /\ sent \subseteq [id : Rules, issue : Issues, at : 1..MaxTime]
    /\ unlogged \subseteq Rules \X Issues
    /\ changes \in 0..MaxChanges /\ faults \in 0..MaxFaults

Init ==
    /\ now = 1
    /\ rules = [r \in Rules |-> None]
    /\ logs = {}
    /\ issues = {} /\ fresh = {}
    /\ request = [q \in Requests |-> None]
    /\ pc = [e \in Evaluators |-> "idle"]
    /\ todo = [e \in Evaluators |-> {}]
    /\ rule = [e \in Evaluators |-> None]
    /\ targets = [e \in Evaluators |-> {}]
    /\ issue = [e \in Evaluators |-> None]
    /\ gone = {} /\ switched = {}
    /\ sent = {} /\ unlogged = {}
    /\ changes = 0 /\ faults = 0

Pass ==
    /\ now < MaxTime
    /\ now' = now + 1
    /\ UNCHANGED <<apiVars, logs, issues, fresh, evalVars, sent, unlogged, faults>>

\* A call fails, or the worker dies.
Fault == faults < MaxFaults /\ faults' = faults + 1

-----------------------------------------------------------------------------
(* The API: AlertRuleUsecase.  Ownership and audit log end or follow a     *)
(* request without an effect on the rules.                                 *)

\* Mutant: the cooldown is not validated.
ValidateCondition(row) == row.condition \in Conditions

\* AlertRule.Validate; the channel and its target are always present here.
Validate(row) ==
    /\ row.condition \in Conditions
    /\ row.cooldown > 0

\* The handler replaces a missing cooldown before validation.
WithDefault(row) ==
    [row EXCEPT !.cooldown = IF @ = 0 THEN DefaultCooldown ELSE @]

Change == changes < MaxChanges /\ changes' = changes + 1

\* Create: one INSERT; ids are never used twice.
CreateRule(r) ==
    /\ ~Exists(r) /\ r \notin gone
    /\ \E row \in [condition : Conditions, threshold : Thresholds, cooldown : Cooldowns] :
         /\ Validate(WithDefault(row))
         /\ rules' = [rules EXCEPT ![r] = WithDefault(row)]
    /\ Change
    /\ UNCHANGED <<now, logs, issues, fresh, evalVars, request, gone, switched,
                   sent, unlogged, faults>>

\* Update reads the row and replaces the fields the request names.
FetchRule(q, r) ==
    /\ request[q] = None /\ Exists(r)
    /\ changes < MaxChanges
    /\ \E row \in [condition : Conditions, threshold : Thresholds,
                   cooldown : Cooldowns \cup {rules[r].cooldown}] :
         /\ Validate(row)
         /\ request' = [request EXCEPT ![q] = [id |-> r, row |-> row]]
    /\ UNCHANGED <<now, rules, gone, switched, changes, logs, issues, fresh, evalVars,
                   sent, unlogged, faults>>

\* Mutant: the UPDATE is an upsert.
Upserted(r, row) == [rules EXCEPT ![r] = row]

\* An UPDATE of a row that is gone changes nothing, and reports no error.
Written(r, row) == IF Exists(r) THEN [rules EXCEPT ![r] = row] ELSE rules

\* ... and then writes all fields of its copy.
WriteRule(q) ==
    /\ request[q] # None
    /\ Change
    /\ LET c == request[q] IN
         /\ rules' = Written(c.id, c.row)
         /\ switched' = IF Exists(c.id) /\ rules[c.id].condition # c.row.condition
                        THEN switched \cup {c.id} ELSE switched
    /\ request' = [request EXCEPT ![q] = None]
    /\ UNCHANGED <<now, logs, issues, fresh, evalVars, gone, sent, unlogged, faults>>

\* Delete: the rows of alert_logs go with the rule (ON DELETE CASCADE).
DeleteRule(r) ==
    /\ Exists(r)
    /\ rules' = [rules EXCEPT ![r] = None]
    /\ logs' = {l \in logs : l.id # r}
    /\ unlogged' = unlogged \cup {<<l.id, l.issue>> : l \in logs \ logs'}
    /\ gone' = gone \cup {r}
    /\ Change
    /\ UNCHANGED <<now, request, switched, issues, fresh, evalVars, sent, faults>>

-----------------------------------------------------------------------------
(* The worker.                                                             *)

\* Evaluator e goes on at a label; the state it works on is replaced.
At(e, label, newTodo, newRule, newTargets, newIssue) ==
    /\ pc' = [pc EXCEPT ![e] = label]
    /\ todo' = [todo EXCEPT ![e] = newTodo]
    /\ rule' = [rule EXCEPT ![e] = newRule]
    /\ targets' = [targets EXCEPT ![e] = newTargets]
    /\ issue' = [issue EXCEPT ![e] = newIssue]

\* A consumer goroutine creates an issue: only the upsert that inserts the
\* row is followed by an evaluation.
NewIssue(e, i) ==
    /\ e \in Consumers /\ pc[e] = "idle" /\ i \notin issues
    /\ issues' = issues \cup {i}
    /\ fresh' = IF pc[Ticker] = "idle" THEN fresh ELSE fresh \cup {i}
    /\ At(e, "list", {}, None, {i}, None)
    /\ UNCHANGED <<now, apiVars, logs, sent, unlogged, faults>>

\* EvaluateNewIssue, the query of the rules; an error ends the evaluation.
ListNewIssueRules(e) ==
    /\ pc[e] = "list"
    /\ \/ /\ At(e, "next", RowsWith("new_issue"), None, targets[e], None)
          /\ UNCHANGED faults
       \/ /\ At(e, "idle", {}, None, {}, None)
          /\ Fault
    /\ UNCHANGED <<now, apiVars, logs, issues, fresh, sent, unlogged>>

\* EvaluateThresholds, the query of the rules, at a tick.  A tick whose query
\* fails or finds no rule leaves no trace.
ListThresholdRules ==
    /\ pc[Ticker] = "idle"
    /\ RowsWith("threshold") # {}
    /\ At(Ticker, "next", RowsWith("threshold"), None, {}, None)
    /\ UNCHANGED <<now, apiVars, logs, issues, fresh, sent, unlogged, faults>>

\* The counts of the ticker: issues above the threshold, whose rows could be
\* read.  A failing count leaves out the rule, a failing read the issue; the
\* counts an earlier rule of the pass left in the cache lack later issues.
Exceeding(S) ==
    LET counted == (Hot \cap issues) \ fresh IN
    \/ counted \subseteq S /\ UNCHANGED faults
    \/ ~(counted \subseteq S) /\ Fault

NextRule(e) ==
    /\ pc[e] = "next" /\ todo[e] # {}
    /\ \E c \in todo[e] :
         IF e = Ticker
         THEN \E S \in SUBSET issues :
                /\ At(e, "check", todo[e] \ {c}, c, S, None)
                /\ Exceeding(S)
         ELSE /\ At(e, "check", todo[e] \ {c}, c, targets[e], None)
              /\ UNCHANGED faults
    /\ UNCHANGED <<now, apiVars, logs, issues, fresh, sent, unlogged>>

EndPass(e) ==
    /\ pc[e] = "next" /\ todo[e] = {}
    /\ At(e, "idle", {}, None, {}, None)
    /\ fresh' = IF e = Ticker THEN {} ELSE fresh
    /\ UNCHANGED <<now, apiVars, logs, issues, sent, unlogged, faults>>

\* The loop over the issues of a rule goes on behind issue i.  A consumer has
\* one issue, for all its rules.
Skip(e, i) ==
    IF e \in Consumers
    THEN At(e, "next", todo[e], None, {i}, None)
    ELSE At(e, "check", todo[e], rule[e], targets[e] \ {i}, None)

EndRule ==
    /\ pc[Ticker] = "check" /\ targets[Ticker] = {}
    /\ At(Ticker, "next", todo[Ticker], None, {}, None)
    /\ UNCHANGED <<now, apiVars, logs, issues, fresh, sent, unlogged, faults>>

\* Mutant: the minutes are added as nanoseconds.
InCooldownOfNone(r, i, cooldown) ==
    \E l \in logs : l.id = r /\ l.issue = i /\ now < l.at

\* GetLastSentAt returns the newest row of the pair: it is within the cooldown
\* if any is.
InCooldown(r, i, cooldown) ==
    \E l \in logs : l.id = r /\ l.issue = i /\ now < l.at + cooldown

\* notifyIfNotCooldown, up to the notification.
CheckCooldown(e) ==
    /\ pc[e] = "check"
    /\ \E i \in targets[e] :
         \/ /\ InCooldown(rule[e].id, i, rule[e].row.cooldown)
            /\ Skip(e, i)
            /\ UNCHANGED faults
         \/ /\ ~InCooldown(rule[e].id, i, rule[e].row.cooldown)
            /\ At(e, "send", todo[e], rule[e], targets[e], i)
            /\ UNCHANGED faults
         \/ Skip(e, i) /\ Fault
    /\ UNCHANGED <<now, apiVars, logs, issues, fresh, sent, unlogged>>

Pair(e) == <<rule[e].id, issue[e]>>

Delivered(e) ==
    /\ sent' = sent \cup {[id |-> rule[e].id, issue |-> issue[e], at |-> now]}
    /\ unlogged' = unlogged \cup {Pair(e)}

\* Mutant: the log is written although the notification failed.
LogsAnyway(e) == At(e, "log", todo[e], rule[e], targets[e], issue[e])

\* Mutant: the error of one notification ends the pass.
StopsPass(e) == At(e, "idle", {}, None, {}, None)

\* The call of the notifier reports an error: back to the loop.
AfterFailure(e) == Skip(e, issue[e])

AfterSuccess(e) == At(e, "log", todo[e], rule[e], targets[e], issue[e])

\* Notify: an answer below 300, or an error, before or after the delivery.
Send(e) ==
    /\ pc[e] = "send"
    /\ \/ /\ rule[e].id \notin Broken
          /\ Delivered(e) /\ AfterSuccess(e) /\ UNCHANGED faults
       \/ /\ rule[e].id \in Broken
          /\ AfterFailure(e) /\ UNCHANGED <<sent, unlogged, faults>>
       \/ AfterFailure(e) /\ Fault /\ UNCHANGED <<sent, unlogged>>
       \/ AfterFailure(e) /\ Fault /\ Delivered(e)
    /\ UNCHANGED <<now, apiVars, logs, issues, fresh>>

\* The foreign key of alert_logs refuses a row of a rule that is gone.
HasParent(r) == Exists(r)

\* AlertLogRepository.Create: the evaluation goes on whatever it returns.
Log(e) ==
    /\ pc[e] = "log"
    /\ \/ /\ HasParent(rule[e].id)
          /\ logs' = logs \cup {[id |-> rule[e].id, issue |-> issue[e], at |-> now]}
          /\ unlogged' = unlogged \ {Pair(e)}
          /\ UNCHANGED faults
       \/ /\ ~HasParent(rule[e].id)
          /\ UNCHANGED <<logs, unlogged, faults>>
       \/ Fault /\ UNCHANGED <<logs, unlogged>>
    /\ Skip(e, issue[e])
    /\ UNCHANGED <<now, apiVars, issues, fresh, sent>>

\* The worker dies; Postgres keeps its rows, and what was sent was sent.
Crash ==
    /\ Fault
    /\ pc' = [e \in Evaluators |-> "idle"]
    /\ todo' = [e \in Evaluators |-> {}]
    /\ rule' = [e \in Evaluators |-> None]
    /\ targets' = [e \in Evaluators |-> {}]
    /\ issue' = [e \in Evaluators |-> None]
    /\ fresh' = {}
    /\ UNCHANGED <<now, apiVars, logs, issues, sent, unlogged>>

-----------------------------------------------------------------------------

Evaluate(e) ==
    \/ ListNewIssueRules(e)
    \/ e = Ticker /\ ListThresholdRules
    \/ NextRule(e) \/ EndPass(e)
    \/ e = Ticker /\ EndRule
    \/ CheckCooldown(e) \/ Send(e) \/ Log(e)

Next ==
    \/ Pass
    \/ \E r \in Rules : CreateRule(r) \/ DeleteRule(r)
    \/ \E q \in Requests : WriteRule(q) \/ \E r \in Rules : FetchRule(q, r)
    \/ \E e \in Evaluators, i \in Issues : NewIssue(e, i)
    \/ \E e \in Evaluators : Evaluate(e)
    \/ Crash

Spec == Init /\ [][Next]_vars

\* The ticker's loop has no exit while the process lives, and it ticks again.
FairSpec == Spec /\ WF_vars(Evaluate(Ticker))

-----------------------------------------------------------------------------
(* Properties.                                                             *)

\* The notifications delivered for a pair.
SentFor(r, i) == {s \in sent : s.id = r /\ s.issue = i}

\* evaluate_alert.go:117-122: the log is written after the delivery, so that no
\* pair is kept quiet by a notification nobody received: every row of
\* alert_logs has a delivered notification at or before its time.
NoFalseCooldown ==
    \A l \in logs : \E s \in SentFor(l.id, l.issue) : s.at <= l.at

\* domain/alert.go:70-74: after a notification, the next one of the same rule
\* and issue comes no earlier than the cooldown the evaluator's copy of the
\* rule has, however the evaluators interleave with each other and with edits.
\* Left out are pairs whose last notification could not be logged or whose log
\* went with the rule (a pass that listed the rule before still notifies), and
\* rules whose condition_type was changed, which two evaluators may hold.
CooldownKept ==
    [][\A e \in Evaluators :
         (/\ pc[e] = "send" /\ pc'[e] # "send"
          /\ Pair(e) \in unlogged' \ unlogged /\ rule[e].id \notin switched)
         => \A s \in SentFor(rule[e].id, issue[e]) :
              now >= s.at + rule[e].row.cooldown]_vars

\* domain/alert.go:106-117: nothing in flight, neither a PATCH that read the
\* row before nor an evaluator that notified, leaves a row of a deleted rule.
DeletedStaysDeleted ==
    \A r \in gone : ~Exists(r) /\ \A l \in logs : l.id # r

\* evaluate_alert.go:53-60: a rule that cannot be delivered does not keep the
\* others from being evaluated: an issue above the threshold of a rule is
\* notified in the end, unless the rule goes or stops being a threshold rule.
IsThreshold(r) == Exists(r) /\ rules[r].condition = "threshold"
EventuallyNotified ==
    \A r \in Rules \ Broken, i \in Hot :
        IsThreshold(r) /\ i \in issues ~> SentFor(r, i) # {} \/ ~IsThreshold(r)
=============================================================================
