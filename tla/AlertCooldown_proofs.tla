------------------------ MODULE AlertCooldown_proofs ------------------------
(* Proofs about AlertCooldown, for any rules, issues, consumers, requests, *)
(* edits, failures and crashes.                                            *)
EXTENDS AlertCooldown, TLAPS

-----------------------------------------------------------------------------
(* The inductive invariant.                                                *)

\* The copies of rules an evaluator still works with.
CopiesOf(e) == todo[e] \cup ({rule[e]} \ {None})

KindOf(e) == IF e = Ticker THEN "threshold" ELSE "new_issue"

\* A copy is of a rule that exists or is gone, has the condition_type its
\* evaluator asked for, and so has the row unless it was switched.
CopiesKnown ==
    \A e \in Evaluators : \A c \in CopiesOf(e) :
        /\ Exists(c.id) \/ c.id \in gone
        /\ c.row.condition = KindOf(e)
        /\ Exists(c.id) /\ c.id \notin switched => rules[c.id].condition = c.row.condition

\* A consumer and the ticker hold copies of one rule only if it was switched.
OneKind ==
    \A e \in Consumers : \A c \in CopiesOf(e), d \in CopiesOf(Ticker) :
        c.id = d.id => c.id \in switched

\* A consumer evaluates one issue, and no other consumer evaluates it.
OneConsumer ==
    /\ pc[Ticker] # "list"
    /\ \A e \in Evaluators : issue[e] # None => issue[e] \in targets[e]
    /\ \A e \in Consumers : IF pc[e] = "idle" THEN targets[e] = {}
                            ELSE \E i \in issues : targets[e] = {i}
    /\ \A e, f \in Consumers : e # f => targets[e] \cap targets[f] = {}

HasLog(s) == \E l \in logs : l.id = s.id /\ l.issue = s.issue /\ l.at >= s.at

\* A notification is in the past, and has a later log unless it is unlogged.
SentIsLogged ==
    \A s \in sent : s.at <= now /\ (<<s.id, s.issue>> \in unlogged \/ HasLog(s))

\* What an evaluator found out about the cooldown still holds when it sends.
MaySend ==
    \A e \in Evaluators :
        pc[e] = "send" /\ rule[e].id \notin switched /\ Pair(e) \notin unlogged
        => \A s \in SentFor(rule[e].id, issue[e]) : now >= s.at + rule[e].row.cooldown

\* An evaluator about to write a log has had its notification delivered.
LogJustified ==
    \A e \in Evaluators : pc[e] = "log" => SentFor(rule[e].id, issue[e]) # {}

EvalInv == CopiesKnown /\ OneKind /\ OneConsumer
LogInv == SentIsLogged /\ MaySend /\ LogJustified /\ NoFalseCooldown /\ DeletedStaysDeleted
CooldownInv == TypeOK /\ EvalInv /\ LogInv

EvalTypeOK ==
    /\ pc \in [Evaluators -> {"idle", "list", "next", "check", "send", "log"}]
    /\ todo \in [Evaluators -> SUBSET Copies]
    /\ rule \in [Evaluators -> Copies \cup {None}]
    /\ targets \in [Evaluators -> SUBSET issues]
    /\ issue \in [Evaluators -> issues \cup {None}]
    /\ \A e \in Evaluators :
         /\ (rule[e] # None) = (pc[e] \in {"check", "send", "log"})
         /\ (issue[e] # None) = (pc[e] \in {"send", "log"})

DataTypeOK ==
    /\ now \in 1..MaxTime
    /\ rules \in [Rules -> RowFields \cup {None}]
    /\ logs \subseteq [id : Rules, issue : Issues, at : 1..MaxTime]
    /\ fresh \subseteq issues /\ issues \subseteq Issues
    /\ request \in [Requests -> Copies \cup {None}]
    /\ gone \subseteq Rules /\ switched \subseteq Rules
    /\ sent \subseteq [id : Rules, issue : Issues, at : 1..MaxTime]
    /\ unlogged \subseteq Rules \X Issues
    /\ changes \in 0..MaxChanges /\ faults \in 0..MaxFaults

LEMMA TypeParts ==
    /\ TypeOK => EvalTypeOK /\ DataTypeOK
    /\ EvalTypeOK' /\ DataTypeOK' => TypeOK'
BY DEF TypeOK, EvalTypeOK, DataTypeOK

LEMMA FaultBudget ==
    ASSUME DataTypeOK, Fault \/ UNCHANGED faults
    PROVE  faults' \in 0..MaxFaults
BY AlertConstantsAssumption DEF Fault, DataTypeOK

-----------------------------------------------------------------------------
(* What a step of an evaluator leaves alone.                               *)

LEMMA EvaluatorsFact == Ticker \in Evaluators /\ Consumers = Evaluators \ {Ticker}
BY TickerAssumption DEF Evaluators

LEMMA AtFrame ==
    ASSUME EvalTypeOK, NEW e \in Evaluators,
           NEW label, NEW T, NEW c, NEW S, NEW i, At(e, label, T, c, S, i)
    PROVE  /\ pc'[e] = label /\ todo'[e] = T /\ rule'[e] = c
           /\ targets'[e] = S /\ issue'[e] = i
           /\ \A f \in Evaluators \ {e} :
                /\ pc'[f] = pc[f] /\ todo'[f] = todo[f] /\ rule'[f] = rule[f]
                /\ targets'[f] = targets[f] /\ issue'[f] = issue[f]
BY DEF At, EvalTypeOK

LEMMA AtType ==
    ASSUME EvalTypeOK, NEW e \in Evaluators,
           NEW label \in {"idle", "list", "next", "check", "send", "log"},
           NEW T \in SUBSET Copies, NEW c \in Copies \cup {None},
           NEW S, NEW i, S \subseteq issues', i \in issues' \cup {None},
           issues \subseteq issues',
           (c # None) = (label \in {"check", "send", "log"}),
           (i # None) = (label \in {"send", "log"}),
           At(e, label, T, c, S, i)
    PROVE  EvalTypeOK'
<1>1. /\ pc'[e] = label /\ todo'[e] = T /\ rule'[e] = c
      /\ targets'[e] = S /\ issue'[e] = i
      /\ \A f \in Evaluators \ {e} :
           /\ pc'[f] = pc[f] /\ todo'[f] = todo[f] /\ rule'[f] = rule[f]
           /\ targets'[f] = targets[f] /\ issue'[f] = issue[f]
  BY AtFrame
<1>2. \A f \in Evaluators :
         /\ (rule'[f] # None) = (pc'[f] \in {"check", "send", "log"})
         /\ (issue'[f] # None) = (pc'[f] \in {"send", "log"})
  BY <1>1 DEF EvalTypeOK
<1>3. pc' \in [Evaluators -> {"idle", "list", "next", "check", "send", "log"}]
  BY DEF At, EvalTypeOK
<1>4. todo' \in [Evaluators -> SUBSET Copies] /\ rule' \in [Evaluators -> Copies \cup {None}]
  BY DEF At, EvalTypeOK
<1>5. targets' \in [Evaluators -> SUBSET issues'] /\ issue' \in [Evaluators -> issues' \cup {None}]
  BY DEF At, EvalTypeOK
<1>6. QED
  BY <1>2, <1>3, <1>4, <1>5 DEF EvalTypeOK

\* A step that takes no new copies and keeps a consumer at its issue.
LEMMA AtEval ==
    ASSUME TypeOK, EvalTypeOK, EvalInv, NEW e \in Evaluators,
           NEW label, NEW T, NEW c, NEW S, NEW i, At(e, label, T, c, S, i),
           T \cup ({c} \ {None}) \subseteq CopiesOf(e),
           e \in Consumers => IF label = "idle" THEN S = {} ELSE S = targets[e] /\ pc[e] # "idle",
           i # None => i \in S, label # "list",
           UNCHANGED <<rules, gone, switched, issues>>
    PROVE  EvalInv'
<1>1. /\ pc'[e] = label /\ todo'[e] = T /\ rule'[e] = c
      /\ targets'[e] = S /\ issue'[e] = i
      /\ \A f \in Evaluators \ {e} :
           /\ pc'[f] = pc[f] /\ todo'[f] = todo[f] /\ rule'[f] = rule[f]
           /\ targets'[f] = targets[f] /\ issue'[f] = issue[f]
  BY AtFrame
<1>2. \A f \in Evaluators : CopiesOf(f)' \subseteq CopiesOf(f)
  BY <1>1 DEF CopiesOf
<1>3. CopiesKnown'
  BY <1>2 DEF EvalInv, CopiesKnown, Exists
<1>4. OneKind'
  BY <1>2, EvaluatorsFact DEF EvalInv, OneKind
<1>5. \A f \in Consumers : targets'[f] \subseteq targets[f]
  BY <1>1, EvaluatorsFact
<1>6. OneConsumer'
  <2>1. \A f \in Evaluators : issue'[f] # None => issue'[f] \in targets'[f]
    BY <1>1 DEF EvalInv, OneConsumer
  <2>2. \A f \in Consumers : IF pc'[f] = "idle" THEN targets'[f] = {}
                             ELSE \E j \in issues' : targets'[f] = {j}
    BY <1>1, EvaluatorsFact DEF EvalInv, OneConsumer
  <2>3. \A f, g \in Consumers : f # g => targets'[f] \cap targets'[g] = {}
    BY <1>5 DEF EvalInv, OneConsumer
  <2>4. pc'[Ticker] # "list"
    BY <1>1, EvaluatorsFact DEF EvalInv, OneConsumer
  <2>5. QED
    BY <2>1, <2>2, <2>3, <2>4 DEF OneConsumer
<1>7. QED
  BY <1>3, <1>4, <1>6 DEF EvalInv

\* A step that neither sends nor logs, and leaves no evaluator about to.
LEMMA AtQuiet ==
    ASSUME EvalTypeOK, LogInv, NEW e \in Evaluators,
           NEW label, NEW T, NEW c, NEW S, NEW i, At(e, label, T, c, S, i),
           label \notin {"send", "log"},
           UNCHANGED <<now, rules, gone, switched, logs, sent, unlogged>>
    PROVE  LogInv'
<1>1. /\ pc'[e] = label
      /\ \A f \in Evaluators \ {e} :
           /\ pc'[f] = pc[f] /\ todo'[f] = todo[f] /\ rule'[f] = rule[f]
           /\ targets'[f] = targets[f] /\ issue'[f] = issue[f]
  BY AtFrame
<1>2. SentIsLogged' /\ NoFalseCooldown' /\ DeletedStaysDeleted'
  BY DEF LogInv, SentIsLogged, HasLog, NoFalseCooldown, SentFor, DeletedStaysDeleted, Exists
<1>3. MaySend'
  BY <1>1 DEF LogInv, MaySend, Pair, SentFor
<1>4. LogJustified'
  BY <1>1 DEF LogInv, LogJustified, SentFor
<1>5. QED
  BY <1>2, <1>3, <1>4 DEF LogInv

-----------------------------------------------------------------------------
(* The initial state, time, and the API.                                   *)

LEMMA InitCooldown == Init => CooldownInv
<1> SUFFICES ASSUME Init
             PROVE  CooldownInv
  OBVIOUS
<1>1. TypeOK
  BY AlertConstantsAssumption DEF Init, TypeOK
<1>2. EvalInv
  BY EvaluatorsFact DEF Init, EvalInv, CopiesKnown, OneKind, OneConsumer, CopiesOf
<1>3. LogInv
  BY DEF Init, LogInv, SentIsLogged, MaySend, LogJustified, NoFalseCooldown,
         DeletedStaysDeleted
<1>4. QED
  BY <1>1, <1>2, <1>3 DEF CooldownInv

LEMMA PassStep ==
    ASSUME CooldownInv, Pass
    PROVE  CooldownInv'
<1>1. now \in Nat /\ now' = now + 1 /\ now' \in 1..MaxTime
  BY AlertConstantsAssumption DEF Pass, CooldownInv, TypeOK
<1>2. UNCHANGED <<apiVars, logs, issues, fresh, evalVars, sent, unlogged, faults>>
  BY DEF Pass
<1>3. TypeOK'
  BY <1>1, <1>2 DEF CooldownInv, TypeOK, apiVars, evalVars
<1>4. EvalInv'
  BY <1>2 DEF CooldownInv, EvalInv, CopiesKnown, OneKind, OneConsumer, CopiesOf, Exists,
              apiVars, evalVars
<1>5. \A s \in sent : s.at \in Nat
  BY DEF CooldownInv, TypeOK
<1>6. SentIsLogged' /\ LogJustified' /\ NoFalseCooldown' /\ DeletedStaysDeleted'
  BY <1>1, <1>2, <1>5 DEF CooldownInv, LogInv, SentIsLogged, HasLog, LogJustified,
     NoFalseCooldown, DeletedStaysDeleted, Exists, SentFor, apiVars, evalVars
<1>7. MaySend'
  <2> SUFFICES ASSUME NEW e \in Evaluators,
                      pc[e] = "send", rule[e].id \notin switched, Pair(e) \notin unlogged,
                      NEW s \in SentFor(rule[e].id, issue[e])
               PROVE  now' >= s.at + rule[e].row.cooldown
    BY <1>2 DEF MaySend, Pair, SentFor, apiVars, evalVars
  <2>1. now >= s.at + rule[e].row.cooldown
    BY DEF CooldownInv, LogInv, MaySend
  <2>2. rule[e].row.cooldown \in Nat /\ s.at \in Nat
    BY <1>5, AlertConstantsAssumption DEF CooldownInv, TypeOK, Copies, RowFields, SentFor
  <2>3. QED
    BY <1>1, <2>1, <2>2
<1>8. QED
  BY <1>3, <1>4, <1>6, <1>7 DEF CooldownInv, LogInv

LEMMA CreateRuleStep ==
    ASSUME CooldownInv, NEW r \in Rules, CreateRule(r)
    PROVE  CooldownInv'
<1>1. PICK row \in RowFields : rules' = [rules EXCEPT ![r] = row]
  BY AlertConstantsAssumption DEF CreateRule, RowFields, WithDefault, Validate
<1>2. /\ UNCHANGED <<now, logs, issues, fresh, evalVars, request, gone, switched, sent, unlogged,
                     faults>>
      /\ ~Exists(r) /\ r \notin gone /\ changes' \in 0..MaxChanges
  BY AlertConstantsAssumption DEF CreateRule, Change, CooldownInv, TypeOK
<1>3. TypeOK'
  BY <1>1, <1>2 DEF CooldownInv, TypeOK, evalVars
<1>4. \A q \in Rules : q # r => rules'[q] = rules[q]
  BY <1>1 DEF CooldownInv, TypeOK
<1>5. \A e \in Evaluators : \A c \in CopiesOf(e) : c.id # r /\ c.id \in Rules
  <2>1. \A e \in Evaluators : \A c \in CopiesOf(e) : c \in Copies
    BY DEF CopiesOf, CooldownInv, TypeOK
  <2>2. QED
    BY <1>2, <2>1 DEF CooldownInv, EvalInv, CopiesKnown, Copies
<1>6. EvalInv'
  BY <1>2, <1>4, <1>5 DEF CooldownInv, EvalInv, CopiesKnown, OneKind, OneConsumer,
     CopiesOf, Exists, evalVars
<1>7. DeletedStaysDeleted'
  BY <1>2, <1>4 DEF CooldownInv, TypeOK, LogInv, DeletedStaysDeleted, Exists
<1>8. SentIsLogged' /\ MaySend' /\ LogJustified' /\ NoFalseCooldown'
  BY <1>2 DEF CooldownInv, LogInv, SentIsLogged, HasLog, MaySend, Pair, LogJustified,
     NoFalseCooldown, SentFor, evalVars
<1>9. QED
  BY <1>3, <1>6, <1>7, <1>8 DEF CooldownInv, LogInv

LEMMA FetchRuleStep ==
    ASSUME CooldownInv, NEW q \in Requests, NEW r \in Rules, FetchRule(q, r)
    PROVE  CooldownInv'
<1>1. UNCHANGED <<now, rules, gone, switched, changes, logs, issues, fresh, evalVars, sent, unlogged,
                 faults>>
  BY DEF FetchRule
<1>2. rules[r] \in RowFields
  BY DEF FetchRule, Exists, CooldownInv, TypeOK
<1>3. PICK row \in [condition : Conditions, threshold : Thresholds,
                    cooldown : Cooldowns \cup {rules[r].cooldown}] :
          Validate(row) /\ request' = [request EXCEPT ![q] = [id |-> r, row |-> row]]
  BY DEF FetchRule
<1>31. row \in RowFields
  <2>1. rules[r].cooldown \in Cooldowns \cup {DefaultCooldown}
    BY <1>2 DEF RowFields
  <2>2. row.cooldown # 0
    BY <1>3, AlertConstantsAssumption DEF Validate
  <2>3. row.cooldown \in (Cooldowns \cup {DefaultCooldown}) \ {0}
    BY <2>1, <2>2
  <2>4. QED
    BY <2>3 DEF RowFields
<1>32. [id |-> r, row |-> row] \in Copies
  BY <1>31 DEF Copies
<1>4. TypeOK'
  BY <1>1, <1>3, <1>32 DEF CooldownInv, TypeOK, evalVars
<1>5. EvalInv'
  BY <1>1 DEF CooldownInv, EvalInv, CopiesKnown, OneKind, OneConsumer, CopiesOf, Exists,
              evalVars
<1>6. LogInv'
  BY <1>1 DEF CooldownInv, LogInv, SentIsLogged, HasLog, MaySend, Pair, LogJustified,
     NoFalseCooldown, DeletedStaysDeleted, Exists, SentFor, evalVars
<1>7. QED
  BY <1>4, <1>5, <1>6 DEF CooldownInv

LEMMA WriteRuleStep ==
    ASSUME CooldownInv, NEW q \in Requests, WriteRule(q)
    PROVE  CooldownInv'
<1> DEFINE c == request[q]
<1>1. /\ UNCHANGED <<now, logs, issues, fresh, evalVars, gone, sent, unlogged, faults>>
      /\ request' = [request EXCEPT ![q] = None]
      /\ changes' \in 0..MaxChanges /\ c \in Copies
  BY AlertConstantsAssumption DEF WriteRule, Change, CooldownInv, TypeOK
<1>2. /\ rules' \in [Rules -> RowFields \cup {None}]
      /\ \A r \in Rules : Exists(r)' = Exists(r)
      /\ \A r \in Rules : r \notin switched' /\ Exists(r)
                         => rules'[r].condition = rules[r].condition
  BY <1>1, NoneAssumption DEF WriteRule, Written, Exists, CooldownInv, TypeOK, Copies
<1>3. switched \subseteq switched' /\ switched' \subseteq Rules
  BY <1>1 DEF WriteRule, Copies, CooldownInv, TypeOK
<1>4. TypeOK'
  BY <1>1, <1>2, <1>3 DEF CooldownInv, TypeOK, evalVars
<1>5. \A e \in Evaluators : \A d \in CopiesOf(e) : d.id \in Rules
  BY DEF CopiesOf, CooldownInv, TypeOK, Copies
<1>6. CopiesKnown'
  BY <1>1, <1>2, <1>3, <1>5 DEF CooldownInv, EvalInv, CopiesKnown, CopiesOf, evalVars
<1>7. OneKind' /\ OneConsumer'
  BY <1>1, <1>3 DEF CooldownInv, EvalInv, OneKind, OneConsumer, CopiesOf, evalVars
<1>8. DeletedStaysDeleted'
  BY <1>1, <1>2 DEF CooldownInv, TypeOK, LogInv, DeletedStaysDeleted
<1>9. SentIsLogged' /\ MaySend' /\ LogJustified' /\ NoFalseCooldown'
  BY <1>1, <1>3 DEF CooldownInv, LogInv, SentIsLogged, HasLog, MaySend, Pair, LogJustified,
     NoFalseCooldown, SentFor, evalVars
<1>10. QED
  BY <1>4, <1>6, <1>7, <1>8, <1>9 DEF CooldownInv, EvalInv, LogInv

LEMMA DeleteRuleStep ==
    ASSUME CooldownInv, NEW r \in Rules, DeleteRule(r)
    PROVE  CooldownInv'
<1>1. /\ UNCHANGED <<now, request, switched, issues, fresh, evalVars, sent, faults>>
      /\ rules' = [rules EXCEPT ![r] = None] /\ gone' = gone \cup {r}
      /\ logs' = {l \in logs : l.id # r}
      /\ unlogged' = unlogged \cup {<<l.id, l.issue>> : l \in logs \ logs'}
      /\ changes' \in 0..MaxChanges
  BY AlertConstantsAssumption DEF DeleteRule, Change, CooldownInv, TypeOK
<1>2. unlogged' \subseteq Rules \X Issues
  BY <1>1 DEF CooldownInv, TypeOK
<1>3. TypeOK'
  BY <1>1, <1>2 DEF CooldownInv, TypeOK, evalVars
<1>4. /\ ~Exists(r)'
      /\ \A s \in Rules : s # r => rules'[s] = rules[s]
  BY <1>1 DEF Exists, CooldownInv, TypeOK
<1>5. \A e \in Evaluators : \A d \in CopiesOf(e) : d.id \in Rules
  BY DEF CopiesOf, CooldownInv, TypeOK, Copies
<1>6. CopiesKnown'
  BY <1>1, <1>4, <1>5 DEF CooldownInv, EvalInv, CopiesKnown, CopiesOf, Exists, evalVars
<1>7. OneKind' /\ OneConsumer'
  BY <1>1 DEF CooldownInv, EvalInv, OneKind, OneConsumer, CopiesOf, evalVars
<1>8. DeletedStaysDeleted'
  BY <1>1, <1>4 DEF CooldownInv, TypeOK, LogInv, DeletedStaysDeleted, Exists
<1>9. SentIsLogged'
  <2> SUFFICES ASSUME NEW s \in sent
               PROVE  s.at <= now /\ (<<s.id, s.issue>> \in unlogged' \/ HasLog(s)')
    BY <1>1 DEF SentIsLogged
  <2>1. s.at <= now /\ (<<s.id, s.issue>> \in unlogged \/ HasLog(s))
    BY DEF CooldownInv, LogInv, SentIsLogged
  <2>2. CASE <<s.id, s.issue>> \in unlogged
    BY <1>1, <2>1, <2>2
  <2>3. CASE HasLog(s)
    <3>1. PICK l \in logs : l.id = s.id /\ l.issue = s.issue /\ l.at >= s.at
      BY <2>3 DEF HasLog
    <3>2. CASE l \in logs'
      BY <2>1, <3>1, <3>2 DEF HasLog
    <3>3. CASE l \notin logs'
      BY <1>1, <2>1, <3>1, <3>3
    <3>4. QED
      BY <3>2, <3>3
  <2>4. QED
    BY <2>1, <2>2, <2>3
<1>10. MaySend' /\ LogJustified' /\ NoFalseCooldown'
  BY <1>1 DEF CooldownInv, LogInv, MaySend, Pair, LogJustified, NoFalseCooldown, SentFor,
     evalVars
<1>11. QED
  BY <1>3, <1>6, <1>7, <1>8, <1>9, <1>10 DEF CooldownInv, EvalInv, LogInv

-----------------------------------------------------------------------------
(* The evaluators.                                                         *)

\* A copy taken from the table is of the kind its evaluator asked for, and no
\* evaluator of the other kind holds one of the same rule.
LEMMA AtList ==
    ASSUME TypeOK, EvalTypeOK, EvalInv, NEW e \in Evaluators, NEW S,
           At(e, "next", RowsWith(KindOf(e)), None, S, None),
           e \in Consumers => S = targets[e] /\ pc[e] # "idle",
           UNCHANGED <<rules, gone, switched, issues>>
    PROVE  EvalInv'
<1>1. /\ pc'[e] = "next" /\ todo'[e] = RowsWith(KindOf(e)) /\ rule'[e] = None
      /\ targets'[e] = S /\ issue'[e] = None
      /\ \A f \in Evaluators \ {e} :
           /\ pc'[f] = pc[f] /\ todo'[f] = todo[f] /\ rule'[f] = rule[f]
           /\ targets'[f] = targets[f] /\ issue'[f] = issue[f]
  BY AtFrame
<1>2. \A f \in Evaluators \ {e} : CopiesOf(f)' = CopiesOf(f)
  BY <1>1 DEF CopiesOf
<1>3. \A c \in CopiesOf(e)' :
         /\ Exists(c.id) /\ c.row = rules[c.id] /\ c.row.condition = KindOf(e)
  BY <1>1 DEF CopiesOf, RowsWith
<1>4. CopiesKnown'
  BY <1>2, <1>3 DEF EvalInv, CopiesKnown, Exists
<1>5. OneKind'
  <2>1. \A f \in Evaluators : \A c \in CopiesOf(e)', d \in CopiesOf(f) :
           KindOf(f) # KindOf(e) /\ c.id = d.id => c.id \in switched
    BY <1>3 DEF EvalInv, CopiesKnown
  <2>2. \A f \in Consumers : KindOf(f) # KindOf(Ticker)
    BY EvaluatorsFact DEF KindOf
  <2>3. \A f \in Consumers : \A c \in CopiesOf(f)', d \in CopiesOf(Ticker)' :
           c.id = d.id => c.id \in switched
    <3>1. CASE e = Ticker
      BY <1>2, <2>1, <2>2, <3>1, EvaluatorsFact
    <3>2. CASE e # Ticker
      BY <1>2, <2>1, <2>2, <3>2, EvaluatorsFact DEF EvalInv, OneKind
    <3>3. QED
      BY <3>1, <3>2
  <2>4. QED
    BY <2>3 DEF OneKind
<1>6. OneConsumer'
  <2>1. \A f \in Consumers : targets'[f] = targets[f]
    BY <1>1, EvaluatorsFact
  <2>2. QED
    BY <1>1, <2>1, EvaluatorsFact DEF EvalInv, OneConsumer
<1>7. QED
  BY <1>4, <1>5, <1>6 DEF EvalInv

\* What the rest of the variables need of a step of an evaluator.
LEMMA AtData ==
    ASSUME DataTypeOK, UNCHANGED <<now, apiVars, logs, issues>>,
           fresh' \subseteq issues,
           Fault \/ UNCHANGED faults,
           sent' \subseteq [id : Rules, issue : Issues, at : 1..MaxTime],
           unlogged' \subseteq Rules \X Issues
    PROVE  DataTypeOK'
<1>1. faults' \in 0..MaxFaults
  BY FaultBudget
<1>2. QED
  BY <1>1 DEF DataTypeOK, apiVars

LEMMA NewIssueStep ==
    ASSUME CooldownInv, NEW e \in Evaluators, NEW i \in Issues, NewIssue(e, i)
    PROVE  CooldownInv'
<1>1. /\ e \in Consumers /\ pc[e] = "idle" /\ i \notin issues
      /\ issues' = issues \cup {i} /\ fresh' \subseteq fresh \cup {i}
      /\ At(e, "list", {}, None, {i}, None)
      /\ UNCHANGED <<now, apiVars, logs, sent, unlogged, faults>>
  BY DEF NewIssue
<1>2. EvalTypeOK /\ DataTypeOK /\ EvalInv /\ LogInv
  BY TypeParts DEF CooldownInv
<1>3. EvalTypeOK'
  BY <1>1, <1>2, AtType
<1>4. DataTypeOK'
  BY <1>1, <1>2 DEF DataTypeOK, apiVars
<1>5. LogInv'
  BY <1>1, <1>2, AtQuiet DEF apiVars
<1>6. /\ pc'[e] = "list" /\ todo'[e] = {} /\ rule'[e] = None
      /\ targets'[e] = {i} /\ issue'[e] = None
      /\ \A f \in Evaluators \ {e} :
           /\ pc'[f] = pc[f] /\ todo'[f] = todo[f] /\ rule'[f] = rule[f]
           /\ targets'[f] = targets[f] /\ issue'[f] = issue[f]
  BY <1>1, <1>2, AtFrame
<1>7. \A f \in Evaluators : CopiesOf(f)' \subseteq CopiesOf(f)
  BY <1>6 DEF CopiesOf
<1>8. CopiesKnown' /\ OneKind'
  BY <1>1, <1>2, <1>7, EvaluatorsFact DEF EvalInv, CopiesKnown, OneKind, Exists, apiVars
<1>9. OneConsumer'
  <2>1. \A f \in Evaluators : issue'[f] # None => issue'[f] \in targets'[f]
    BY <1>2, <1>6 DEF EvalInv, OneConsumer
  <2>2. \A f \in Consumers : IF pc'[f] = "idle" THEN targets'[f] = {}
                             ELSE \E j \in issues' : targets'[f] = {j}
    BY <1>1, <1>2, <1>6, EvaluatorsFact DEF EvalInv, OneConsumer
  <2>3. \A f \in Consumers \ {e} : i \notin targets'[f] /\ targets'[f] = targets[f]
    BY <1>1, <1>2, <1>6, EvaluatorsFact DEF EvalTypeOK
  <2>4. \A f, g \in Consumers : f # g => targets'[f] \cap targets'[g] = {}
    BY <1>2, <1>6, <2>3 DEF EvalInv, OneConsumer
  <2>5. pc'[Ticker] # "list"
    BY <1>1, <1>2, <1>6, EvaluatorsFact DEF EvalInv, OneConsumer
  <2>6. QED
    BY <2>1, <2>2, <2>4, <2>5 DEF OneConsumer
<1>10. QED
  BY <1>3, <1>4, <1>5, <1>8, <1>9, TypeParts DEF CooldownInv, EvalInv

LEMMA ListNewIssueRulesStep ==
    ASSUME CooldownInv, NEW e \in Evaluators, ListNewIssueRules(e)
    PROVE  CooldownInv'
<1>1. /\ pc[e] = "list"
      /\ UNCHANGED <<now, apiVars, logs, issues, fresh, sent, unlogged>>
      /\ Fault \/ UNCHANGED faults
  BY DEF ListNewIssueRules
<1>2. EvalTypeOK /\ DataTypeOK /\ EvalInv /\ LogInv /\ TypeOK
  BY TypeParts DEF CooldownInv
<1>3. DataTypeOK'
  BY <1>1, <1>2, AtData DEF DataTypeOK
<1>4. e # Ticker /\ e \in Consumers /\ KindOf(e) = "new_issue"
  BY <1>1, <1>2, EvaluatorsFact DEF EvalInv, OneConsumer, KindOf
<1>5. CASE At(e, "next", RowsWith("new_issue"), None, targets[e], None)
  <2>1. RowsWith("new_issue") \in SUBSET Copies
    BY <1>2 DEF RowsWith, Exists, Copies, DataTypeOK
  <2>2. EvalTypeOK'
    <3>1. targets[e] \subseteq issues'
      BY <1>1, <1>2 DEF EvalTypeOK
    <3>2. QED
      BY <1>1, <1>2, <1>5, <2>1, <3>1, AtType
  <2>3. EvalInv'
    BY <1>1, <1>2, <1>4, <1>5, AtList DEF apiVars
  <2>4. LogInv'
    BY <1>1, <1>2, <1>5, AtQuiet DEF apiVars
  <2>5. QED
    BY <1>3, <2>2, <2>3, <2>4, TypeParts DEF CooldownInv
<1>6. CASE At(e, "idle", {}, None, {}, None)
  <2>1. EvalTypeOK'
    BY <1>1, <1>2, <1>6, AtType
  <2>2. EvalInv'
    BY <1>1, <1>2, <1>6, AtEval DEF apiVars
  <2>3. LogInv'
    BY <1>1, <1>2, <1>6, AtQuiet DEF apiVars
  <2>4. QED
    BY <1>3, <2>1, <2>2, <2>3, TypeParts DEF CooldownInv
<1>7. QED
  BY <1>5, <1>6 DEF ListNewIssueRules

LEMMA ListThresholdRulesStep ==
    ASSUME CooldownInv, ListThresholdRules
    PROVE  CooldownInv'
<1>1. /\ At(Ticker, "next", RowsWith("threshold"), None, {}, None)
      /\ UNCHANGED <<now, apiVars, logs, issues, fresh, sent, unlogged, faults>>
  BY DEF ListThresholdRules
<1>2. EvalTypeOK /\ DataTypeOK /\ EvalInv /\ LogInv /\ TypeOK
  BY TypeParts DEF CooldownInv
<1>3. DataTypeOK'
  BY <1>1, <1>2, AtData DEF DataTypeOK
<1>4. Ticker \in Evaluators /\ Ticker \notin Consumers /\ KindOf(Ticker) = "threshold"
  BY EvaluatorsFact DEF KindOf
<1>5. RowsWith("threshold") \in SUBSET Copies
  BY <1>2 DEF RowsWith, Exists, Copies, DataTypeOK
<1>6. EvalTypeOK'
  BY <1>1, <1>2, <1>4, <1>5, AtType
<1>7. EvalInv'
  BY <1>1, <1>2, <1>4, AtList DEF apiVars
<1>8. LogInv'
  BY <1>1, <1>2, <1>4, AtQuiet DEF apiVars
<1>9. QED
  BY <1>3, <1>6, <1>7, <1>8, TypeParts DEF CooldownInv

LEMMA NextRuleStep ==
    ASSUME CooldownInv, NEW e \in Evaluators, NextRule(e)
    PROVE  CooldownInv'
<1>1. /\ pc[e] = "next"
      /\ UNCHANGED <<now, apiVars, logs, issues, fresh, sent, unlogged>>
  BY DEF NextRule
<1>2. EvalTypeOK /\ DataTypeOK /\ EvalInv /\ LogInv /\ TypeOK
  BY TypeParts DEF CooldownInv
<1>3. Fault \/ UNCHANGED faults
  BY DEF NextRule, Exceeding
<1>4. PICK c \in todo[e], S \in SUBSET issues :
        /\ At(e, "check", todo[e] \ {c}, c, S, None)
        /\ e \in Consumers => S = targets[e]
  <2>1. CASE e = Ticker
    BY <2>1, EvaluatorsFact DEF NextRule
  <2>2. CASE e # Ticker
    BY <1>2, <2>2 DEF NextRule, EvalTypeOK
  <2>3. QED
    BY <2>1, <2>2
<1>5. c \in Copies /\ c # None /\ todo[e] \ {c} \in SUBSET Copies
  BY <1>2, NoneAssumption DEF EvalTypeOK, Copies
<1>6. DataTypeOK'
  BY <1>1, <1>2, <1>3, AtData DEF DataTypeOK
<1>7. EvalTypeOK'
  BY <1>1, <1>2, <1>4, <1>5, AtType
<1>8. EvalInv'
  <2>1. (todo[e] \ {c}) \cup ({c} \ {None}) \subseteq CopiesOf(e)
    BY DEF CopiesOf
  <2>2. QED
    BY <1>1, <1>2, <1>4, <2>1, AtEval DEF apiVars
<1>9. LogInv'
  BY <1>1, <1>2, <1>4, AtQuiet DEF apiVars
<1>10. QED
  BY <1>6, <1>7, <1>8, <1>9, TypeParts DEF CooldownInv

LEMMA EndPassStep ==
    ASSUME CooldownInv, NEW e \in Evaluators, EndPass(e)
    PROVE  CooldownInv'
<1>1. /\ At(e, "idle", {}, None, {}, None)
      /\ fresh' \subseteq fresh
      /\ UNCHANGED <<now, apiVars, logs, issues, sent, unlogged, faults>>
  BY DEF EndPass
<1>2. EvalTypeOK /\ DataTypeOK /\ EvalInv /\ LogInv /\ TypeOK
  BY TypeParts DEF CooldownInv
<1>3. DataTypeOK'
  BY <1>1, <1>2, AtData DEF DataTypeOK
<1>4. EvalTypeOK'
  BY <1>1, <1>2, AtType
<1>5. EvalInv'
  BY <1>1, <1>2, AtEval DEF apiVars
<1>6. LogInv'
  BY <1>1, <1>2, AtQuiet DEF apiVars
<1>7. QED
  BY <1>3, <1>4, <1>5, <1>6, TypeParts DEF CooldownInv

LEMMA EndRuleStep ==
    ASSUME CooldownInv, EndRule
    PROVE  CooldownInv'
<1>1. /\ At(Ticker, "next", todo[Ticker], None, {}, None)
      /\ UNCHANGED <<now, apiVars, logs, issues, fresh, sent, unlogged, faults>>
  BY DEF EndRule
<1>2. EvalTypeOK /\ DataTypeOK /\ EvalInv /\ LogInv /\ TypeOK
  BY TypeParts DEF CooldownInv
<1>3. Ticker \in Evaluators /\ Ticker \notin Consumers /\ todo[Ticker] \in SUBSET Copies
  BY <1>2, EvaluatorsFact DEF EvalTypeOK
<1>4. DataTypeOK'
  BY <1>1, <1>2, AtData DEF DataTypeOK
<1>5. EvalTypeOK'
  BY <1>1, <1>2, <1>3, AtType
<1>6. EvalInv'
  <2>1. todo[Ticker] \cup ({None} \ {None}) \subseteq CopiesOf(Ticker)
    BY DEF CopiesOf
  <2>2. QED
    BY <1>1, <1>2, <1>3, <2>1, AtEval DEF apiVars
<1>7. LogInv'
  BY <1>1, <1>2, <1>3, AtQuiet DEF apiVars
<1>8. QED
  BY <1>4, <1>5, <1>6, <1>7, TypeParts DEF CooldownInv

\* Going on behind an issue, whatever the loop did with it.
LEMMA SkipEval ==
    ASSUME TypeOK, EvalTypeOK, EvalInv, NEW e \in Evaluators, NEW i \in targets[e],
           pc[e] \in {"check", "send", "log"}, Skip(e, i),
           UNCHANGED <<rules, gone, switched, issues>>
    PROVE  EvalTypeOK' /\ EvalInv'
<1>1. /\ todo[e] \in SUBSET Copies /\ rule[e] \in Copies /\ rule[e] # None
      /\ targets[e] \subseteq issues
  BY NoneAssumption DEF EvalTypeOK
<1>2. CASE e \in Consumers
  <2>1. At(e, "next", todo[e], None, {i}, None)
    BY <1>2 DEF Skip
  <2>2. {i} = targets[e] /\ pc[e] # "idle"
    BY <1>2 DEF EvalInv, OneConsumer
  <2>3. EvalTypeOK'
    BY <1>1, <2>1, <2>2, AtType
  <2>4. todo[e] \cup ({None} \ {None}) \subseteq CopiesOf(e)
    BY DEF CopiesOf
  <2>5. EvalInv'
    BY <2>1, <2>2, <2>4, AtEval
  <2>6. QED
    BY <2>3, <2>5
<1>3. CASE e \notin Consumers
  <2>1. At(e, "check", todo[e], rule[e], targets[e] \ {i}, None)
    BY <1>3 DEF Skip
  <2>2. EvalTypeOK'
    <3>1. targets[e] \ {i} \subseteq issues'
      BY <1>1
    <3>2. QED
      BY <1>1, <2>1, <3>1, AtType
  <2>3. todo[e] \cup ({rule[e]} \ {None}) \subseteq CopiesOf(e)
    BY DEF CopiesOf
  <2>4. EvalInv'
    BY <1>3, <2>1, <2>3, AtEval
  <2>5. QED
    BY <2>2, <2>4
<1>4. QED
  BY <1>2, <1>3

LEMMA SkipFrame ==
    ASSUME EvalTypeOK, NEW e \in Evaluators, NEW i, Skip(e, i)
    PROVE  /\ pc'[e] \in {"next", "check"}
           /\ \A f \in Evaluators \ {e} :
                /\ pc'[f] = pc[f] /\ todo'[f] = todo[f] /\ rule'[f] = rule[f]
                /\ targets'[f] = targets[f] /\ issue'[f] = issue[f]
BY AtFrame DEF Skip

\* Going on without having sent or logged anything.
LEMMA SkipQuiet ==
    ASSUME EvalTypeOK, LogInv, NEW e \in Evaluators, NEW i, Skip(e, i),
           UNCHANGED <<now, rules, gone, switched, logs, sent, unlogged>>
    PROVE  LogInv'
BY AtQuiet DEF Skip

LEMMA CheckCooldownStep ==
    ASSUME CooldownInv, NEW e \in Evaluators, CheckCooldown(e)
    PROVE  CooldownInv'
<1>1. /\ pc[e] = "check"
      /\ UNCHANGED <<now, apiVars, logs, issues, fresh, sent, unlogged>>
      /\ Fault \/ UNCHANGED faults
  BY DEF CheckCooldown
<1>2. EvalTypeOK /\ DataTypeOK /\ EvalInv /\ LogInv /\ TypeOK
  BY TypeParts DEF CooldownInv
<1>3. DataTypeOK'
  BY <1>1, <1>2, AtData DEF DataTypeOK
<1>4. PICK i \in targets[e] :
        \/ Skip(e, i)
        \/ /\ ~InCooldown(rule[e].id, i, rule[e].row.cooldown)
           /\ At(e, "send", todo[e], rule[e], targets[e], i)
  BY DEF CheckCooldown
<1>5. CASE Skip(e, i)
  <2>1. EvalTypeOK' /\ EvalInv'
    BY <1>1, <1>2, <1>5, SkipEval DEF apiVars
  <2>2. LogInv'
    BY <1>1, <1>2, <1>5, SkipQuiet DEF apiVars
  <2>3. QED
    BY <1>3, <2>1, <2>2, TypeParts DEF CooldownInv
<1>6. CASE /\ ~InCooldown(rule[e].id, i, rule[e].row.cooldown)
           /\ At(e, "send", todo[e], rule[e], targets[e], i)
  <2>1. /\ rule[e] \in Copies /\ rule[e] # None /\ todo[e] \in SUBSET Copies
        /\ targets[e] \subseteq issues /\ i \in issues /\ i # None
    BY <1>1, <1>2, NoneAssumption DEF EvalTypeOK, DataTypeOK
  <2>2. /\ pc'[e] = "send" /\ rule'[e] = rule[e] /\ issue'[e] = i
        /\ \A f \in Evaluators \ {e} :
             pc'[f] = pc[f] /\ rule'[f] = rule[f] /\ issue'[f] = issue[f]
    BY <1>2, <1>6, AtFrame
  <2>3. EvalTypeOK'
    <3>1. targets[e] \subseteq issues' /\ i \in issues' \cup {None}
      BY <1>1, <2>1
    <3>2. QED
      BY <1>1, <1>2, <1>6, <2>1, <3>1, AtType
  <2>4. EvalInv'
    <3>1. todo[e] \cup ({rule[e]} \ {None}) \subseteq CopiesOf(e)
      BY DEF CopiesOf
    <3>2. QED
      BY <1>1, <1>2, <1>6, <3>1, AtEval DEF apiVars
  <2>5. SentIsLogged' /\ NoFalseCooldown' /\ DeletedStaysDeleted' /\ LogJustified'
    BY <1>1, <1>2, <2>2 DEF LogInv, SentIsLogged, HasLog, NoFalseCooldown, SentFor,
       DeletedStaysDeleted, Exists, LogJustified, apiVars
  <2>6. <<rule[e].id, i>> \notin unlogged
        => \A s \in SentFor(rule[e].id, i) : now >= s.at + rule[e].row.cooldown
    <3> SUFFICES ASSUME <<rule[e].id, i>> \notin unlogged,
                        NEW s \in SentFor(rule[e].id, i)
                 PROVE  now >= s.at + rule[e].row.cooldown
      OBVIOUS
    <3>1. PICK l \in logs : l.id = rule[e].id /\ l.issue = i /\ l.at >= s.at
      BY <1>2 DEF LogInv, SentIsLogged, HasLog, SentFor
    <3>2. ~(now < l.at + rule[e].row.cooldown)
      BY <1>6, <3>1 DEF InCooldown
    <3>3. /\ l.at \in Nat /\ s.at \in Nat /\ now \in Nat
          /\ rule[e].row.cooldown \in Nat
      <4>1. l.at \in 1..MaxTime /\ s.at \in 1..MaxTime /\ now \in 1..MaxTime
        BY <1>2 DEF DataTypeOK, SentFor
      <4>2. rule[e].row.cooldown \in Nat
        BY <2>1, AlertConstantsAssumption DEF Copies, RowFields
      <4>3. QED
        BY <4>1, <4>2, AlertConstantsAssumption
    <3>4. QED
      BY <3>1, <3>2, <3>3
  <2>7. MaySend'
    BY <1>1, <1>2, <2>2, <2>6 DEF LogInv, MaySend, Pair, SentFor, apiVars
  <2>8. QED
    BY <1>3, <2>3, <2>4, <2>5, <2>7, TypeParts DEF CooldownInv, LogInv
<1>7. QED
  BY <1>4, <1>5, <1>6

\* Between the delivery of a notification and its log, or the failure of the
\* evaluator to learn of the delivery, the pair counts as unlogged.
LEMMA DeliveredStep ==
    ASSUME EvalTypeOK, DataTypeOK, LogInv, NEW e \in Evaluators, Delivered(e),
           pc'[e] \in {"next", "check", "log"},
           pc'[e] = "log" => rule'[e] = rule[e] /\ issue'[e] = issue[e],
           \A f \in Evaluators \ {e} :
               pc'[f] = pc[f] /\ rule'[f] = rule[f] /\ issue'[f] = issue[f],
           UNCHANGED <<now, rules, gone, switched, logs>>
    PROVE  LogInv'
<1>1. /\ sent' = sent \cup {[id |-> rule[e].id, issue |-> issue[e], at |-> now]}
      /\ unlogged' = unlogged \cup {Pair(e)}
  BY DEF Delivered
<1>2. SentIsLogged'
  <2> SUFFICES ASSUME NEW s \in sent'
               PROVE  s.at <= now /\ (<<s.id, s.issue>> \in unlogged' \/ HasLog(s))
    BY DEF SentIsLogged, HasLog
  <2>1. CASE s \in sent
    BY <1>1, <2>1 DEF LogInv, SentIsLogged
  <2>2. CASE s = [id |-> rule[e].id, issue |-> issue[e], at |-> now]
    <3>1. now <= now
      BY DEF DataTypeOK
    <3>2. <<s.id, s.issue>> = Pair(e)
      BY <2>2 DEF Pair
    <3>3. QED
      BY <1>1, <2>2, <3>1, <3>2
  <2>3. QED
    BY <1>1, <2>1, <2>2
<1>3. MaySend'
  <2> SUFFICES ASSUME NEW f \in Evaluators, pc'[f] = "send",
                      rule'[f].id \notin switched', Pair(f)' \notin unlogged',
                      NEW s \in sent', s.id = rule'[f].id, s.issue = issue'[f]
               PROVE  now >= s.at + rule'[f].row.cooldown
    BY DEF MaySend, SentFor
  <2>1. f # e /\ pc[f] = "send" /\ rule'[f] = rule[f] /\ issue'[f] = issue[f]
    OBVIOUS
  <2>2. Pair(f) \notin unlogged /\ Pair(f) # Pair(e)
    BY <1>1, <2>1 DEF Pair
  <2>3. s \in SentFor(rule[f].id, issue[f])
    <3>1. s # [id |-> rule[e].id, issue |-> issue[e], at |-> now]
      BY <2>1, <2>2 DEF Pair
    <3>2. s \in sent
      BY <1>1, <3>1
    <3>3. QED
      BY <2>1, <3>2 DEF SentFor
  <2>4. QED
    BY <2>1, <2>2, <2>3 DEF LogInv, MaySend
<1>4. LogJustified'
  <2>1. [id |-> rule[e].id, issue |-> issue[e], at |-> now]
          \in {s \in sent' : s.id = rule[e].id /\ s.issue = issue[e]}
    BY <1>1
  <2>2. ASSUME NEW f \in Evaluators \ {e}, pc'[f] = "log"
        PROVE  {s \in sent' : s.id = rule'[f].id /\ s.issue = issue'[f]} # {}
    <3>1. PICK s \in sent : s.id = rule[f].id /\ s.issue = issue[f]
      BY <2>2 DEF LogInv, LogJustified, SentFor
    <3>2. QED
      BY <1>1, <2>2, <3>1
  <2>3. QED
    BY <2>1, <2>2 DEF LogJustified, SentFor
<1>5. NoFalseCooldown' /\ DeletedStaysDeleted'
  BY <1>1 DEF LogInv, NoFalseCooldown, SentFor, DeletedStaysDeleted, Exists
<1>6. QED
  BY <1>2, <1>3, <1>4, <1>5 DEF LogInv

LEMMA SendStep ==
    ASSUME CooldownInv, NEW e \in Evaluators, Send(e)
    PROVE  CooldownInv'
<1>1. /\ pc[e] = "send"
      /\ UNCHANGED <<now, apiVars, logs, issues, fresh>>
      /\ Fault \/ UNCHANGED faults
      /\ Delivered(e) \/ UNCHANGED <<sent, unlogged>>
      /\ AfterFailure(e) \/ (Delivered(e) /\ AfterSuccess(e))
  BY DEF Send
<1>2. EvalTypeOK /\ DataTypeOK /\ EvalInv /\ LogInv /\ TypeOK
  BY TypeParts DEF CooldownInv
<1>3. /\ rule[e] \in Copies /\ rule[e] # None /\ todo[e] \in SUBSET Copies
      /\ issue[e] \in issues /\ issue[e] # None /\ issue[e] \in targets[e]
      /\ targets[e] \subseteq issues /\ issue[e] \in Issues
  BY <1>1, <1>2, NoneAssumption DEF EvalTypeOK, DataTypeOK, EvalInv, OneConsumer
<1>4. DataTypeOK'
  <2>1. /\ sent' \subseteq [id : Rules, issue : Issues, at : 1..MaxTime]
        /\ unlogged' \subseteq Rules \X Issues
    BY <1>1, <1>2, <1>3 DEF Delivered, Pair, Copies, DataTypeOK
  <2>2. QED
    BY <1>1, <1>2, <2>1, AtData DEF DataTypeOK
<1>5. CASE AfterFailure(e)
  <2>1. Skip(e, issue[e])
    BY <1>5 DEF AfterFailure
  <2>2. EvalTypeOK' /\ EvalInv'
    BY <1>1, <1>2, <1>3, <2>1, SkipEval DEF apiVars
  <2>3. /\ pc'[e] \in {"next", "check"}
        /\ \A f \in Evaluators \ {e} :
             /\ pc'[f] = pc[f] /\ todo'[f] = todo[f] /\ rule'[f] = rule[f]
             /\ targets'[f] = targets[f] /\ issue'[f] = issue[f]
    BY <1>2, <2>1, SkipFrame
  <2>4. LogInv'
    <3>1. CASE Delivered(e)
      BY <1>1, <1>2, <2>3, <3>1, DeliveredStep DEF apiVars
    <3>2. CASE UNCHANGED <<sent, unlogged>>
      BY <1>1, <1>2, <2>1, <3>2, SkipQuiet DEF apiVars
    <3>3. QED
      BY <1>1, <3>1, <3>2
  <2>5. QED
    BY <1>4, <2>2, <2>4, TypeParts DEF CooldownInv
<1>6. CASE Delivered(e) /\ AfterSuccess(e)
  <2>1. At(e, "log", todo[e], rule[e], targets[e], issue[e])
    BY <1>6 DEF AfterSuccess
  <2>2. /\ pc'[e] = "log" /\ rule'[e] = rule[e] /\ issue'[e] = issue[e]
        /\ \A f \in Evaluators \ {e} :
             pc'[f] = pc[f] /\ rule'[f] = rule[f] /\ issue'[f] = issue[f]
    BY <1>2, <2>1, AtFrame
  <2>3. EvalTypeOK'
    <3>1. targets[e] \subseteq issues' /\ issue[e] \in issues' \cup {None}
      BY <1>1, <1>3
    <3>2. QED
      BY <1>1, <1>2, <1>3, <2>1, <3>1, AtType
  <2>4. EvalInv'
    <3>1. todo[e] \cup ({rule[e]} \ {None}) \subseteq CopiesOf(e)
      BY DEF CopiesOf
    <3>2. QED
      BY <1>1, <1>2, <1>3, <2>1, <3>1, AtEval DEF apiVars
  <2>5. LogInv'
    BY <1>1, <1>2, <1>6, <2>2, DeliveredStep DEF apiVars
  <2>6. QED
    BY <1>4, <2>3, <2>4, <2>5, TypeParts DEF CooldownInv
<1>7. QED
  BY <1>1, <1>5, <1>6

\* Two evaluators that notify of the same rule and issue are a consumer and
\* the ticker, and the rule was switched between their queries.
LEMMA OneEvaluator ==
    ASSUME EvalTypeOK, EvalInv, NEW e \in Evaluators, NEW f \in Evaluators, e # f,
           pc[e] \in {"send", "log"}, pc[f] \in {"send", "log"}, Pair(e) = Pair(f)
    PROVE  rule[f].id \in switched
<1>1. /\ rule[e].id = rule[f].id /\ issue[e] = issue[f]
      /\ rule[e] # None /\ rule[f] # None /\ issue[e] # None
  BY DEF Pair, EvalTypeOK
<1>2. issue[e] \in targets[e] /\ issue[e] \in targets[f]
  BY <1>1 DEF EvalInv, OneConsumer
<1>3. rule[e] \in CopiesOf(e) /\ rule[f] \in CopiesOf(f)
  BY <1>1 DEF CopiesOf
<1>4. CASE e \in Consumers /\ f \in Consumers
  BY <1>2, <1>4 DEF EvalInv, OneConsumer
<1>5. CASE e = Ticker \/ f = Ticker
  BY <1>1, <1>3, <1>5, EvaluatorsFact DEF EvalInv, OneKind
<1>6. QED
  BY <1>4, <1>5, EvaluatorsFact

\* The row of alert_logs of the notification evaluator e sent.
LEMMA LoggedStep ==
    ASSUME EvalTypeOK, DataTypeOK, EvalInv, LogInv, NEW e \in Evaluators,
           pc[e] = "log", HasParent(rule[e].id), pc'[e] \in {"next", "check"},
           logs' = logs \cup {[id |-> rule[e].id, issue |-> issue[e], at |-> now]},
           unlogged' = unlogged \ {Pair(e)},
           \A f \in Evaluators \ {e} :
               pc'[f] = pc[f] /\ rule'[f] = rule[f] /\ issue'[f] = issue[f],
           UNCHANGED <<now, rules, gone, switched, sent>>
    PROVE  LogInv'
<1> DEFINE new == [id |-> rule[e].id, issue |-> issue[e], at |-> now]
<1>1. new \in logs' /\ logs \subseteq logs' /\ logs' = logs \cup {new}
  OBVIOUS
<1>2. \A s \in sent : s.at <= now /\ s.at \in Nat /\ now \in Nat
  <2>1. \A s \in sent : s.at \in 1..MaxTime
    BY DEF DataTypeOK
  <2>2. now \in 1..MaxTime /\ MaxTime \in Nat
    BY AlertConstantsAssumption DEF DataTypeOK
  <2>3. \A s \in sent : s.at <= now
    BY DEF LogInv, SentIsLogged
  <2>4. now \in Nat
    BY <2>2
  <2>5. \A s \in sent : s.at \in Nat
    BY <2>1, <2>2
  <2>6. QED
    BY <2>3, <2>4, <2>5
<1>3. SentIsLogged'
  <2> SUFFICES ASSUME NEW s \in sent
               PROVE  <<s.id, s.issue>> \in unlogged' \/ HasLog(s)'
    BY <1>2 DEF SentIsLogged, HasLog
  <2>1. CASE <<s.id, s.issue>> = Pair(e)
    <3>1. new.id = s.id /\ new.issue = s.issue /\ new.at >= s.at
      BY <1>2, <2>1 DEF Pair
    <3>2. QED
      BY <1>1, <3>1 DEF HasLog
  <2>2. CASE <<s.id, s.issue>> # Pair(e)
    BY <1>1, <2>2 DEF LogInv, SentIsLogged, HasLog
  <2>3. QED
    BY <2>1, <2>2
<1>4. MaySend'
  <2> SUFFICES ASSUME NEW f \in Evaluators, pc'[f] = "send",
                      rule'[f].id \notin switched', Pair(f)' \notin unlogged',
                      NEW s \in sent, s.id = rule'[f].id, s.issue = issue'[f]
               PROVE  now >= s.at + rule'[f].row.cooldown
    BY DEF MaySend, SentFor
  <2>1. f # e /\ pc[f] = "send" /\ rule'[f] = rule[f] /\ issue'[f] = issue[f]
    OBVIOUS
  <2>2. Pair(f) # Pair(e)
    BY <2>1, OneEvaluator
  <2>3. Pair(f) \notin unlogged
    BY <2>1, <2>2 DEF Pair
  <2>4. s \in SentFor(rule[f].id, issue[f])
    BY <2>1 DEF SentFor
  <2>5. QED
    BY <2>1, <2>3, <2>4 DEF LogInv, MaySend
<1>5. LogJustified'
  BY DEF LogInv, LogJustified, SentFor
<1>6. NoFalseCooldown'
  <2> SUFFICES ASSUME NEW l \in logs'
               PROVE  \E s \in SentFor(l.id, l.issue) : s.at <= l.at
    BY DEF NoFalseCooldown, SentFor
  <2>1. CASE l \in logs
    BY <2>1 DEF LogInv, NoFalseCooldown
  <2>2. CASE l = new
    <3>1. PICK s \in SentFor(rule[e].id, issue[e]) : TRUE
      BY DEF LogInv, LogJustified
    <3>2. s.at <= now
      BY <1>2, <3>1 DEF SentFor
    <3>3. QED
      BY <2>2, <3>1, <3>2
  <2>3. QED
    BY <1>1, <2>1, <2>2
<1>7. DeletedStaysDeleted'
  BY <1>1 DEF LogInv, DeletedStaysDeleted, HasParent, Exists
<1>8. QED
  BY <1>3, <1>4, <1>5, <1>6, <1>7 DEF LogInv

LEMMA LogStep ==
    ASSUME CooldownInv, NEW e \in Evaluators, Log(e)
    PROVE  CooldownInv'
<1> DEFINE new == [id |-> rule[e].id, issue |-> issue[e], at |-> now]
<1>1. /\ pc[e] = "log" /\ Skip(e, issue[e])
      /\ UNCHANGED <<now, apiVars, issues, fresh, sent>>
      /\ Fault \/ UNCHANGED faults
      /\ \/ HasParent(rule[e].id) /\ logs' = logs \cup {new} /\ unlogged' = unlogged \ {Pair(e)}
         \/ UNCHANGED <<logs, unlogged>>
  BY DEF Log
<1>2. EvalTypeOK /\ DataTypeOK /\ EvalInv /\ LogInv /\ TypeOK
  BY TypeParts DEF CooldownInv
<1>3. /\ rule[e] \in Copies /\ issue[e] \in issues /\ issue[e] \in targets[e]
      /\ issue[e] \in Issues
  BY <1>1, <1>2 DEF EvalTypeOK, DataTypeOK, EvalInv, OneConsumer
<1>4. EvalTypeOK' /\ EvalInv'
  BY <1>1, <1>2, <1>3, SkipEval DEF apiVars
<1>5. DataTypeOK'
  <2>1. faults' \in 0..MaxFaults
    BY <1>1, <1>2, FaultBudget
  <2>2. new \in [id : Rules, issue : Issues, at : 1..MaxTime]
    BY <1>2, <1>3 DEF Copies, DataTypeOK
  <2>3. logs' \subseteq [id : Rules, issue : Issues, at : 1..MaxTime]
    BY <1>1, <1>2, <2>2 DEF DataTypeOK
  <2>4. unlogged' \subseteq Rules \X Issues
    BY <1>1, <1>2 DEF DataTypeOK
  <2>5. QED
    BY <1>1, <1>2, <2>1, <2>3, <2>4 DEF DataTypeOK, apiVars
<1>6. /\ pc'[e] \in {"next", "check"}
      /\ \A f \in Evaluators \ {e} :
           /\ pc'[f] = pc[f] /\ todo'[f] = todo[f] /\ rule'[f] = rule[f]
           /\ targets'[f] = targets[f] /\ issue'[f] = issue[f]
  BY <1>1, <1>2, SkipFrame
<1>7. LogInv'
  <2>1. CASE HasParent(rule[e].id) /\ logs' = logs \cup {new} /\ unlogged' = unlogged \ {Pair(e)}
    BY <1>1, <1>2, <1>6, <2>1, LoggedStep DEF apiVars
  <2>2. CASE UNCHANGED <<logs, unlogged>>
    BY <1>1, <1>2, <2>2, SkipQuiet DEF apiVars
  <2>3. QED
    BY <1>1, <2>1, <2>2
<1>8. QED
  BY <1>4, <1>5, <1>7, TypeParts DEF CooldownInv

LEMMA CrashStep ==
    ASSUME CooldownInv, Crash
    PROVE  CooldownInv'
<1>1. /\ pc' = [e \in Evaluators |-> "idle"] /\ todo' = [e \in Evaluators |-> {}]
      /\ rule' = [e \in Evaluators |-> None] /\ targets' = [e \in Evaluators |-> {}]
      /\ issue' = [e \in Evaluators |-> None]
      /\ fresh' = {} /\ Fault
      /\ UNCHANGED <<now, apiVars, logs, issues, sent, unlogged>>
  BY DEF Crash
<1>2. EvalTypeOK /\ DataTypeOK /\ EvalInv /\ LogInv
  BY TypeParts DEF CooldownInv
<1>3. EvalTypeOK'
  BY <1>1 DEF EvalTypeOK
<1>4. DataTypeOK'
  BY <1>1, <1>2, FaultBudget DEF DataTypeOK, apiVars
<1>5. \A e \in Evaluators : CopiesOf(e)' = {}
  BY <1>1 DEF CopiesOf
<1>6. EvalInv'
  BY <1>1, <1>5, EvaluatorsFact DEF EvalInv, CopiesKnown, OneKind, OneConsumer
<1>7. SentIsLogged' /\ NoFalseCooldown' /\ DeletedStaysDeleted'
  BY <1>1, <1>2 DEF LogInv, SentIsLogged, HasLog, NoFalseCooldown, SentFor,
     DeletedStaysDeleted, Exists, apiVars
<1>8. MaySend' /\ LogJustified'
  BY <1>1 DEF MaySend, LogJustified
<1>9. QED
  BY <1>3, <1>4, <1>6, <1>7, <1>8, TypeParts DEF CooldownInv, LogInv

LEMMA StutterStep ==
    ASSUME CooldownInv, UNCHANGED vars
    PROVE  CooldownInv'
<1>1. TypeOK'
  BY DEF CooldownInv, TypeOK, vars, apiVars, evalVars
<1>2. EvalInv'
  BY DEF CooldownInv, EvalInv, CopiesKnown, OneKind, OneConsumer, CopiesOf, Exists,
         vars, apiVars, evalVars
<1>3. LogInv'
  BY DEF CooldownInv, LogInv, SentIsLogged, HasLog, MaySend, Pair, LogJustified,
     NoFalseCooldown, DeletedStaysDeleted, Exists, SentFor, vars, apiVars, evalVars
<1>4. QED
  BY <1>1, <1>2, <1>3 DEF CooldownInv

-----------------------------------------------------------------------------
(* The theorems.                                                           *)

LEMMA NextCooldown == CooldownInv /\ [Next]_vars => CooldownInv'
<1> SUFFICES ASSUME CooldownInv, [Next]_vars
             PROVE  CooldownInv'
  OBVIOUS
<1>1. CASE Pass
  BY <1>1, PassStep
<1>2. ASSUME NEW r \in Rules, CreateRule(r) \/ DeleteRule(r)
      PROVE  CooldownInv'
  BY <1>2, CreateRuleStep, DeleteRuleStep
<1>3. ASSUME NEW q \in Requests, WriteRule(q) \/ \E r \in Rules : FetchRule(q, r)
      PROVE  CooldownInv'
  BY <1>3, WriteRuleStep, FetchRuleStep
<1>4. ASSUME NEW e \in Evaluators, NEW i \in Issues, NewIssue(e, i)
      PROVE  CooldownInv'
  BY <1>4, NewIssueStep
<1>5. ASSUME NEW e \in Evaluators, Evaluate(e)
      PROVE  CooldownInv'
  BY <1>5, ListNewIssueRulesStep, ListThresholdRulesStep, NextRuleStep, EndPassStep,
     EndRuleStep, CheckCooldownStep, SendStep, LogStep DEF Evaluate
<1>6. CASE Crash
  BY <1>6, CrashStep
<1>7. CASE UNCHANGED vars
  BY <1>7, StutterStep
<1>8. QED
  BY <1>1, <1>2, <1>3, <1>4, <1>5, <1>6, <1>7 DEF Next

LEMMA CooldownInvariant == Spec => []CooldownInv
<1>1. QED
  BY InitCooldown, NextCooldown, PTL DEF Spec

\* Rows, copies and the positions of the evaluators are always what the code
\* can hold: an evaluator notifies of an issue that exists, with a copy of a
\* rule that was valid when it was written.
THEOREM AlertsTyped == Spec => []TypeOK
<1>1. CooldownInv => TypeOK
  BY DEF CooldownInv
<1>2. QED
  BY <1>1, CooldownInvariant, PTL

\* Every row of alert_logs has a delivered notification at or before its time,
\* for any rules, failures, crashes and interleavings.
THEOREM LogsTruthful == Spec => []NoFalseCooldown
<1>1. CooldownInv => NoFalseCooldown
  BY DEF CooldownInv, LogInv
<1>2. QED
  BY <1>1, CooldownInvariant, PTL

\* No PATCH in flight and no evaluator brings back a deleted rule or its logs.
THEOREM DeletionFinal == Spec => []DeletedStaysDeleted
<1>1. CooldownInv => DeletedStaysDeleted
  BY DEF CooldownInv, LogInv
<1>2. QED
  BY <1>1, CooldownInvariant, PTL

\* The evaluators never notify a pair within the cooldown, however many
\* consumers there are and however the API edits the rules meanwhile.
THEOREM CooldownSafe == Spec => CooldownKept
<1> DEFINE Step(e) ==
      (/\ pc[e] = "send" /\ pc'[e] # "send"
       /\ Pair(e) \in unlogged' \ unlogged /\ rule[e].id \notin switched)
      => \A s \in SentFor(rule[e].id, issue[e]) : now >= s.at + rule[e].row.cooldown
<1>1. CooldownInv /\ [Next]_vars => [\A e \in Evaluators : Step(e)]_vars
  BY DEF CooldownInv, LogInv, MaySend
<1>2. QED
  BY <1>1, CooldownInvariant, PTL DEF Spec, CooldownKept
=============================================================================
