------------------------ MODULE SessionTokens_proofs ------------------------
(* Proofs about SessionTokens, for any browsers, users, requests, tokens   *)
(* and faults.                                                             *)
EXTENDS SessionTokens, TLAPS

\* No token that is still live has a successor.
SuccessorOfRevoked == \A t \in 1..rows : parent[t] # NoToken => parent[t] \in revoked

\* A request reaches the insert of a successor only with its token revoked.
IssueAfterRevoke ==
    \A q \in Requests :
        request[q].pc = "issue" /\ request[q].kind # "login" => request[q].token \in revoked

RotationInv == TypeOK /\ SuccessorOfRevoked /\ IssueAfterRevoke

LEMMA InitRotation == Init => RotationInv
BY SessionConstantsAssumption
DEF Init, RotationInv, TypeOK, SuccessorOfRevoked, IssueAfterRevoke, Idle, Labels,
    RequestRecords, NoToken

\* The steps that only write a request.
LEMMA SendStep ==
    ASSUME RotationInv, NEW q \in Requests, NEW b \in Browsers, NEW u \in Users \cup {None},
           NEW kind \in {"login", "refresh", "logout"}, NEW label \in {"issue", "find", "answer"},
           label = "issue" => kind = "login", label = "find" => cookie[b] # NoToken,
           label # "answer" => u \in Users,
           Send(q, b, kind, label, u)
    PROVE  RotationInv'
<1> DEFINE new == [pc |-> label, kind |-> kind, browser |-> b, user |-> u,
                   token |-> cookie[b],
                   answer |-> IF label = "answer" THEN NoToken ELSE None]
<1>0. (IF label = "answer" THEN NoToken ELSE None) \in 0..rows \cup {None}
  BY SessionConstantsAssumption DEF RotationInv, TypeOK, NoToken
<1>1. new \in RequestRecords /\ UNCHANGED rows
  BY <1>0 DEF Send, RotationInv, TypeOK, RequestRecords, Labels, dbVars
<1>2. request' = [request EXCEPT ![q] = new]
  BY DEF Send
<1>3. TypeOK'
  BY <1>1, <1>2 DEF Send, RotationInv, TypeOK, RequestRecords, dbVars
<1>4. SuccessorOfRevoked' /\ IssueAfterRevoke'
  BY <1>2, <1>3 DEF Send, RotationInv, TypeOK, SuccessorOfRevoked, IssueAfterRevoke, dbVars
<1>5. QED
  BY <1>3, <1>4 DEF RotationInv

\* A request moves to another label, and may get its answer; the revoked
\* tokens only grow, and a token is revoked before its successor is inserted.
LEMMA ProgressStep ==
    ASSUME RotationInv, NEW q \in Requests, NEW label \in Labels \ {"idle"},
           NEW ans \in 0..rows \cup {None},
           request[q].pc \notin {"idle", "answer"},
           request' = [request EXCEPT ![q].pc = label, ![q].answer = ans],
           label = "issue" /\ request[q].kind # "login" => request[q].token \in revoked',
           label \in {"find", "revokeAll", "revoke"} => request[q].token # NoToken,
           UNCHANGED <<rows, owner, parent, expired, cookie, left>>,
           revoked \subseteq revoked', revoked' \subseteq 1..rows, raced' \subseteq 1..rows,
           faults' \in 0..MaxFaults, calm' \subseteq calm
    PROVE  RotationInv'
<1>1. request[q] \in RequestRecords
  BY DEF RotationInv, TypeOK
<1>2. request' = [request EXCEPT ![q] = [request[q] EXCEPT !.pc = label, !.answer = ans]]
  BY <1>1 DEF RotationInv, TypeOK, RequestRecords
<1>3. [request[q] EXCEPT !.pc = label, !.answer = ans] \in RequestRecords
  BY <1>1 DEF RequestRecords
<1>4. TypeOK'
  BY <1>1, <1>2, <1>3 DEF RotationInv, TypeOK, RequestRecords
<1>5. IssueAfterRevoke' /\ SuccessorOfRevoked'
  BY <1>1, <1>2, <1>3 DEF RotationInv, TypeOK, RequestRecords, IssueAfterRevoke, SuccessorOfRevoked
<1>6. QED
  BY <1>4, <1>5 DEF RotationInv

\* The same for the operators of the module.
LEMMA AtStep ==
    ASSUME RotationInv, NEW q \in Requests, NEW label \in Labels \ {"idle"},
           request[q].pc \notin {"idle", "answer"}, At(q, label),
           label = "issue" /\ request[q].kind # "login" => request[q].token \in revoked',
           label \in {"find", "revokeAll", "revoke"} => request[q].token # NoToken,
           UNCHANGED <<rows, owner, parent, expired, cookie, left>>,
           revoked \subseteq revoked', revoked' \subseteq 1..rows, raced' \subseteq 1..rows,
           faults' \in 0..MaxFaults, calm' \subseteq calm
    PROVE  RotationInv'
<1>1. request[q] \in RequestRecords
  BY DEF RotationInv, TypeOK
<1>2. request' = [request EXCEPT ![q].pc = label, ![q].answer = request[q].answer]
  BY <1>1 DEF At, RotationInv, TypeOK, RequestRecords
<1>3. request[q].answer \in 0..rows \cup {None}
  BY <1>1 DEF RequestRecords
<1>4. QED
  BY <1>2, <1>3, ProgressStep

LEMMA OnErrorStep ==
    ASSUME RotationInv, NEW q \in Requests, request[q].pc \notin {"idle", "answer"}, OnError(q),
           UNCHANGED <<rows, owner, parent, expired, cookie, left>>,
           revoked \subseteq revoked', revoked' \subseteq 1..rows, raced' \subseteq 1..rows,
           faults' \in 0..MaxFaults, calm' \subseteq calm
    PROVE  RotationInv'
<1> DEFINE ans == IF request[q].kind = "login" THEN None ELSE NoToken
<1>1. ans \in 0..rows \cup {None}
  BY DEF RotationInv, TypeOK, NoToken
<1>2. request' = [request EXCEPT ![q].pc = "answer", ![q].answer = ans]
  BY DEF OnError, Answer
<1>3. "answer" \in Labels \ {"idle"} /\ "answer" # "issue"
  BY DEF Labels
<1> HIDE DEF ans
<1>4. QED
  BY <1>1, <1>2, <1>3, ProgressStep

LEMMA FaultBudget ==
    ASSUME RotationInv, NEW q \in Requests, Fault(q) \/ NoFault
    PROVE  faults' \in 0..MaxFaults /\ calm' \subseteq calm
BY SessionConstantsAssumption DEF Fault, NoFault, RotationInv, TypeOK

LEMMA FindStep ==
    ASSUME RotationInv, NEW q \in Requests, Find(q)
    PROVE  RotationInv'
<1>1. UNCHANGED <<rows, owner, parent, expired, revoked, cookie, left>> /\ request[q].pc = "find"
  BY DEF Find, dbVars
<1>2. faults' \in 0..MaxFaults /\ calm' \subseteq calm
  BY FaultBudget DEF Find
<1>3. revoked \subseteq revoked' /\ revoked' \subseteq 1..rows /\ raced' \subseteq 1..rows
  <2>1. request[q].token \in 1..rows
    BY <1>1, SessionConstantsAssumption DEF RotationInv, TypeOK, RequestRecords, NoToken
  <2> QED
    BY <1>1, <2>1 DEF Find, RotationInv, TypeOK
<1>4. OnError(q) \/ \E label \in {"revokeAll", "revoke"} : At(q, label)
  BY DEF Find
<1>5. CASE OnError(q)
  BY <1>1, <1>2, <1>3, <1>5, OnErrorStep
<1>6. CASE \E label \in {"revokeAll", "revoke"} : At(q, label)
  <2>1. request[q].token # NoToken
    BY <1>1 DEF RotationInv, TypeOK
  <2>2. QED
    BY <1>1, <1>2, <1>3, <1>6, <2>1, AtStep DEF Labels
<1>7. QED
  BY <1>4, <1>5, <1>6

LEMMA RevokeAllStep ==
    ASSUME RotationInv, NEW q \in Requests, RevokeAll(q)
    PROVE  RotationInv'
<1>1. /\ UNCHANGED <<rows, owner, parent, expired, cookie, left>>
      /\ request[q].pc = "revokeAll" /\ OnError(q)
  BY DEF RevokeAll
<1>2. faults' \in 0..MaxFaults /\ calm' \subseteq calm
  BY FaultBudget DEF RevokeAll
<1>3. revoked \subseteq revoked' /\ revoked' \subseteq 1..rows /\ raced' \subseteq 1..rows
  BY DEF RevokeAll, OwnedBy, RotationInv, TypeOK
<1>4. QED
  BY <1>1, <1>2, <1>3, OnErrorStep

LEMMA RevokeStep ==
    ASSUME RotationInv, NEW q \in Requests, Revoke(q)
    PROVE  RotationInv'
<1>1. /\ UNCHANGED <<rows, owner, parent, expired, cookie, left>>
      /\ request[q].pc = "revoke"
  BY DEF Revoke
<1>2. faults' \in 0..MaxFaults /\ calm' \subseteq calm
  BY FaultBudget DEF Revoke
<1>3. revoked \subseteq revoked' /\ revoked' \subseteq 1..rows /\ raced' \subseteq 1..rows
  <2>1. request[q].token \in 0..rows /\ request[q].token # NoToken /\ rows \in Nat
    BY <1>1, SessionConstantsAssumption DEF RotationInv, TypeOK, RequestRecords
  <2>2. request[q].token \in 1..rows
    BY <2>1 DEF NoToken
  <2>3. QED
    BY <2>2 DEF Revoke, RotationInv, TypeOK
<1>4. \/ OnError(q)
      \/ At(q, "issue") /\ request[q].token \in revoked'
      \/ Answer(q, NoToken)
  BY DEF Revoke, AfterRevoke, AfterFailedRevoke
<1>5. CASE OnError(q)
  BY <1>1, <1>2, <1>3, <1>5, OnErrorStep
<1>6. CASE At(q, "issue") /\ request[q].token \in revoked'
  <2>1. "issue" \in Labels \ {"idle"} /\ request[q].pc \notin {"idle", "answer"}
    BY <1>1 DEF Labels
  <2>2. At(q, "issue")
    BY <1>6
  <2>3. request[q].token \in revoked'
    BY <1>6
  <2>4. QED
    BY <1>1, <1>2, <1>3, <2>1, <2>2, <2>3, AtStep
<1>7. CASE Answer(q, NoToken)
  <2>1. NoToken \in 0..rows \cup {None}
    BY DEF RotationInv, TypeOK, NoToken
  <2>2. /\ "answer" \in Labels \ {"idle"} /\ "answer" # "issue"
        /\ request[q].pc \notin {"idle", "answer"}
    BY <1>1 DEF Labels
  <2>3. request' = [request EXCEPT ![q].pc = "answer", ![q].answer = NoToken]
    BY <1>7 DEF Answer
  <2>4. QED
    BY <1>1, <1>2, <1>3, <2>1, <2>2, <2>3, ProgressStep
<1>8. QED
  BY <1>4, <1>5, <1>6, <1>7

\* The insert: a new row, whose parent was revoked before.
LEMMA InsertStep ==
    ASSUME RotationInv, NEW q \in Requests, request[q].pc = "issue", Inserted(q)
    PROVE  /\ rows \in Nat /\ rows' = rows + 1 /\ rows' \in 0..MaxTokens
           /\ owner' \in [1..rows' -> Users]
           /\ parent' \in [1..rows' -> 0..rows']
           /\ SuccessorOfRevoked'
           /\ UNCHANGED <<revoked, expired>>
<1>1. rows \in Nat /\ rows' = rows + 1 /\ rows' \in 0..MaxTokens
  BY SessionConstantsAssumption DEF Inserted, RotationInv, TypeOK
<1>2. request[q] \in RequestRecords /\ request[q].user \in Users
  BY DEF RotationInv, TypeOK
<1>3. owner' \in [1..rows' -> Users]
  BY <1>1, <1>2 DEF Inserted, RotationInv, TypeOK
<1>4. parent' \in [1..rows' -> 0..rows']
  BY <1>1, <1>2 DEF Inserted, RotationInv, TypeOK, RequestRecords, NoToken
<1>5. SuccessorOfRevoked'
  BY <1>1 DEF Inserted, RotationInv, TypeOK, SuccessorOfRevoked, IssueAfterRevoke
<1>6. QED
  BY <1>1, <1>3, <1>4, <1>5 DEF Inserted

LEMMA IssueStep ==
    ASSUME RotationInv, NEW q \in Requests, Issue(q)
    PROVE  RotationInv'
<1>1. request[q].pc = "issue" /\ UNCHANGED <<cookie, raced, left>>
  BY DEF Issue
<1>2. faults' \in 0..MaxFaults /\ calm' \subseteq calm
  BY FaultBudget DEF Issue
<1>3. request[q] \in RequestRecords
  BY DEF RotationInv, TypeOK
<1>4. CASE UNCHANGED dbVars /\ OnError(q)
  <2>1. UNCHANGED <<rows, owner, parent, expired, revoked>> /\ OnError(q)
    BY <1>4 DEF dbVars
  <2>2. /\ revoked \subseteq revoked' /\ revoked' \subseteq 1..rows /\ raced' \subseteq 1..rows
        /\ request[q].pc \notin {"idle", "answer"}
    BY <2>1, <1>1 DEF RotationInv, TypeOK
  <2>3. QED
    BY <1>1, <1>2, <2>1, <2>2, OnErrorStep
<1>5. ASSUME Inserted(q), NEW ans \in 0..rows' \cup {None}, Answer(q, ans)
      PROVE  RotationInv'
  <2> DEFINE new == [request[q] EXCEPT !.pc = "answer", !.answer = ans]
  <2>1. request' = [request EXCEPT ![q] = new]
    BY <1>3, <1>5 DEF Answer, RotationInv, TypeOK, RequestRecords
  <2>2. /\ rows \in Nat /\ rows' = rows + 1 /\ rows' \in 0..MaxTokens
        /\ owner' \in [1..rows' -> Users]
        /\ parent' \in [1..rows' -> 0..rows']
        /\ SuccessorOfRevoked'
        /\ UNCHANGED <<revoked, expired>>
    BY <1>1, <1>5, InsertStep
  <2>3. RequestRecords \subseteq RequestRecords' /\ new \in RequestRecords'
    <3>1. 0..rows \subseteq 0..rows' /\ 0..rows \cup {None} \subseteq 0..rows' \cup {None}
      BY <2>2
    <3>2. ASSUME NEW r \in RequestRecords
          PROVE  r \in RequestRecords'
      BY <3>1 DEF RequestRecords
    <3>3. new \in RequestRecords'
      BY <1>3, <1>5, <3>1 DEF RequestRecords, Labels
    <3>4. QED
      BY <3>2, <3>3
  <2>4. request' \in [Requests -> RequestRecords']
    BY <2>1, <2>3 DEF RotationInv, TypeOK
  <2>5. \A p \in Requests : p # q => request'[p] = request[p]
    BY <2>1 DEF RotationInv, TypeOK
  <2>6. /\ request'[q].pc = "answer"
        /\ request'[q].browser = request[q].browser /\ request'[q].user = request[q].user
    BY <1>3, <2>1 DEF RotationInv, TypeOK, RequestRecords
  <2>7. \A p \in Requests :
          /\ request'[p].pc # "idle" => request'[p].browser \in Browsers
          /\ request'[p].pc \notin {"idle", "answer"} => request'[p].user \in Users
          /\ request'[p].pc \in {"find", "revokeAll", "revoke"} => request'[p].token # NoToken
    BY <1>1, <2>5, <2>6 DEF RotationInv, TypeOK
  <2>8. cookie' \in [Browsers -> 0..rows'] /\ 1..rows \subseteq 1..rows'
    BY <1>1, <2>2 DEF RotationInv, TypeOK
  <2>9. TypeOK'
    BY <1>1, <1>2, <2>2, <2>4, <2>7, <2>8 DEF RotationInv, TypeOK
  <2>10. IssueAfterRevoke'
    BY <2>2, <2>5, <2>6 DEF RotationInv, IssueAfterRevoke
  <2>11. QED
    BY <2>2, <2>9, <2>10 DEF RotationInv
<1>6. CASE Inserted(q) /\ Answer(q, rows + 1)
  <2>1. rows + 1 \in 0..rows' \cup {None}
    BY <1>1, <1>6, InsertStep
  <2>2. QED
    BY <1>5, <1>6, <2>1
<1>7. CASE Inserted(q) /\ OnError(q)
  <2>1. NoToken \in 0..rows' \cup {None} /\ None \in 0..rows' \cup {None}
    BY <1>1, <1>7, InsertStep DEF NoToken
  <2>2. Answer(q, None) \/ Answer(q, NoToken)
    BY <1>7 DEF OnError
  <2>3. QED
    BY <1>5, <1>7, <2>1, <2>2
<1>8. QED
  BY <1>4, <1>6, <1>7 DEF Issue, AfterFailedIssue

\* The steps that end a request.
LEMMA EndStep ==
    ASSUME RotationInv, NEW q \in Requests,
           request' = [request EXCEPT ![q] = Idle],
           UNCHANGED <<rows, owner, parent, expired, revoked>>,
           cookie' \in [Browsers -> 0..rows], left' \subseteq 1..rows, raced' \subseteq 1..rows,
           faults' \in 0..MaxFaults, calm' \subseteq calm
    PROVE  RotationInv'
<1>1. Idle \in RequestRecords
  BY SessionConstantsAssumption DEF Idle, RequestRecords, Labels, NoToken, RotationInv, TypeOK
<1>2. Idle.pc = "idle"
  BY DEF Idle
<1>3. request' \in [Requests -> RequestRecords']
  BY <1>1 DEF RotationInv, TypeOK, RequestRecords
<1>4. \A p \in Requests : request'[p] = request[p] \/ request'[p].pc = "idle"
  BY <1>2 DEF RotationInv, TypeOK
<1>5. TypeOK'
  BY <1>3, <1>4 DEF RotationInv, TypeOK
<1>6. SuccessorOfRevoked' /\ IssueAfterRevoke'
  BY <1>4 DEF RotationInv, SuccessorOfRevoked, IssueAfterRevoke
<1>7. QED
  BY <1>5, <1>6 DEF RotationInv

LEMMA ReceiveStep ==
    ASSUME RotationInv, NEW q \in Requests, Receive(q)
    PROVE  RotationInv'
<1>1. /\ request' = [request EXCEPT ![q] = Idle]
      /\ UNCHANGED <<rows, owner, parent, expired, revoked, calm, faults>>
  BY DEF Receive, dbVars
<1>2. request[q].answer \in 0..rows \cup {None} /\ rows \in Nat
  BY SessionConstantsAssumption DEF RotationInv, TypeOK, RequestRecords
<1>3. cookie' \in [Browsers -> 0..rows]
  BY <1>2 DEF Receive, RotationInv, TypeOK
<1>4. left' \subseteq 1..rows
  <2>1. request[q].browser \in Browsers
    BY DEF Receive, RotationInv, TypeOK
  <2>2. cookie[request[q].browser] # NoToken => cookie[request[q].browser] \in 1..rows
    BY <1>2, <2>1 DEF RotationInv, TypeOK, NoToken
  <2>3. QED
    BY <2>2 DEF Receive, RotationInv, TypeOK
<1>5. faults' \in 0..MaxFaults /\ calm' \subseteq calm /\ raced' \subseteq 1..rows
  BY DEF Receive, RotationInv, TypeOK
<1>6. QED
  BY <1>1, <1>3, <1>4, <1>5, EndStep

LEMMA LoseStep ==
    ASSUME RotationInv, NEW q \in Requests, Lose(q)
    PROVE  RotationInv'
<1>1. /\ request' = [request EXCEPT ![q] = Idle]
      /\ UNCHANGED <<rows, owner, parent, expired, revoked, cookie, raced, left>>
  BY DEF Lose, dbVars
<1>2. faults' \in 0..MaxFaults /\ calm' \subseteq calm
  BY FaultBudget DEF Lose
<1>3. cookie' \in [Browsers -> 0..rows] /\ left' \subseteq 1..rows /\ raced' \subseteq 1..rows
  BY <1>1 DEF RotationInv, TypeOK
<1>4. QED
  BY <1>1, <1>2, <1>3, EndStep

LEMMA ExpireStep ==
    ASSUME RotationInv, NEW t \in Tokens, Expire(t)
    PROVE  RotationInv'
<1>1. TypeOK'
  BY DEF Expire, RotationInv, TypeOK, RequestRecords
<1>2. SuccessorOfRevoked' /\ IssueAfterRevoke'
  BY DEF Expire, RotationInv, SuccessorOfRevoked, IssueAfterRevoke
<1>3. QED
  BY <1>1, <1>2 DEF RotationInv

LEMMA NextRotation == RotationInv /\ [Next]_vars => RotationInv'
<1> SUFFICES ASSUME RotationInv, [Next]_vars
             PROVE  RotationInv'
  OBVIOUS
<1>1. ASSUME NEW q \in Requests, NEW b \in Browsers, SendRefresh(q, b) \/ SendLogout(q, b)
      PROVE  RotationInv'
  <2>1. CASE cookie[b] # NoToken
    <3>1. cookie[b] \in 1..rows /\ owner[cookie[b]] \in Users
      BY <2>1, SessionConstantsAssumption DEF RotationInv, TypeOK, NoToken
    <3>2. \E kind \in {"refresh", "logout"} : Send(q, b, kind, "find", owner[cookie[b]])
      BY <1>1, <2>1 DEF SendRefresh, SendLogout
    <3> QED
      BY <2>1, <3>1, <3>2, SendStep
  <2>2. CASE cookie[b] = NoToken
    <3>1. Send(q, b, "logout", "answer", None)
      BY <1>1, <2>2 DEF SendRefresh, SendLogout
    <3> QED
      BY <3>1, SendStep
  <2>3. QED
    BY <2>1, <2>2
<1>2. ASSUME NEW q \in Requests, NEW b \in Browsers, NEW u \in Users, SendLogin(q, b, u)
      PROVE  RotationInv'
  <2>1. Send(q, b, "login", "issue", u)
    BY <1>2 DEF SendLogin
  <2>2. QED
    BY <2>1, SendStep
<1>3. ASSUME NEW q \in Requests, Serve(q) \/ Receive(q) \/ Lose(q)
      PROVE  RotationInv'
  BY <1>3, FindStep, RevokeAllStep, RevokeStep, IssueStep, ReceiveStep, LoseStep DEF Serve
<1>4. ASSUME NEW t \in Tokens, Expire(t)
      PROVE  RotationInv'
  BY <1>4, ExpireStep
<1>5. CASE UNCHANGED vars
  BY <1>5 DEF vars, dbVars, RotationInv, TypeOK, RequestRecords, SuccessorOfRevoked,
             IssueAfterRevoke
<1>6. QED
  BY <1>1, <1>2, <1>3, <1>4, <1>5 DEF Next

\* Every reachable state has the declared types: a request that looks up or
\* revokes a token has one, and cookies and answers name rows that exist.
THEOREM SessionsTyped == Spec => []TypeOK
<1>1. RotationInv => TypeOK
  BY DEF RotationInv
<1>2. QED
  BY InitRotation, NextRotation, <1>1, PTL DEF Spec

-----------------------------------------------------------------------------
(* Rotation.                                                               *)

\* Refreshes that have found t live and have not inserted its successor.
Holds(q, t) ==
    /\ request[q].kind = "refresh" /\ request[q].token = t
    /\ request[q].pc \in {"revoke", "issue"}

\* One refresh of a token at a time, and none after its successor.
OneHolder ==
    \A p, q \in Requests, t \in 1..rows \ raced : Holds(p, t) /\ Holds(q, t) => p = q

NoneAfterwards ==
    \A q \in Requests, s \in 1..rows :
        parent[s] \in 1..rows \ raced => ~Holds(q, parent[s])

OneChild ==
    \A s, t \in 1..rows :
        parent[s] = parent[t] /\ parent[t] \in 1..rows \ raced => s = t

\* Only logins and refreshes insert tokens, and a refresh has one to exchange.
Inserters ==
    \A q \in Requests : request[q].pc = "issue" =>
        \/ request[q].kind = "login"
        \/ request[q].kind = "refresh" /\ request[q].token \in 1..rows

ExchangeInv == RotationInv /\ OneHolder /\ NoneAfterwards /\ OneChild /\ Inserters

\* A step that inserts no token and after which no request holds a token that
\* it did not hold before.
LEMMA NothingTaken ==
    ASSUME ExchangeInv, RotationInv', UNCHANGED <<rows, parent>>, raced \subseteq raced',
           \A p \in Requests, t \in 1..rows : Holds(p, t)' => Holds(p, t),
           Inserters'
    PROVE  ExchangeInv'
<1>1. OneHolder' /\ NoneAfterwards' /\ OneChild'
  BY DEF ExchangeInv, OneHolder, NoneAfterwards, OneChild
<1> QED
  BY <1>1 DEF ExchangeInv

\* The token of a request at work.
LEMMA TokenRange ==
    ASSUME RotationInv, NEW q \in Requests, request[q].pc \in {"find", "revokeAll", "revoke"}
    PROVE  request[q].token \in 1..rows
BY SessionConstantsAssumption DEF RotationInv, TypeOK, RequestRecords, NoToken

LEMMA FindExchange ==
    ASSUME ExchangeInv, RotationInv', NEW q \in Requests, Find(q)
    PROVE  ExchangeInv'
<1>1. /\ UNCHANGED <<rows, parent, revoked>> /\ request[q].pc = "find"
      /\ \A p \in Requests \ {q} : request'[p] = request[p]
      /\ request'[q].kind = request[q].kind /\ request'[q].token = request[q].token
      /\ request'[q].pc \in {"revokeAll", "revoke", "answer"}
  BY DEF Find, At, OnError, Answer, dbVars, ExchangeInv, RotationInv, TypeOK, RequestRecords
<1>2. Inserters'
  BY <1>1 DEF ExchangeInv, Inserters
<1>3. request[q].token \in 1..rows
  BY <1>1, TokenRange DEF ExchangeInv
<1>4. raced \subseteq raced'
  BY DEF Find
<1>5. CASE ~Holds(q, request[q].token)'
  <2>1. \A p \in Requests, t \in 1..rows : Holds(p, t)' => Holds(p, t)
    BY <1>1, <1>5 DEF Holds
  <2> QED
    BY <1>1, <1>2, <1>4, <2>1, NothingTaken
<1>6. CASE Holds(q, request[q].token)'
  <2> DEFINE t == request[q].token
  <2>1. /\ request[q].kind = "refresh" /\ request'[q].pc = "revoke" /\ t \notin revoked
        /\ raced' = IF Live(t) /\ Raced(q) THEN raced \cup {t} ELSE raced
        /\ Live(t)
    <3>1. request'[q].kind = "refresh" /\ request'[q].pc = "revoke"
      BY <1>1, <1>6 DEF Holds
    <3> QED
      BY <1>1, <3>1 DEF Find, At, OnError, Answer, Live, ExchangeInv, RotationInv, TypeOK, RequestRecords
  <2>2. \A p \in Requests, r \in 1..rows :
          Holds(p, r)' => Holds(p, r) \/ (p = q /\ r = t)
    BY <1>1 DEF Holds
  \* Who else holds the token has not revoked it: the two are in a race.
  <2>3. ASSUME NEW p \in Requests \ {q}, Holds(p, t)
        PROVE  t \in raced'
    <3>1. request[p].pc # "issue"
      BY <2>1, <2>3 DEF Holds, ExchangeInv, RotationInv, IssueAfterRevoke
    <3>2. Raced(q)
      BY <2>3, <3>1 DEF Holds, Raced
    <3> QED
      BY <2>1, <3>2
  <2>4. \A s \in 1..rows : parent[s] # t
    BY <1>3, <2>1, SessionConstantsAssumption
    DEF ExchangeInv, RotationInv, SuccessorOfRevoked, TypeOK, NoToken
  <2> HIDE DEF t
  <2>5. OneHolder'
    <3>1. SUFFICES ASSUME NEW a \in Requests, NEW b \in Requests, NEW r \in 1..rows \ raced',
                          Holds(a, r)', Holds(b, r)'
                   PROVE  a = b
      BY <1>1 DEF OneHolder
    <3>2. r \in 1..rows \ raced
      BY <1>4
    <3>3. CASE r # t
      BY <2>2, <3>1, <3>2, <3>3 DEF ExchangeInv, OneHolder
    <3>4. CASE r = t
      BY <2>2, <2>3, <3>1, <3>4
    <3> QED
      BY <3>3, <3>4
  <2>6. NoneAfterwards'
    BY <1>1, <1>4, <2>2, <2>4 DEF ExchangeInv, NoneAfterwards
  <2>7. OneChild'
    BY <1>1, <1>4 DEF ExchangeInv, OneChild
  <2> QED
    BY <1>2, <2>5, <2>6, <2>7 DEF ExchangeInv
<1> QED
  BY <1>5, <1>6

LEMMA IssueExchange ==
    ASSUME ExchangeInv, RotationInv', NEW q \in Requests, Issue(q)
    PROVE  ExchangeInv'
<1>1. /\ request[q].pc = "issue" /\ raced' = raced
      /\ \A p \in Requests \ {q} : request'[p] = request[p]
      /\ request'[q].pc = "answer"
  BY DEF Issue, AfterFailedIssue, OnError, Answer, ExchangeInv, RotationInv, TypeOK, RequestRecords
<1>2. /\ rows \in Nat /\ raced \subseteq 1..rows /\ parent \in [1..rows -> 0..rows]
  BY SessionConstantsAssumption DEF ExchangeInv, RotationInv, TypeOK
<1>3. \A p \in Requests : \A t : Holds(p, t)' => p # q /\ Holds(p, t)
  BY <1>1 DEF Holds
<1>4. CASE UNCHANGED dbVars
  <2>1. Inserters'
    BY <1>1, <1>4 DEF ExchangeInv, Inserters, dbVars
  <2> QED
    BY <1>1, <1>3, <1>4, <2>1, NothingTaken DEF dbVars
<1>5. CASE Inserted(q)
  <2> DEFINE t == request[q].token
  <2>1. /\ rows' = rows + 1 /\ rows' \in 1..rows'
        /\ \A s \in 1..rows : s \in 1..rows' /\ s # rows' /\ parent'[s] = parent[s]
        /\ \A s \in 1..rows' : s = rows' \/ s \in 1..rows
        /\ parent'[rows'] = IF request[q].kind = "login" THEN NoToken ELSE t
    BY <1>2, <1>5 DEF Inserted
  <2>2. request[q].kind = "login" \/ (Holds(q, t) /\ t \in 1..rows)
    BY <1>1 DEF ExchangeInv, Inserters, Holds
  <2>3. Inserters'
    BY <1>1, <2>1 DEF ExchangeInv, Inserters
  <2> HIDE DEF t
  <2>4. ASSUME NEW s \in 1..rows', parent'[s] \in 1..rows' \ raced
        PROVE  /\ parent'[s] \in 1..rows \ raced
               /\ \/ s = rows' /\ parent'[s] = t /\ Holds(q, t)
                  \/ s \in 1..rows /\ parent'[s] = parent[s]
    BY <1>2, <2>1, <2>2, <2>4 DEF NoToken
  \* A new token would be the parent of nothing and held by nobody.
  <2>5. OneHolder'
    <3>1. SUFFICES ASSUME NEW a \in Requests, NEW b \in Requests, NEW r \in 1..rows' \ raced,
                          Holds(a, r)', Holds(b, r)'
                   PROVE  a = b
      BY <1>1 DEF OneHolder
    <3>2. Holds(a, r) /\ Holds(b, r)
      BY <1>3, <3>1
    <3>3. r \in 1..rows
      BY <1>2, <3>2 DEF Holds, ExchangeInv, RotationInv, TypeOK, RequestRecords
    <3> QED
      BY <3>2, <3>3 DEF ExchangeInv, OneHolder
  <2>6. NoneAfterwards'
    <3>1. ASSUME NEW p \in Requests, NEW s \in 1..rows', NEW k \in 1..rows' \ raced,
                 parent'[s] = k
          PROVE  ~Holds(p, k)'
      <4>1. SUFFICES ASSUME p # q, Holds(p, k) PROVE FALSE
        BY <1>3
      <4>2. k \in 1..rows \ raced
        BY <2>4, <3>1
      <4>3. CASE s = rows' /\ parent'[s] = t /\ Holds(q, t)
        BY <3>1, <4>1, <4>2, <4>3 DEF ExchangeInv, OneHolder
      <4>4. CASE s \in 1..rows /\ parent'[s] = parent[s]
        BY <3>1, <4>1, <4>2, <4>4 DEF ExchangeInv, NoneAfterwards
      <4> QED
        BY <2>4, <3>1, <4>3, <4>4
    <3> QED
      BY <1>1, <3>1 DEF NoneAfterwards, Holds
  <2>7. OneChild'
    <3>1. SUFFICES ASSUME NEW a \in 1..rows', NEW b \in 1..rows', parent'[a] = parent'[b],
                          parent'[b] \in 1..rows' \ raced
                   PROVE  a = b
      BY <1>1 DEF OneChild
    <3>2. \A s \in 1..rows : parent'[s] = parent[s] /\ parent[s] \in 1..rows \ raced
                            => ~Holds(q, parent[s])
      BY DEF ExchangeInv, NoneAfterwards
    <3> QED
      BY <2>4, <3>1, <3>2 DEF ExchangeInv, OneChild
  <2> QED
    BY <2>3, <2>5, <2>6, <2>7 DEF ExchangeInv
<1> QED
  BY <1>4, <1>5 DEF Issue

LEMMA NextExchange == ExchangeInv /\ RotationInv' /\ [Next]_vars => ExchangeInv'
<1> SUFFICES ASSUME ExchangeInv, RotationInv', [Next]_vars PROVE ExchangeInv'
  OBVIOUS
<1>0. request \in [Requests -> RequestRecords]
  BY DEF ExchangeInv, RotationInv, TypeOK
\* The other steps: a request that was idle begins, or one that was not moves
\* on from the place it had, or ends.
<1>1. ASSUME NEW q \in Requests, UNCHANGED <<rows, parent>>, raced' = raced,
             \A p \in Requests \ {q} : request'[p] = request[p],
             \/ request'[q].pc \notin {"revoke", "issue"}
             \/ request'[q].pc = "issue" /\ request'[q].kind = "login"
             \/ /\ request'[q].pc = "issue" /\ request[q].pc = "revoke"
                /\ request[q].kind = "refresh" /\ request'[q].kind = "refresh"
                /\ request'[q].token = request[q].token
      PROVE  ExchangeInv'
  <2>1. \A p \in Requests, t \in 1..rows : Holds(p, t)' => Holds(p, t)
    BY <1>1 DEF Holds
  <2>2. Inserters'
    BY <1>1, TokenRange DEF ExchangeInv, Inserters
  <2> QED
    BY <1>1, <2>1, <2>2, NothingTaken
<1>2. ASSUME NEW q \in Requests, NEW b \in Browsers, NEW u, NEW kind, NEW label,
             label # "issue" \/ kind = "login", label \notin {"revoke"},
             Send(q, b, kind, label, u)
      PROVE  ExchangeInv'
  <2> DEFINE new == [pc |-> label, kind |-> kind, browser |-> b, user |-> u,
                     token |-> cookie[b],
                   answer |-> IF label = "answer" THEN NoToken ELSE None]
  <2>1. request' = [request EXCEPT ![q] = new] /\ UNCHANGED <<rows, parent, raced>>
    BY <1>2 DEF Send, dbVars
  <2>2. new.pc = label /\ new.kind = kind
    OBVIOUS
  <2> HIDE DEF new
  <2> QED
    BY <1>0, <1>1, <1>2, <2>1, <2>2
<1>4. ASSUME NEW q \in Requests, NEW b \in Browsers,
             SendRefresh(q, b) \/ SendLogout(q, b) \/ \E u \in Users : SendLogin(q, b, u)
      PROVE  ExchangeInv'
  BY <1>2, <1>4 DEF SendRefresh, SendLogout, SendLogin
<1>5. ASSUME NEW q \in Requests, RevokeAll(q)
      PROVE  ExchangeInv'
  BY <1>0, <1>1, <1>5 DEF RevokeAll, OnError, Answer
<1>6. ASSUME NEW q \in Requests, Revoke(q)
      PROVE  ExchangeInv'
  BY <1>0, <1>1, <1>6 DEF Revoke, AfterRevoke, AfterFailedRevoke, OnError, Answer, At,
     RequestRecords
<1>7. ASSUME NEW q \in Requests, Receive(q) \/ Lose(q)
      PROVE  ExchangeInv'
  BY <1>0, <1>1, <1>7 DEF Receive, Lose, Idle, dbVars
<1>8. ASSUME NEW t \in Tokens, Expire(t)
      PROVE  ExchangeInv'
  BY <1>8, NothingTaken DEF Expire, Holds, ExchangeInv, Inserters
<1>9. CASE UNCHANGED vars
  BY <1>9, NothingTaken DEF vars, dbVars, Holds, ExchangeInv, Inserters
<1> QED
  BY <1>4, <1>5, <1>6, <1>7, <1>8, <1>9, FindExchange, IssueExchange DEF Next, Serve

LEMMA InitExchange == Init => ExchangeInv
<1> SUFFICES ASSUME Init PROVE ExchangeInv
  OBVIOUS
<1>1. rows = 0 /\ \A q \in Requests : request[q].pc = "idle"
  BY DEF Init, Idle
<1>2. OneHolder /\ NoneAfterwards /\ OneChild /\ Inserters
  BY <1>1 DEF OneHolder, NoneAfterwards, OneChild, Inserters, Holds
<1> QED
  BY <1>2, InitRotation DEF ExchangeInv

\* auth.go:147-170: for any number of users, browsers and requests, and any
\* failures, a refresh issues the successor of a token only after the token was
\* revoked, and no second one, unless two refreshes looked the token up before
\* either of them revoked it.
THEOREM RotationSafe == Spec => []ExchangedOnce
<1>1. ExchangeInv => ExchangedOnce
  <2> SUFFICES ASSUME ExchangeInv, NEW t \in 1..rows, parent[t] # NoToken
               PROVE  /\ parent[t] \in revoked
                      /\ \/ parent[t] \in raced
                         \/ \A s \in 1..rows : parent[s] = parent[t] => s = t
    BY DEF ExchangedOnce
  <2>1. parent[t] \in revoked /\ parent[t] \in 1..rows
    BY DEF ExchangeInv, RotationInv, SuccessorOfRevoked, TypeOK
  <2> QED
    BY <2>1 DEF ExchangeInv, OneChild
<1> QED
  BY InitRotation, NextRotation, InitExchange, NextExchange, <1>1, PTL DEF Spec

-----------------------------------------------------------------------------
(* Calm sessions: what holds between the steps of a request.               *)

Busy(q) == request[q].pc # "idle"
Exchange(q) == Busy(q) /\ request[q].kind # "login"

\* The records of requests: logins use no token, exchanges use one of their
\* user, and an answer, which only the last step sets, is a token of theirs.
ShapeOf(r) ==
    /\ r.pc = "idle" => r = Idle
    /\ r.pc # "idle" => r.kind # "none"
    /\ r.pc \in {"find", "revokeAll", "revoke"} => r.kind # "login"
    /\ r.pc # "answer" => r.answer = None
    /\ r.pc # "idle" /\ r.kind # "login" =>
         \/ r.token \in 1..rows /\ owner[r.token] = r.user
         \/ r.pc = "answer" /\ r.user = None /\ r.token = NoToken
    /\ r.answer \in 1..rows => owner[r.answer] = r.user
    /\ r.pc = "answer" => r.answer # (IF r.kind = "login" THEN NoToken ELSE None)

Shape == \A q \in Requests : ShapeOf(request[q])

\* A calm user's request has its browser to itself.
Solo ==
    \A p, q \in Requests :
        p # q /\ Busy(p) /\ Busy(q) /\ request[p].browser = request[q].browser
            => request[q].user \notin calm

\* No token is in two places.
Unique ==
    /\ \A b, c \in Browsers : cookie[b] = cookie[c] /\ cookie[b] # NoToken => b = c
    /\ \A p, q \in Requests :
         request[p].answer = request[q].answer /\ request[q].answer \in 1..rows => p = q
    /\ \A b \in Browsers, q \in Requests :
         cookie[b] = request[q].answer => cookie[b] = NoToken

\* A calm user's exchange is about the cookie of its browser, and the cookie
\* of a calm user is what an exchange of its browser is about.
Follows ==
    \A q \in Requests :
        LET t == cookie[request[q].browser] IN
        Exchange(q) /\ (request[q].user \in calm \/ (t # NoToken /\ owner[t] \in calm))
            => t = request[q].token

\* An exchange of a calm user finds its token live, and leaves it dead.
ExchangedBy(r) ==
    r.pc # "idle" /\ r.kind # "login" /\ r.user \in calm =>
        /\ r.pc # "revokeAll"
        /\ r.pc \in {"find", "revoke"} => r.token \notin revoked
        /\ r.pc = "issue" => r.token \in revoked
        /\ r.pc = "answer" => ~Live(r.token)

Exchanged == \A q \in Requests : ExchangedBy(request[q])

\* What a calm user is about to receive is good, and so is the cookie of a
\* calm user until an exchange has revoked it.
Good ==
    /\ \A q \in Requests :
         LET t == request[q].answer IN
         t \in 1..rows /\ owner[t] \in calm => t \notin revoked
    /\ \A b \in Browsers :
         LET t == cookie[b] IN
         t # NoToken /\ owner[t] \in calm /\ t \in revoked =>
             \E q \in Requests : Exchange(q) /\ request[q].browser = b

\* No token of a calm user is live and in nobody's hands.
NoneStray == \A t \in 1..rows : owner[t] \in calm /\ Live(t) => t \in left \/ Held(t)

CalmInv ==
    TypeOK /\ Shape /\ Solo /\ Unique /\ Follows /\ Exchanged /\ Good /\ NoneStray

LEMMA Typed ==
    ASSUME TypeOK
    PROVE  /\ rows \in Nat /\ None \notin Nat /\ None \notin calm
           /\ \A b \in Browsers : cookie[b] \in 0..rows
           /\ \A p \in Requests :
                /\ request[p].pc \in Labels
                /\ request[p].token \in 0..rows
                /\ request[p].answer \in 0..rows \cup {None}
                /\ Busy(p) => request[p].browser \in Browsers
BY SessionConstantsAssumption DEF TypeOK, RequestRecords, Busy

LEMMA InitCalm == Init => CalmInv
<1> SUFFICES ASSUME Init PROVE CalmInv
  OBVIOUS
<1>1. TypeOK
  BY InitRotation DEF RotationInv
<1>2. rows = 0 /\ \A q \in Requests : request[q] = Idle /\ ~Busy(q) /\ ~Exchange(q)
  BY DEF Init, Idle, Busy, Exchange
<1>3. Shape /\ Solo /\ Follows /\ Exchanged
  BY <1>2, SessionConstantsAssumption
  DEF Shape, ShapeOf, Solo, Follows, Exchanged, ExchangedBy, Idle, NoToken
<1>4. \A b \in Browsers : cookie[b] = NoToken
  BY DEF Init
<1>5. Unique
  BY <1>2, <1>4, SessionConstantsAssumption DEF Unique, Idle, NoToken
<1>6. Good
  BY <1>2, <1>4 DEF Good
<1>7. NoneStray
  BY <1>2 DEF NoneStray
<1> QED
  BY <1>1, <1>3, <1>5, <1>6, <1>7 DEF CalmInv

\* A statement of request q that inserts nothing: the request moves on to
\* another label, and what it revokes of a calm user is its own token.
Progress(q, label, ans) ==
    /\ request[q].pc \in {"find", "revokeAll", "revoke", "issue"}
    /\ request' = [request EXCEPT ![q].pc = label, ![q].answer = ans]
    /\ UNCHANGED <<rows, owner, cookie, left, expired>>
    /\ revoked \subseteq revoked' /\ calm' \subseteq calm
    /\ \/ label \in {"revokeAll", "revoke", "issue"} /\ ans = None
       \/ label = "answer" /\ ans = IF request[q].kind = "login" THEN None ELSE NoToken
    /\ label # "answer" => request[q].kind # "login"
    /\ \A t \in revoked' \ revoked : owner[t] \in calm' =>
          t = request[q].token /\ request[q].kind # "login"
    /\ request[q].user \in calm' /\ request[q].kind # "login" =>
         /\ label # "revokeAll"
         /\ label = "revoke" => request[q].token \notin revoked'
         /\ label = "issue" => request[q].token \in revoked'
         /\ label = "answer" => request[q].token \in revoked' \cup expired

LEMMA ProgressCalm ==
    ASSUME CalmInv, TypeOK', NEW q \in Requests, NEW label, NEW ans, Progress(q, label, ans)
    PROVE  CalmInv'
<1> USE DEF Progress
<1>0. TypeOK /\ Shape /\ Solo /\ Unique /\ Follows /\ Exchanged /\ Good /\ NoneStray
  BY DEF CalmInv
<1>1. /\ \A p \in Requests : p # q => request'[p] = request[p]
      /\ request'[q].pc = label /\ request'[q].answer = ans
      /\ request'[q].kind = request[q].kind /\ request'[q].user = request[q].user
      /\ request'[q].browser = request[q].browser /\ request'[q].token = request[q].token
  BY <1>0 DEF TypeOK, RequestRecords
<1>k. \A p \in Requests :
        /\ request'[p].kind = request[p].kind /\ request'[p].user = request[p].user
        /\ request'[p].browser = request[p].browser /\ request'[p].token = request[p].token
  BY <1>1
<1>2. /\ rows \in Nat /\ None \notin Nat
      /\ \A b \in Browsers : cookie[b] \in 0..rows
      /\ \A p \in Requests :
           /\ request[p].token \in 0..rows
           /\ request[p].answer \in 0..rows \cup {None}
           /\ Busy(p) => request[p].browser \in Browsers
  BY <1>0, Typed
<1>3. /\ \A p \in Requests : (Busy(p)' <=> Busy(p)) /\ (Exchange(p)' <=> Exchange(p))
      /\ Busy(q)
  BY <1>1, <1>k DEF Busy, Exchange
<1>4. ans \notin 1..rows /\ ans \in {None, NoToken}
  BY <1>2 DEF NoToken
\* The token that a step revokes is in no other hands.
<1>5. ASSUME NEW t \in revoked' \ revoked, owner[t] \in calm'
      PROVE  /\ Exchange(q) /\ t = request[q].token /\ t \in 1..rows
             /\ request[q].user \in calm /\ t = cookie[request[q].browser]
  <2>1. Exchange(q) /\ t = request[q].token
    BY <1>3, <1>5 DEF Exchange
  <2>2. t \in 1..rows /\ owner[t] = request[q].user
    BY <1>0, <2>1 DEF Shape, ShapeOf, Exchange, Busy
  <2> QED
    BY <1>0, <1>5, <2>1, <2>2 DEF Follows
<1>6. Shape'
  <2>2. ASSUME NEW p \in Requests
        PROVE  ShapeOf(request[p])'
    <3>1. CASE p = q
      <4>1. ShapeOf(request[q])
        BY <1>0 DEF Shape
      <4>2. request[q].kind # "login" =>
              request[q].token \in 1..rows /\ owner[request[q].token] = request[q].user
        BY <4>1 DEF ShapeOf
      <4> QED
        BY <1>1, <1>2, <1>4, <3>1, <4>1, <4>2 DEF ShapeOf, NoToken
    <3>2. CASE p # q
      <4>1. ShapeOf(request[p]) /\ request'[p] = request[p]
        BY <1>0, <1>1, <3>2 DEF Shape
      <4>2. rows' = rows /\ owner' = owner
        BY <1>0, <1>1
      <4> QED
        BY <4>1, <4>2 DEF ShapeOf
    <3> QED
      BY <3>1, <3>2
  <2> QED
    BY <2>2 DEF Shape
<1>7. Solo'
  <2>1. ASSUME NEW a \in Requests, NEW b \in Requests, a # b, Busy(a)', Busy(b)',
               request'[a].browser = request'[b].browser
        PROVE  request'[b].user \notin calm'
    <3>1. Busy(a) /\ Busy(b) /\ request[a].browser = request[b].browser
      BY <1>k, <1>3, <2>1
    <3>2. request[b].user \notin calm
      BY <1>0, <2>1, <3>1 DEF Solo
    <3> QED
      BY <1>k, <3>2
  <2> QED
    BY <2>1 DEF Solo
<1>8. Unique'
  <2>1. ASSUME NEW a \in Requests, NEW b \in Requests,
               request'[a].answer = request'[b].answer, request'[b].answer \in 1..rows
        PROVE  a = b
    <3>1. a # q /\ b # q
      BY <1>1, <1>4, <2>1
    <3> QED
      BY <1>0, <1>1, <2>1, <3>1 DEF Unique
  <2>2. ASSUME NEW b \in Browsers, NEW p \in Requests, cookie[b] = request'[p].answer
        PROVE  cookie[b] = NoToken
    <3>1. CASE p = q
      BY <1>1, <1>2, <1>4, <2>2, <3>1
    <3>2. CASE p # q
      BY <1>0, <1>1, <2>2, <3>2 DEF Unique
    <3> QED
      BY <3>1, <3>2
  <2> QED
    BY <1>0, <2>1, <2>2 DEF Unique
<1>9. Follows'
  BY <1>0, <1>k, <1>3 DEF Follows
<1>10. Exchanged'
  <2>1. ASSUME NEW p \in Requests, p # q, Exchange(p), request[p].user \in calm'
        PROVE  request[p].token \in revoked' => request[p].token \in revoked
    <3>1. SUFFICES ASSUME request[p].token \in revoked' \ revoked PROVE FALSE
      OBVIOUS
    <3>2. owner[request[p].token] = request[p].user
      <4>1. request[p].user # None
        BY <1>0, <2>1, Typed
      <4> QED
        BY <1>0, <2>1, <4>1 DEF Shape, ShapeOf, Exchange, Busy
    <3>3. cookie[request[p].browser] = request[p].token
      BY <1>0, <2>1 DEF Follows
    <3>4. Exchange(q) /\ cookie[request[q].browser] = request[p].token /\ request[p].token \in 1..rows
      BY <1>5, <2>1, <3>1, <3>2
    <3>5. request[p].browser = request[q].browser
      BY <1>0, <1>2, <2>1, <3>3, <3>4 DEF Unique, Exchange, NoToken
    <3> QED
      BY <1>0, <1>3, <2>1, <3>5 DEF Solo, Exchange
  <2>2. ASSUME NEW p \in Requests
        PROVE  ExchangedBy(request[p])'
    <3>1. CASE p = q
      <4>1. /\ request'[q].pc = label /\ request'[q].kind = request[q].kind
            /\ request'[q].user = request[q].user /\ request'[q].token = request[q].token
            /\ label # "find" /\ expired' = expired
        BY <1>1
      <4>2. ExchangedBy(request[q])'
        BY <4>1 DEF ExchangedBy, Live
      <4> QED
        BY <3>1, <4>2
    <3>2. CASE p # q
      <4>1. ExchangedBy(request[p])
        BY <1>0 DEF Exchanged
      <4>2. request'[p] = request[p] /\ expired' = expired
        BY <1>1, <3>2
      <4>3. request[p].pc # "idle" /\ request[p].kind # "login" /\ request[p].user \in calm' =>
              (request[p].token \in revoked' => request[p].token \in revoked)
        BY <2>1, <3>2 DEF Exchange, Busy
      <4> QED
        BY <4>1, <4>2, <4>3 DEF ExchangedBy, Live
    <3> QED
      BY <3>1, <3>2
  <2> QED
    BY <2>2 DEF Exchanged
<1>11. Good'
  <2>1. ASSUME NEW p \in Requests, request'[p].answer \in 1..rows,
               owner[request'[p].answer] \in calm', request'[p].answer \in revoked'
        PROVE  FALSE
    <3>0. owner[request'[p].answer] \in calm
      BY <2>1
    <3>1. p # q /\ request'[p].answer = request[p].answer
      BY <1>1, <1>4, <2>1
    <3>2. request[p].answer \notin revoked
      BY <1>0, <2>1, <3>1 DEF Good
    <3>3. request[p].answer = cookie[request[q].browser] /\ Exchange(q)
      BY <1>5, <2>1, <3>1, <3>2
    <3> QED
      BY <1>0, <1>2, <2>1, <3>1, <3>3 DEF Unique, Exchange, NoToken
  <2>2. ASSUME NEW b \in Browsers, cookie[b] # NoToken, owner[cookie[b]] \in calm',
               cookie[b] \in revoked'
        PROVE  \E p \in Requests : Exchange(p) /\ request[p].browser = b
    <3>1. CASE cookie[b] \in revoked
      BY <1>0, <2>2, <3>1 DEF Good
    <3>2. CASE cookie[b] \notin revoked
      <4>1. Exchange(q) /\ cookie[b] = cookie[request[q].browser]
        BY <1>5, <2>2, <3>2
      <4> QED
        BY <1>0, <1>2, <2>2, <4>1 DEF Unique, Exchange
    <3> QED
      BY <3>1, <3>2
  <2>3. ASSUME NEW b \in Browsers, cookie[b] # NoToken, owner[cookie[b]] \in calm',
               cookie[b] \in revoked'
        PROVE  \E p \in Requests : Exchange(p)' /\ request'[p].browser = b
    BY <1>k, <1>3, <2>2, <2>3
  <2> QED
    <3>1. cookie' = cookie /\ owner' = owner /\ rows' = rows
      OBVIOUS
    <3> QED
      BY <2>1, <2>3, <3>1 DEF Good
<1>12. NoneStray'
  <2>1. request[q].answer = None
    BY <1>0 DEF Shape, ShapeOf
  <2>2. ASSUME NEW t \in 1..rows, Held(t)
        PROVE  Held(t)'
    <3>1. CASE \E b \in Browsers : cookie[b] = t
      BY <3>1 DEF Held
    <3>2. CASE \E p \in Requests : request[p].answer = t
      <4>1. PICK p \in Requests : request[p].answer = t
        BY <3>2
      <4>2. p # q
        BY <1>2, <2>1, <4>1
      <4>3. request'[p].answer = t
        BY <1>1, <4>1, <4>2
      <4> QED
        BY <4>3 DEF Held
    <3> QED
      BY <2>2, <3>1, <3>2 DEF Held
  <2> QED
    BY <1>0, <2>2 DEF NoneStray, Live
<1> QED
  BY <1>6, <1>7, <1>8, <1>9, <1>10, <1>11, <1>12 DEF CalmInv

\* What ServeCalm needs about the request and about a fault.
LEMMA ServeFacts ==
    ASSUME CalmInv, NEW q \in Requests
    PROVE  /\ request[q] \in RequestRecords
           /\ request[q].pc # "answer" => request[q].answer = None
           /\ request[q].pc \in {"find", "revokeAll", "revoke"} => request[q].kind # "login"
           /\ request[q].pc # "idle" /\ request[q].kind # "login" =>
                \/ request[q].token \in 1..rows /\ owner[request[q].token] = request[q].user
                \/ /\ request[q].pc = "answer" /\ request[q].user = None
                   /\ request[q].token = NoToken
           /\ ExchangedBy(request[q])
BY DEF CalmInv, TypeOK, Shape, ShapeOf, Exchanged

LEMMA FaultCalm ==
    ASSUME NEW q \in Requests, Fault(q) \/ NoFault
    PROVE  calm' \subseteq calm /\ (Fault(q) => request[q].user \notin calm')
BY DEF Fault, NoFault

LEMMA AtForm ==
    ASSUME CalmInv, NEW q \in Requests, NEW label, request[q].pc # "answer", At(q, label)
    PROVE  request' = [request EXCEPT ![q].pc = label, ![q].answer = None]
BY ServeFacts DEF At, CalmInv, TypeOK, RequestRecords

LEMMA OnErrorForm ==
    ASSUME NEW q \in Requests, OnError(q)
    PROVE  request' = [request EXCEPT ![q].pc = "answer",
                         ![q].answer = IF request[q].kind = "login" THEN None ELSE NoToken]
BY DEF OnError, Answer

LEMMA FindCalm ==
    ASSUME CalmInv, TypeOK', NEW q \in Requests, Find(q)
    PROVE  CalmInv'
<1>1. /\ request[q].pc = "find" /\ UNCHANGED <<rows, owner, revoked, expired, cookie, left>>
      /\ request[q].kind # "login"
  BY ServeFacts DEF Find, dbVars
<1>2. calm' \subseteq calm /\ (Fault(q) => request[q].user \notin calm')
  BY FaultCalm DEF Find
<1>3. request[q].user \in calm => request[q].token \notin revoked
  BY <1>1, ServeFacts DEF ExchangedBy
<1>4. \/ At(q, "revokeAll") /\ request[q].user \notin calm
      \/ At(q, "revoke")
      \/ OnError(q) /\ (request[q].token \in expired \/ request[q].user \notin calm')
  BY <1>2, <1>3 DEF Find
<1>5. CASE At(q, "revokeAll") /\ request[q].user \notin calm
  <2>1. request' = [request EXCEPT ![q].pc = "revokeAll", ![q].answer = None]
    BY <1>1, <1>5, AtForm
  <2>2. Progress(q, "revokeAll", None)
    BY <1>1, <1>2, <1>5, <2>1 DEF Progress
  <2> QED
    BY <2>2, ProgressCalm
<1>6. CASE At(q, "revoke")
  <2>1. request' = [request EXCEPT ![q].pc = "revoke", ![q].answer = None]
    BY <1>1, <1>6, AtForm
  <2>2. Progress(q, "revoke", None)
    BY <1>1, <1>2, <1>3, <2>1 DEF Progress
  <2> QED
    BY <2>2, ProgressCalm
<1>7. CASE OnError(q) /\ (request[q].token \in expired \/ request[q].user \notin calm')
  <2>1. request' = [request EXCEPT ![q].pc = "answer", ![q].answer = NoToken]
    BY <1>1, <1>7, OnErrorForm
  <2>2. Progress(q, "answer", NoToken)
    BY <1>1, <1>2, <1>7, <2>1 DEF Progress
  <2> QED
    BY <2>2, ProgressCalm
<1> QED
  BY <1>4, <1>5, <1>6, <1>7

LEMMA RevokeAllCalm ==
    ASSUME CalmInv, TypeOK', NEW q \in Requests, RevokeAll(q)
    PROVE  CalmInv'
<1>1. /\ request[q].pc = "revokeAll" /\ UNCHANGED <<rows, owner, expired, cookie, left>>
      /\ request[q].kind # "login" /\ OnError(q)
  BY ServeFacts DEF RevokeAll
<1>2. calm' \subseteq calm
  BY FaultCalm DEF RevokeAll
<1>3. request[q].user \notin calm /\ owner[request[q].token] = request[q].user
  BY <1>1, ServeFacts DEF ExchangedBy
<1>4. revoked \subseteq revoked' /\ \A t \in revoked' \ revoked : owner[t] \notin calm
  BY <1>3 DEF RevokeAll, OwnedBy
<1>5. request' = [request EXCEPT ![q].pc = "answer", ![q].answer = NoToken]
  BY <1>1, OnErrorForm
<1>6. Progress(q, "answer", NoToken)
  BY <1>1, <1>2, <1>3, <1>4, <1>5 DEF Progress
<1> QED
  BY <1>6, ProgressCalm

LEMMA RevokeCalm ==
    ASSUME CalmInv, TypeOK', NEW q \in Requests, Revoke(q)
    PROVE  CalmInv'
<1>1. /\ request[q].pc = "revoke" /\ UNCHANGED <<rows, owner, expired, cookie, left>>
      /\ request[q].kind # "login"
  BY ServeFacts DEF Revoke
<1>2. calm' \subseteq calm /\ (Fault(q) => request[q].user \notin calm')
  BY FaultCalm DEF Revoke
<1>3. /\ revoked \subseteq revoked'
      /\ \A t \in revoked' \ revoked : t = request[q].token
  BY DEF Revoke
<1>4. \/ At(q, "issue") /\ request[q].token \in revoked'
      \/ Answer(q, NoToken) /\ request[q].token \in revoked'
      \/ OnError(q) /\ request[q].user \notin calm'
  BY <1>2 DEF Revoke, AfterRevoke, AfterFailedRevoke
<1>5. CASE At(q, "issue") /\ request[q].token \in revoked'
  <2>1. request' = [request EXCEPT ![q].pc = "issue", ![q].answer = None]
    BY <1>1, <1>5, AtForm
  <2>2. Progress(q, "issue", None)
    BY <1>1, <1>2, <1>3, <1>5, <2>1 DEF Progress
  <2> QED
    BY <2>2, ProgressCalm
<1>6. CASE Answer(q, NoToken) /\ request[q].token \in revoked'
  <2>1. request' = [request EXCEPT ![q].pc = "answer", ![q].answer = NoToken]
    BY <1>6 DEF Answer
  <2>2. Progress(q, "answer", NoToken)
    BY <1>1, <1>2, <1>3, <1>6, <2>1 DEF Progress
  <2> QED
    BY <2>2, ProgressCalm
<1>7. CASE OnError(q) /\ request[q].user \notin calm'
  <2>1. request' = [request EXCEPT ![q].pc = "answer", ![q].answer = NoToken]
    BY <1>1, <1>7, OnErrorForm
  <2>2. Progress(q, "answer", NoToken)
    BY <1>1, <1>2, <1>3, <1>7, <2>1 DEF Progress
  <2> QED
    BY <2>2, ProgressCalm
<1> QED
  BY <1>4, <1>5, <1>6, <1>7

\* A new row is owned by the user of the request, which answers with it, or
\* is not calm any more.
LEMMA InsertCalm ==
    ASSUME CalmInv, TypeOK', NEW q \in Requests, request[q].pc = "issue", Inserted(q),
           UNCHANGED <<cookie, left>>, calm' \subseteq calm,
           NEW ans, request' = [request EXCEPT ![q].pc = "answer", ![q].answer = ans],
           \/ ans = rows + 1
           \/ /\ ans = IF request[q].kind = "login" THEN None ELSE NoToken
              /\ request[q].user \notin calm'
    PROVE  CalmInv'
<1>0. TypeOK /\ Shape /\ Solo /\ Unique /\ Follows /\ Exchanged /\ Good /\ NoneStray
  BY DEF CalmInv
<1>1. /\ \A p \in Requests : p # q => request'[p] = request[p]
      /\ request'[q].pc = "answer" /\ request'[q].answer = ans
      /\ request'[q].kind = request[q].kind /\ request'[q].user = request[q].user
      /\ request'[q].browser = request[q].browser /\ request'[q].token = request[q].token
  BY <1>0 DEF TypeOK, RequestRecords
<1>k. \A p \in Requests :
        /\ request'[p].kind = request[p].kind /\ request'[p].user = request[p].user
        /\ request'[p].browser = request[p].browser /\ request'[p].token = request[p].token
  BY <1>1
<1>2. /\ rows \in Nat /\ None \notin Nat
      /\ \A b \in Browsers : cookie[b] \in 0..rows
      /\ \A p \in Requests :
           /\ request[p].token \in 0..rows
           /\ request[p].answer \in 0..rows \cup {None}
           /\ Busy(p) => request[p].browser \in Browsers
  BY <1>0, Typed
<1>3. /\ \A p \in Requests : (Busy(p)' <=> Busy(p)) /\ (Exchange(p)' <=> Exchange(p))
      /\ Busy(q)
  BY <1>1, <1>k DEF Busy, Exchange
<1>4. /\ rows' = rows + 1 /\ revoked' = revoked /\ expired' = expired /\ cookie' = cookie
      /\ left' = left /\ \A t \in 1..rows : owner'[t] = owner[t] /\ t \in 1..rows'
      /\ owner'[rows + 1] = request[q].user /\ rows + 1 \notin revoked
  BY <1>0, <1>2 DEF Inserted, TypeOK
<1>5. ans \in 1..rows' => ans = rows + 1
  BY <1>2, <1>4 DEF NoToken
<1>6. Shape'
  <2>1. ASSUME NEW p \in Requests
        PROVE  ShapeOf(request[p])'
    <3>0. ShapeOf(request[p])
      BY <1>0 DEF Shape
    <3>1. CASE p = q
      <4>1. request[q].kind # "login" => /\ request[q].token \in 1..rows'
                                         /\ owner'[request[q].token] = request[q].user
        BY <1>4, <3>0, <3>1 DEF ShapeOf
      <4>2. request[q].kind # "none"
        BY <3>0, <3>1 DEF ShapeOf
      <4>3. ans # IF request[q].kind = "login" THEN NoToken ELSE None
        BY <1>2 DEF NoToken
      <4> QED
        BY <1>1, <1>4, <1>5, <3>1, <4>1, <4>2, <4>3 DEF ShapeOf
    <3>2. CASE p # q
      <4>1. request'[p] = request[p]
        BY <1>1, <3>2
      <4>2. request[p].answer \in 1..rows' => request[p].answer \in 1..rows
        BY <1>2, <1>4
      <4> QED
        BY <1>4, <3>0, <4>1, <4>2 DEF ShapeOf
    <3> QED
      BY <3>1, <3>2
  <2> QED
    BY <2>1 DEF Shape
<1>7. Solo'
  <2>1. ASSUME NEW a \in Requests, NEW b \in Requests, a # b, Busy(a)', Busy(b)',
               request'[a].browser = request'[b].browser
        PROVE  request'[b].user \notin calm'
    <3>1. Busy(a) /\ Busy(b) /\ request[a].browser = request[b].browser
      BY <1>k, <1>3, <2>1
    <3>2. request[b].user \notin calm
      BY <1>0, <2>1, <3>1 DEF Solo
    <3> QED
      BY <1>k, <3>2
  <2> QED
    BY <2>1 DEF Solo
<1>8. Unique'
  <2>1. ASSUME NEW a \in Requests, NEW b \in Requests,
               request'[a].answer = request'[b].answer, request'[b].answer \in 1..rows'
        PROVE  a = b
    <3>1. CASE a = q \/ b = q
      <4>1. \A p \in Requests : p # q => request'[p].answer # rows + 1
        <5>1. \A p \in Requests : request[p].answer # rows + 1
          BY <1>2
        <5> QED
          BY <1>1, <5>1
      <4>2. request'[q].answer = rows + 1
        BY <1>1, <1>5, <2>1, <3>1
      <4> QED
        BY <2>1, <3>1, <4>1, <4>2
    <3>2. CASE a # q /\ b # q
      <4>1. request[a].answer = request[b].answer /\ request[b].answer \in 1..rows
        BY <1>1, <1>2, <1>4, <2>1, <3>2
      <4> QED
        BY <1>0, <4>1 DEF Unique
    <3> QED
      BY <3>1, <3>2
  <2>2. ASSUME NEW b \in Browsers, NEW p \in Requests, cookie[b] = request'[p].answer
        PROVE  cookie[b] = NoToken
    <3>1. CASE p = q
      BY <1>1, <1>2, <2>2, <3>1
    <3>2. CASE p # q
      <4>1. request'[p] = request[p]
        BY <1>1, <3>2
      <4> QED
        BY <1>0, <2>2, <4>1 DEF Unique
    <3> QED
      BY <3>1, <3>2
  <2>3. cookie' = cookie /\ \A b, c \in Browsers :
          cookie[b] = cookie[c] /\ cookie[b] # NoToken => b = c
    BY <1>0, <1>4 DEF Unique
  <2> QED
    BY <2>1, <2>2, <2>3 DEF Unique
<1>9. Follows'
  <2>1. ASSUME NEW p \in Requests, Exchange(p),
               \/ request[p].user \in calm'
               \/ /\ cookie[request[p].browser] # NoToken
                  /\ owner'[cookie[request[p].browser]] \in calm'
        PROVE  cookie[request[p].browser] = request[p].token
    <3>1. cookie[request[p].browser] # NoToken => cookie[request[p].browser] \in 1..rows
      BY <1>2, <2>1 DEF Exchange, NoToken
    <3> QED
      BY <1>0, <1>4, <2>1, <3>1 DEF Follows
  <2> QED
    BY <1>k, <1>3, <1>4, <2>1 DEF Follows
<1>10. Exchanged'
  <2>1. ASSUME NEW p \in Requests
        PROVE  ExchangedBy(request[p])'
    <3>0. ExchangedBy(request[p])
      BY <1>0 DEF Exchanged
    <3>1. CASE p = q
      <4>1. request[q].kind # "login" /\ request[q].user \in calm' => request[q].token \in revoked
        BY <3>0, <3>1 DEF ExchangedBy
      <4>2. ExchangedBy(request[q])'
        BY <1>1, <1>4, <4>1 DEF ExchangedBy, Live
      <4> QED
        BY <3>1, <4>2
    <3>2. CASE p # q
      <4>1. request'[p] = request[p]
        BY <1>1, <3>2
      <4> QED
        BY <1>4, <3>0, <4>1 DEF ExchangedBy, Live
    <3> QED
      BY <3>1, <3>2
  <2> QED
    BY <2>1 DEF Exchanged
<1>11. Good'
  <2>1. ASSUME NEW p \in Requests, request'[p].answer \in 1..rows',
               owner'[request'[p].answer] \in calm'
        PROVE  request'[p].answer \notin revoked
    <3>1. CASE p = q
      BY <1>1, <1>4, <1>5, <2>1, <3>1
    <3>2. CASE p # q
      <4>0. request'[p] = request[p]
        BY <1>1, <3>2
      <4>a. request[p].answer \in 1..rows' => request[p].answer \in 1..rows
        BY <1>2, <1>4
      <4>1. request'[p].answer = request[p].answer /\ request[p].answer \in 1..rows
        BY <2>1, <4>0, <4>a
      <4> QED
        BY <1>0, <1>4, <2>1, <4>1 DEF Good
    <3> QED
      BY <3>1, <3>2
  <2>2. ASSUME NEW b \in Browsers, cookie[b] # NoToken, owner'[cookie[b]] \in calm',
               cookie[b] \in revoked
        PROVE  \E p \in Requests : Exchange(p)' /\ request'[p].browser = b
    <3>1. cookie[b] \in 1..rows
      BY <1>2, <2>2 DEF NoToken
    <3>2. \E p \in Requests : Exchange(p) /\ request[p].browser = b
      BY <1>0, <1>4, <2>2, <3>1 DEF Good
    <3> QED
      BY <1>k, <1>3, <3>2
  <2>3. cookie' = cookie /\ revoked' = revoked
    BY <1>4
  <2> QED
    BY <2>1, <2>2, <2>3 DEF Good
<1>12. NoneStray'
  <2>1. request[q].answer = None
    BY <1>0 DEF Shape, ShapeOf
  <2>2. ASSUME NEW t \in 1..rows, Held(t)
        PROVE  Held(t)'
    <3>1. CASE \E b \in Browsers : cookie[b] = t
      BY <3>1 DEF Held
    <3>2. CASE \E p \in Requests : request[p].answer = t
      <4>1. PICK p \in Requests : request[p].answer = t
        BY <3>2
      <4>2. p # q
        BY <1>2, <2>1, <4>1
      <4>3. request'[p].answer = t
        BY <1>1, <4>1, <4>2
      <4> QED
        BY <4>3 DEF Held
    <3> QED
      BY <2>2, <3>1, <3>2 DEF Held
  <2>3. ASSUME NEW t \in 1..rows', owner'[t] \in calm', Live(t)'
        PROVE  t \in left \/ Held(t)'
    <3>1. CASE t = rows + 1
      BY <1>1, <1>4, <2>3, <3>1 DEF Held
    <3>2. CASE t # rows + 1
      <4>1. t \in 1..rows /\ owner[t] \in calm /\ Live(t)
        BY <1>2, <1>4, <2>3, <3>2 DEF Live
      <4> QED
        BY <1>0, <2>2, <4>1 DEF NoneStray
    <3> QED
      BY <3>1, <3>2
  <2> QED
    BY <1>4, <2>3 DEF NoneStray
<1> QED
  BY <1>6, <1>7, <1>8, <1>9, <1>10, <1>11, <1>12 DEF CalmInv

LEMMA IssueCalm ==
    ASSUME CalmInv, TypeOK', NEW q \in Requests, Issue(q)
    PROVE  CalmInv'
<1>1. request[q].pc = "issue" /\ UNCHANGED <<cookie, left>>
  BY DEF Issue
<1>2. calm' \subseteq calm /\ (Fault(q) => request[q].user \notin calm')
  BY FaultCalm DEF Issue
<1>3. CASE Inserted(q) /\ Answer(q, rows + 1)
  BY <1>1, <1>2, <1>3, InsertCalm DEF Answer
<1>4. CASE Inserted(q) /\ OnError(q) /\ Fault(q)
  BY <1>1, <1>2, <1>4, OnErrorForm, InsertCalm
<1>5. CASE UNCHANGED dbVars /\ OnError(q) /\ Fault(q)
  <2>1. UNCHANGED <<rows, owner, revoked, expired, cookie, left>>
    BY <1>1, <1>5 DEF dbVars
  <2> DEFINE ans == IF request[q].kind = "login" THEN None ELSE NoToken
  <2>2. request' = [request EXCEPT ![q].pc = "answer", ![q].answer = ans]
    BY <1>5, OnErrorForm
  <2>3. Progress(q, "answer", ans)
    BY <1>1, <1>2, <1>5, <2>1, <2>2 DEF Progress
  <2> QED
    BY <2>3, ProgressCalm
<1> QED
  BY <1>3, <1>4, <1>5 DEF Issue, AfterFailedIssue

\* A request that is over, or lost, leaves its browser with a cookie: the
\* facts about the other requests are unchanged.
EndFacts(q) ==
    /\ request' = [request EXCEPT ![q] = Idle]
    /\ UNCHANGED dbVars
    /\ calm' \subseteq calm

LEMMA EndRest ==
    ASSUME CalmInv, NEW q \in Requests, EndFacts(q)
    PROVE  /\ \A p \in Requests : p # q => request'[p] = request[p]
           /\ request'[q] = Idle
           /\ \A p \in Requests :
                /\ Busy(p)' => p # q /\ Busy(p)
                /\ Exchange(p)' => p # q /\ Exchange(p)
                /\ p # q /\ Exchange(p) => Exchange(p)'
           /\ Idle.answer = None /\ Idle.pc = "idle"
           /\ Shape' /\ Solo' /\ Exchanged'
<1>0. TypeOK /\ Shape /\ Solo /\ Exchanged
  BY DEF CalmInv
<1>1. /\ \A p \in Requests : p # q => request'[p] = request[p]
      /\ request'[q] = Idle
  BY <1>0 DEF EndFacts, TypeOK
<1>2. Idle.answer = None /\ Idle.pc = "idle"
  BY DEF Idle
<1>3. \A p \in Requests :
        /\ Busy(p)' => p # q /\ Busy(p)
        /\ Exchange(p)' => p # q /\ Exchange(p)
        /\ p # q /\ Exchange(p) => Exchange(p)'
  BY <1>1, <1>2 DEF Busy, Exchange
<1>4. rows' = rows /\ owner' = owner /\ revoked' = revoked /\ expired' = expired /\ calm' \subseteq calm
  BY DEF EndFacts, dbVars
<1>5. Shape'
  <2>1. ASSUME NEW p \in Requests PROVE ShapeOf(request[p])'
    <3>1. CASE p = q
      <4>1. None \notin 1..rows
        BY <1>0, Typed
      <4>2. request'[p] = Idle
        BY <1>1, <3>1
      <4> QED
        BY <1>2, <1>4, <4>1, <4>2 DEF ShapeOf
    <3>2. CASE p # q
      <4>1. ShapeOf(request[p]) /\ request'[p] = request[p]
        BY <1>0, <1>1, <3>2 DEF Shape
      <4> QED
        BY <1>4, <4>1 DEF ShapeOf
    <3> QED
      BY <3>1, <3>2
  <2> QED
    BY <2>1 DEF Shape
<1>6. Solo'
  <2>1. ASSUME NEW a \in Requests, NEW b \in Requests, a # b, Busy(a)', Busy(b)',
               request'[a].browser = request'[b].browser
        PROVE  request'[b].user \notin calm'
    <3>1. Busy(a) /\ Busy(b) /\ request'[a] = request[a] /\ request'[b] = request[b]
      BY <1>1, <1>3, <2>1
    <3> QED
      BY <1>0, <1>4, <2>1, <3>1 DEF Solo
  <2> QED
    BY <2>1 DEF Solo
<1>7. Exchanged'
  <2>1. ASSUME NEW p \in Requests PROVE ExchangedBy(request[p])'
    <3>1. CASE p = q
      <4>1. request'[p] = Idle
        BY <1>1, <3>1
      <4> QED
        BY <1>2, <4>1 DEF ExchangedBy
    <3>2. CASE p # q
      <4>1. ExchangedBy(request[p]) /\ request'[p] = request[p]
        BY <1>0, <1>1, <3>2 DEF Exchanged
      <4> QED
        BY <1>4, <4>1 DEF ExchangedBy, Live
    <3> QED
      BY <3>1, <3>2
  <2> QED
    BY <2>1 DEF Exchanged
<1> QED
  BY <1>1, <1>2, <1>3, <1>5, <1>6, <1>7

LEMMA LoseCalm ==
    ASSUME CalmInv, TypeOK', NEW q \in Requests, Lose(q)
    PROVE  CalmInv'
<1>0. TypeOK /\ Shape /\ Unique /\ Follows /\ Good /\ NoneStray
  BY DEF CalmInv
<1>1. /\ EndFacts(q) /\ request[q].user \notin calm' /\ cookie' = cookie /\ left' = left
      /\ Busy(q)
  BY FaultCalm DEF Lose, EndFacts, Fault, Busy
<1>2. /\ \A p \in Requests : p # q => request'[p] = request[p]
      /\ request'[q].answer = None
      /\ \A p \in Requests :
           /\ Exchange(p)' => p # q /\ Exchange(p)
           /\ p # q /\ Exchange(p) => Exchange(p)'
      /\ Shape' /\ Solo' /\ Exchanged'
  BY <1>1, EndRest
<1>3. rows' = rows /\ owner' = owner /\ revoked' = revoked /\ expired' = expired /\ calm' \subseteq calm
  BY <1>1 DEF EndFacts, dbVars
<1>4. /\ rows \in Nat /\ None \notin 1..rows /\ None # NoToken
      /\ \A b \in Browsers : cookie[b] \in 0..rows
      /\ \A p \in Requests : Busy(p) => request[p].browser \in Browsers
  BY <1>0, Typed DEF NoToken
<1>a. \A p \in Requests :
        request'[p].answer = None \/ (p # q /\ request'[p].answer = request[p].answer)
  BY <1>2
<1>5. Unique'
  <2>1. ASSUME NEW a \in Requests, NEW b \in Requests,
               request'[a].answer = request'[b].answer, request'[b].answer \in 1..rows
        PROVE  a = b
    <3>1. request[a].answer = request[b].answer /\ request[b].answer \in 1..rows
      BY <1>4, <1>a, <2>1
    <3> QED
      BY <1>0, <3>1 DEF Unique
  <2>2. ASSUME NEW b \in Browsers, NEW p \in Requests, cookie[b] = request'[p].answer
        PROVE  cookie[b] = NoToken
    <3>1. cookie[b] # None
      BY <1>0, Typed
    <3>2. cookie[b] = request[p].answer
      BY <1>a, <2>2, <3>1
    <3> QED
      BY <1>0, <3>2 DEF Unique
  <2>3. \A b, c \in Browsers : cookie[b] = cookie[c] /\ cookie[b] # NoToken => b = c
    BY <1>0 DEF Unique
  <2> QED
    BY <1>1, <1>3, <2>1, <2>2, <2>3 DEF Unique
<1>6. Follows'
  <2>1. ASSUME NEW p \in Requests, Exchange(p)',
               \/ request'[p].user \in calm'
               \/ /\ cookie[request'[p].browser] # NoToken
                  /\ owner[cookie[request'[p].browser]] \in calm'
        PROVE  cookie[request'[p].browser] = request'[p].token
    <3>1. Exchange(p) /\ request'[p] = request[p]
      BY <1>2, <2>1
    <3> QED
      BY <1>0, <1>3, <2>1, <3>1 DEF Follows
  <2> QED
    BY <1>1, <1>3, <2>1 DEF Follows
<1>7. Good'
  <2>1. ASSUME NEW p \in Requests, request'[p].answer \in 1..rows,
               owner[request'[p].answer] \in calm'
        PROVE  request'[p].answer \notin revoked
    <3>1. request'[p].answer = request[p].answer
      BY <1>4, <1>a, <2>1
    <3> QED
      BY <1>0, <1>3, <2>1, <3>1 DEF Good
  <2>2. ASSUME NEW b \in Browsers, cookie[b] # NoToken, owner[cookie[b]] \in calm',
               cookie[b] \in revoked
        PROVE  \E p \in Requests : Exchange(p)' /\ request'[p].browser = b
    <3>1. PICK p \in Requests : Exchange(p) /\ request[p].browser = b
      BY <1>0, <1>3, <2>2 DEF Good
    <3>2. p # q
      <4>1. SUFFICES ASSUME p = q PROVE FALSE
        OBVIOUS
      <4>2. cookie[b] = request[q].token
        BY <1>0, <1>3, <2>2, <3>1, <4>1 DEF Follows
      <4>3. owner[request[q].token] = request[q].user
        BY <2>2, <3>1, <4>1, <4>2, ServeFacts DEF Exchange, Busy
      <4> QED
        BY <1>1, <2>2, <4>2, <4>3
    <3> QED
      BY <1>2, <3>1, <3>2
  <2> QED
    BY <1>1, <1>3, <2>1, <2>2 DEF Good
<1>8. NoneStray'
  <2>1. ASSUME NEW t \in 1..rows, owner[t] \in calm', Live(t)
        PROVE  t \in left \/ Held(t)'
    <3>1. t \in left \/ Held(t)
      BY <1>0, <1>3, <2>1 DEF NoneStray
    <3>2. CASE \E b \in Browsers : cookie[b] = t
      BY <1>1, <3>2 DEF Held
    <3>3. ASSUME NEW p \in Requests, request[p].answer = t
          PROVE  Held(t)'
      <4>1. owner[t] = request[p].user
        BY <1>0, <3>3 DEF Shape, ShapeOf
      <4>2. p # q
        BY <1>1, <2>1, <4>1
      <4>3. request'[p].answer = t
        BY <1>2, <3>3, <4>2
      <4> QED
        BY <4>3 DEF Held
    <3> QED
      BY <3>1, <3>2, <3>3 DEF Held
  <2> QED
    BY <1>1, <1>3, <2>1 DEF NoneStray, Live
<1> QED
  BY <1>2, <1>5, <1>6, <1>7, <1>8 DEF CalmInv

LEMMA ReceiveCalm ==
    ASSUME CalmInv, TypeOK', NEW q \in Requests, Receive(q)
    PROVE  CalmInv'
<1> DEFINE b0 == request[q].browser
           ans == request[q].answer
<1>0. TypeOK /\ Shape /\ Solo /\ Unique /\ Follows /\ Exchanged /\ Good /\ NoneStray
  BY DEF CalmInv
<1>1. EndFacts(q) /\ calm' = calm /\ Busy(q) /\ request[q].pc = "answer"
  BY DEF Receive, EndFacts, Busy
<1>2. /\ \A p \in Requests : p # q => request'[p] = request[p]
      /\ request'[q].answer = None
      /\ \A p \in Requests :
           /\ Exchange(p)' => p # q /\ Exchange(p)
           /\ p # q /\ Exchange(p) => Exchange(p)'
      /\ Shape' /\ Solo' /\ Exchanged'
  BY <1>1, EndRest
<1>3. rows' = rows /\ owner' = owner /\ revoked' = revoked /\ expired' = expired
  BY <1>1 DEF EndFacts, dbVars
<1>4. /\ rows \in Nat /\ rows <= MaxTokens /\ None \notin 0..rows /\ None # NoToken
      /\ \A b \in Browsers : cookie[b] \in 0..rows
      /\ b0 \in Browsers
      /\ \A p \in Requests : request[p].answer \in 0..rows \cup {None}
  BY <1>0, <1>1, Typed, SessionConstantsAssumption DEF NoToken, TypeOK
<1>5. /\ \A b \in Browsers : b # b0 \/ ans = None => cookie'[b] = cookie[b]
      /\ ans # None => cookie'[b0] = ans
      /\ left \subseteq left'
      /\ request[q].kind = "login" /\ ans \in Tokens /\ cookie[b0] # NoToken
           => cookie[b0] \in left'
  BY <1>0, <1>4 DEF Receive, TypeOK
<1>6. /\ request[q].kind = "login" => ans # NoToken
      /\ request[q].kind # "login" => ans # None
      /\ ans \in 1..rows => owner[ans] = request[q].user
  <2>1. ShapeOf(request[q])
    BY <1>0 DEF Shape
  <2> QED
    BY <1>1, <2>1 DEF ShapeOf
<1>a. \A p \in Requests :
        request'[p].answer = None \/ (p # q /\ request'[p].answer = request[p].answer)
  BY <1>2
<1> HIDE DEF b0
<1>7. Unique'
  <2>1. ASSUME NEW c \in Requests, NEW d \in Requests,
               request'[c].answer = request'[d].answer, request'[d].answer \in 1..rows
        PROVE  c = d
    <3>1. request[c].answer = request[d].answer /\ request[d].answer \in 1..rows
      BY <1>4, <1>a, <2>1
    <3> QED
      BY <1>0, <3>1 DEF Unique
  <2>2. ASSUME NEW b \in Browsers, NEW p \in Requests, cookie'[b] = request'[p].answer
        PROVE  cookie'[b] = NoToken
    <3>1. cookie'[b] \in 0..rows
      BY <1>4, <1>5
    <3>2. p # q /\ cookie'[b] = request[p].answer
      BY <1>4, <1>a, <2>2, <3>1
    <3>3. CASE b # b0 \/ ans = None
      BY <1>0, <1>5, <3>2, <3>3 DEF Unique
    <3>4. CASE b = b0 /\ ans # None
      <4>1. ans = request[p].answer
        BY <1>5, <3>2, <3>4
      <4>2. ans \notin 1..rows
        BY <1>0, <3>2, <4>1 DEF Unique
      <4> QED
        BY <1>4, <1>5, <3>1, <3>4, <4>2 DEF NoToken
    <3> QED
      BY <3>3, <3>4
  <2>3. ASSUME NEW b \in Browsers, NEW c \in Browsers, cookie'[b] = cookie'[c], cookie'[b] # NoToken
        PROVE  b = c
    <3>1. CASE ans = None
      BY <1>0, <1>5, <2>3, <3>1 DEF Unique
    <3>2. CASE ans # None
      <4>1. ASSUME NEW d \in Browsers, d # b0, cookie'[d] = cookie'[b0]
            PROVE  cookie'[d] = NoToken
        BY <1>0, <1>5, <3>2, <4>1 DEF Unique
      <4>2. ASSUME b # b0, c # b0
            PROVE  b = c
        BY <1>0, <1>5, <2>3, <4>2 DEF Unique
      <4> QED
        BY <2>3, <4>1, <4>2
    <3> QED
      BY <3>1, <3>2
  <2> QED
    BY <1>3, <2>1, <2>2, <2>3 DEF Unique
<1>8. Follows'
  <2>1. ASSUME NEW p \in Requests, Exchange(p)',
               \/ request'[p].user \in calm
               \/ /\ cookie'[request'[p].browser] # NoToken
                  /\ owner[cookie'[request'[p].browser]] \in calm
        PROVE  cookie'[request'[p].browser] = request'[p].token
    <3>1. Exchange(p) /\ request'[p] = request[p] /\ p # q /\ Busy(p)
      BY <1>2, <2>1 DEF Exchange
    <3>2. request[p].browser \in Browsers
      BY <1>0, <3>1, Typed
    <3>3. CASE request[p].browser # b0 \/ ans = None
      BY <1>0, <1>5, <2>1, <3>1, <3>2, <3>3 DEF Follows
    <3>4. CASE request[p].browser = b0 /\ ans # None
      <4>1. request[p].user \notin calm /\ request[q].user \notin calm
        BY <1>0, <1>1, <3>1, <3>4 DEF Solo, b0
      <4>2. ans # NoToken /\ owner[ans] \in calm
        BY <1>5, <2>1, <3>1, <3>4, <4>1
      <4>3. ans \in 1..rows
        BY <1>4, <3>4, <4>2 DEF NoToken
      <4> QED
        BY <1>6, <4>1, <4>2, <4>3
    <3> QED
      BY <3>3, <3>4
  <2> QED
    BY <1>1, <1>3, <2>1 DEF Follows
<1>9. Good'
  <2>1. ASSUME NEW p \in Requests, request'[p].answer \in 1..rows,
               owner[request'[p].answer] \in calm
        PROVE  request'[p].answer \notin revoked
    <3>1. request'[p].answer = request[p].answer
      BY <1>4, <1>a, <2>1
    <3> QED
      BY <1>0, <2>1, <3>1 DEF Good
  <2>2. ASSUME NEW b \in Browsers, cookie'[b] # NoToken, owner[cookie'[b]] \in calm,
               cookie'[b] \in revoked
        PROVE  \E p \in Requests : Exchange(p)' /\ request'[p].browser = b
    <3>1. CASE b = b0 /\ ans # None
      <4>1. ans \in 1..rows /\ owner[ans] \in calm /\ ans \in revoked
        BY <1>4, <1>5, <2>2, <3>1 DEF NoToken
      <4> QED
        BY <1>0, <4>1 DEF Good
    <3>2. CASE b # b0 \/ ans = None
      <4>1. cookie'[b] = cookie[b]
        BY <1>5, <3>2
      <4>2. PICK p \in Requests : Exchange(p) /\ request[p].browser = b
        BY <1>0, <2>2, <4>1 DEF Good
      <4>3. p # q
        BY <1>6, <3>2, <4>2 DEF Exchange, b0
      <4> QED
        BY <1>2, <4>2, <4>3
    <3> QED
      BY <3>1, <3>2
  <2> QED
    BY <1>1, <1>3, <2>1, <2>2 DEF Good
<1>10. NoneStray'
  <2>1. ASSUME NEW t \in 1..rows, owner[t] \in calm, Live(t)
        PROVE  t \in left' \/ Held(t)'
    <3>1. t \in left \/ Held(t)
      BY <1>0, <2>1 DEF NoneStray
    <3>2. ASSUME NEW b \in Browsers, cookie[b] = t
          PROVE  t \in left' \/ Held(t)'
      <4>1. CASE b # b0 \/ ans = None
        <5>1. cookie'[b] = t
          BY <1>5, <3>2, <4>1
        <5> QED
          BY <5>1 DEF Held
      <4>2. CASE b = b0 /\ ans # None
        <5>0. cookie[b0] # NoToken /\ cookie[b0] = t
          BY <1>4, <3>2, <4>2 DEF NoToken
        <5>1. CASE request[q].kind = "login"
          <6>1. ans \in Tokens
            BY <1>4, <1>6, <4>2, <5>1, SessionConstantsAssumption DEF Tokens, NoToken
          <6> QED
            BY <1>5, <5>0, <5>1, <6>1
        <5>2. CASE request[q].kind # "login"
          <6>1. Exchange(q)
            BY <1>1, <5>2 DEF Exchange
          <6>2. request[q].token = t
            BY <1>0, <2>1, <5>0, <6>1 DEF Follows, b0
          <6>3. owner[request[q].token] = request[q].user
            BY <6>1, <6>2, ServeFacts DEF Exchange, Busy, NoToken
          <6>4. ~Live(t)
            BY <1>1, <2>1, <5>2, <6>2, <6>3, ServeFacts DEF ExchangedBy
          <6> QED
            BY <2>1, <6>4
        <5> QED
          BY <5>1, <5>2
      <4> QED
        BY <4>1, <4>2
    <3>3. ASSUME NEW p \in Requests, request[p].answer = t
          PROVE  Held(t)'
      <4>1. CASE p = q
        <5>1. ans # None /\ ans = t
          BY <1>4, <3>3, <4>1
        <5> QED
          BY <1>4, <1>5, <5>1 DEF Held
      <4>2. CASE p # q
        <5>1. request'[p].answer = t
          BY <1>2, <3>3, <4>2
        <5> QED
          BY <5>1 DEF Held
      <4> QED
        BY <4>1, <4>2
    <3> QED
      BY <1>5, <3>1, <3>2, <3>3 DEF Held
  <2> QED
    BY <1>1, <1>3, <2>1 DEF NoneStray, Live
<1> QED
  BY <1>2, <1>7, <1>8, <1>9, <1>10 DEF CalmInv

LEMMA SendCalm ==
    ASSUME CalmInv, TypeOK', NEW q \in Requests, NEW b \in Browsers, NEW u \in Users \cup {None},
           NEW kind \in {"login", "refresh", "logout"},
           NEW label \in {"issue", "find", "answer"}, label = "issue" <=> kind = "login",
           label = "find" => cookie[b] # NoToken /\ u = owner[cookie[b]],
           label = "answer" => cookie[b] = NoToken /\ u = None,
           Send(q, b, kind, label, u)
    PROVE  CalmInv'
<1> DEFINE new == [pc |-> label, kind |-> kind, browser |-> b, user |-> u,
                   token |-> cookie[b],
                   answer |-> IF label = "answer" THEN NoToken ELSE None]
<1>0. TypeOK /\ Shape /\ Solo /\ Unique /\ Follows /\ Exchanged /\ Good /\ NoneStray
  BY DEF CalmInv
<1>1. /\ \A p \in Requests : p # q => request'[p] = request[p]
      /\ request'[q] = new /\ request[q].pc = "idle"
  BY <1>0 DEF Send, TypeOK
<1>2. /\ rows' = rows /\ owner' = owner /\ revoked' = revoked /\ expired' = expired
      /\ cookie' = cookie /\ left' = left /\ calm' \subseteq calm
  BY DEF Send, dbVars
<1>3. request[q] = Idle /\ request[q].answer = None
  BY <1>0, <1>1 DEF Shape, ShapeOf, Idle
<1>4. /\ rows \in Nat /\ None \notin 0..rows
      /\ \A c \in Browsers : cookie[c] \in 0..rows
      /\ \A p \in Requests : Busy(p) => request[p].browser \in Browsers
  BY <1>0, Typed
<1>5. /\ ~Exchange(q) /\ ~Busy(q) /\ Busy(q)'
      /\ \A p \in Requests : p # q => (Busy(p)' <=> Busy(p)) /\ (Exchange(p)' <=> Exchange(p))
  BY <1>1 DEF Exchange, Busy
\* A browser that was not quiet costs the users of its requests their calm.
<1>6. ASSUME NEW p \in Requests, request[p].browser = b
      PROVE  request[p].user \notin calm' /\ u \notin calm'
  BY <1>6 DEF Send, BusyFor
<1>7. Shape'
  <2>1. ASSUME NEW p \in Requests PROVE ShapeOf(request[p])'
    <3>1. CASE p = q
      <4>1. request'[p] = new
        BY <1>1, <3>1
      <4>2. label = "find" => cookie[b] \in 1..rows
        BY <1>4 DEF NoToken
      <4>3. None \notin 1..rows /\ NoToken \notin 1..rows /\ None # NoToken
        BY <1>4 DEF NoToken
      <4> QED
        BY <1>2, <4>1, <4>2, <4>3 DEF ShapeOf
    <3>2. CASE p # q
      <4>1. ShapeOf(request[p]) /\ request'[p] = request[p]
        BY <1>0, <1>1, <3>2 DEF Shape
      <4> QED
        BY <1>2, <4>1 DEF ShapeOf
    <3> QED
      BY <3>1, <3>2
  <2> QED
    BY <2>1 DEF Shape
<1>8. Solo'
  <2>1. ASSUME NEW c \in Requests, NEW d \in Requests, c # d, Busy(c)', Busy(d)',
               request'[c].browser = request'[d].browser
        PROVE  request'[d].user \notin calm'
    <3>1. CASE c = q
      <4>1. request'[d] = request[d] /\ request'[c].browser = b
        BY <1>1, <2>1, <3>1
      <4> QED
        BY <1>6, <2>1, <4>1
    <3>2. CASE d = q
      <4>1. request'[c] = request[c] /\ request'[d].browser = b /\ request'[d].user = u
        BY <1>1, <2>1, <3>2
      <4> QED
        BY <1>6, <2>1, <4>1
    <3>3. CASE c # q /\ d # q
      <4>1. request'[c] = request[c] /\ request'[d] = request[d] /\ Busy(c) /\ Busy(d)
        BY <1>1, <1>5, <2>1, <3>3
      <4> QED
        BY <1>0, <1>2, <2>1, <4>1 DEF Solo
    <3> QED
      BY <3>1, <3>2, <3>3
  <2> QED
    BY <2>1 DEF Solo
<1>a. /\ \A p \in Requests : \/ request'[p].answer = request[p].answer
                             \/ request'[p].answer = NoToken
      /\ \A p \in Requests, t \in 1..rows : request[p].answer = t => request'[p].answer = t
      /\ NoToken \notin 1..rows
  BY <1>1, <1>3, <1>4 DEF NoToken
<1>9. Unique'
  BY <1>0, <1>2, <1>a DEF Unique
<1>10. Follows'
  <2>1. ASSUME NEW p \in Requests, Exchange(p)',
               \/ request'[p].user \in calm'
               \/ /\ cookie[request'[p].browser] # NoToken
                  /\ owner[cookie[request'[p].browser]] \in calm'
        PROVE  cookie[request'[p].browser] = request'[p].token
    <3>1. CASE p = q
      BY <1>1, <3>1
    <3>2. CASE p # q
      <4>1. Exchange(p) /\ request'[p] = request[p]
        BY <1>1, <1>5, <2>1, <3>2
      <4> QED
        BY <1>0, <1>2, <2>1, <4>1 DEF Follows
    <3> QED
      BY <3>1, <3>2
  <2> QED
    BY <1>2, <2>1 DEF Follows
<1>11. Exchanged'
  <2>1. ASSUME NEW p \in Requests PROVE ExchangedBy(request[p])'
    <3>1. CASE p = q
      <4>1. request'[p] = new
        BY <1>1, <3>1
      <4>2. kind # "login" /\ u \in calm' => cookie[b] \notin revoked
        <5>1. SUFFICES ASSUME kind # "login", u \in calm', cookie[b] \in revoked PROVE FALSE
          OBVIOUS
        <5>2. label = "find"
          BY <1>0, <1>2, <5>1, Typed
        <5>3. PICK r \in Requests : request[r].browser = b
          BY <1>0, <1>2, <5>1, <5>2 DEF Good
        <5> QED
          BY <1>6, <5>1, <5>3
      <4> QED
        BY <1>0, <1>2, <4>1, <4>2, Typed DEF ExchangedBy
    <3>2. CASE p # q
      <4>1. ExchangedBy(request[p]) /\ request'[p] = request[p]
        BY <1>0, <1>1, <3>2 DEF Exchanged
      <4> QED
        BY <1>2, <4>1 DEF ExchangedBy, Live
    <3> QED
      BY <3>1, <3>2
  <2> QED
    BY <2>1 DEF Exchanged
<1>12. Good'
  <2>1. ASSUME NEW c \in Browsers, cookie[c] # NoToken, owner[cookie[c]] \in calm',
               cookie[c] \in revoked
        PROVE  \E p \in Requests : Exchange(p)' /\ request'[p].browser = c
    <3>1. PICK p \in Requests : Exchange(p) /\ request[p].browser = c
      BY <1>0, <1>2, <2>1 DEF Good
    <3>2. p # q
      BY <1>5, <3>1
    <3> QED
      BY <1>1, <1>5, <3>1, <3>2
  <2>2. ASSUME NEW p \in Requests, request'[p].answer \in 1..rows,
               owner[request'[p].answer] \in calm'
        PROVE  request'[p].answer \notin revoked
    BY <1>0, <1>2, <1>a, <2>2 DEF Good
  <2> QED
    BY <1>2, <2>1, <2>2 DEF Good
<1>13. NoneStray'
  BY <1>0, <1>2, <1>a DEF NoneStray, Held, Live
<1> QED
  BY <1>7, <1>8, <1>9, <1>10, <1>11, <1>12, <1>13 DEF CalmInv

LEMMA ExpireCalm ==
    ASSUME CalmInv, TypeOK', NEW t \in Tokens, Expire(t)
    PROVE  CalmInv'
<1>0. TypeOK /\ Shape /\ Solo /\ Unique /\ Follows /\ Exchanged /\ Good /\ NoneStray
  BY DEF CalmInv
<1>1. /\ expired \subseteq expired'
      /\ UNCHANGED <<rows, owner, revoked, cookie, left, request, calm>>
  BY DEF Expire
<1>2. Shape' /\ Solo' /\ Unique' /\ Follows' /\ Good'
  BY <1>0, <1>1 DEF Shape, ShapeOf, Solo, Unique, Follows, Good, Busy, Exchange
<1>3. Exchanged' /\ NoneStray'
  BY <1>0, <1>1 DEF Exchanged, ExchangedBy, NoneStray, Held, Live
<1> QED
  BY <1>2, <1>3 DEF CalmInv

LEMMA NextCalm == CalmInv /\ TypeOK' /\ [Next]_vars => CalmInv'
<1> SUFFICES ASSUME CalmInv, TypeOK', [Next]_vars
             PROVE  CalmInv'
  OBVIOUS
<1>1. ASSUME NEW q \in Requests, NEW b \in Browsers, SendRefresh(q, b) \/ SendLogout(q, b)
      PROVE  CalmInv'
  <2>1. CASE cookie[b] # NoToken
    <3>1. cookie[b] \in 1..rows
      BY <2>1, Typed DEF CalmInv, NoToken
    <3>2. owner[cookie[b]] \in Users
      BY <3>1 DEF CalmInv, TypeOK
    <3>3. \E kind \in {"refresh", "logout"} : Send(q, b, kind, "find", owner[cookie[b]])
      BY <1>1, <2>1 DEF SendRefresh, SendLogout
    <3> QED
      BY <2>1, <3>2, <3>3, SendCalm
  <2>2. CASE cookie[b] = NoToken
    <3>1. Send(q, b, "logout", "answer", None)
      BY <1>1, <2>2 DEF SendRefresh, SendLogout
    <3> QED
      BY <2>2, <3>1, SendCalm
  <2> QED
    BY <2>1, <2>2
<1>2. ASSUME NEW q \in Requests, NEW b \in Browsers, NEW u \in Users, SendLogin(q, b, u)
      PROVE  CalmInv'
  BY <1>2, SendCalm DEF SendLogin
<1>3. ASSUME NEW q \in Requests, Serve(q) \/ Receive(q) \/ Lose(q)
      PROVE  CalmInv'
  BY <1>3, FindCalm, RevokeAllCalm, RevokeCalm, IssueCalm, ReceiveCalm, LoseCalm DEF Serve
<1>4. ASSUME NEW t \in Tokens, Expire(t)
      PROVE  CalmInv'
  BY <1>4, ExpireCalm
<1>5. CASE UNCHANGED vars
  BY <1>5 DEF vars, dbVars, CalmInv, TypeOK, RequestRecords, Shape, ShapeOf, Solo, Unique,
     Follows, Exchanged, ExchangedBy, Good, NoneStray, Held, Live, Busy, Exchange
<1> QED
  BY <1>1, <1>2, <1>3, <1>4, <1>5 DEF Next

(***************************************************************************)
(* A user whose browsers send one request at a time, none of which fails,  *)
(* keeps all sessions, and has no live token that nobody holds, whatever   *)
(* the other users do and whatever happens to them.                        *)
(***************************************************************************)
THEOREM CalmStaysCalm == Spec => []CalmSessions
<1>1. CalmInv => CalmSessions
  <2> SUFFICES ASSUME CalmInv, NEW t \in 1..rows, owner[t] \in calm
               PROVE  /\ Live(t) => t \in left \/ Held(t)
                      /\ \A b \in Browsers : cookie[b] = t /\ BusyFor(b) = {} => t \notin revoked
    BY DEF CalmSessions
  <2>1. Live(t) => t \in left \/ Held(t)
    BY DEF CalmInv, NoneStray
  <2>2. ASSUME NEW b \in Browsers, cookie[b] = t, BusyFor(b) = {}, t \in revoked
        PROVE  FALSE
    <3>1. t # NoToken
      BY DEF NoToken
    <3>2. PICK q \in Requests : request[q].browser = b
      BY <2>2, <3>1 DEF CalmInv, Good
    <3> QED
      BY <2>2, <3>2 DEF BusyFor
  <2> QED
    BY <2>1, <2>2
<1>2. RotationInv => TypeOK
  BY DEF RotationInv
<1> QED
  BY InitRotation, NextRotation, InitCalm, NextCalm, <1>1, <1>2, PTL DEF Spec
=============================================================================
