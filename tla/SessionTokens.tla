---------------------------- MODULE SessionTokens ----------------------------
(***************************************************************************)
(* Sessions.  A browser holds one refresh token in a cookie and exchanges  *)
(* it for the next one: the API looks the token up, revokes it, inserts a  *)
(* successor, and sets the cookie in its answer.  These are statements of  *)
(* their own, several requests of a browser may be in flight (tabs,        *)
(* retries), every statement may fail, and every answer may be lost.       *)
(*                                                                         *)
(* The access token of an answer is signed and not stored; it is left out. *)
(***************************************************************************)
EXTENDS Integers, FiniteSets

CONSTANTS
    Browsers,
    Users,
    Requests,    \* requests that may be in flight at a time
    MaxTokens,   \* bound on rows of refresh_tokens
    MaxFaults,   \* bound on failing statements and lost answers
    None

ASSUME SessionConstantsAssumption ==
    /\ MaxTokens \in Nat /\ MaxFaults \in Nat
    /\ None \notin Users \cup Browsers /\ None \notin Nat

Tokens == 1..MaxTokens
NoToken == 0

VARIABLES
    \* Postgres: refresh_tokens, in the order of insertion
    rows,        \* how many there are
    owner,       \* user_id
    revoked,     \* rows with a revoked_at
    expired,     \* rows whose expires_at has passed
    \* the browsers
    cookie,      \* the refresh token a browser holds, or NoToken
    \* the requests in flight
    request,
    \* history and budgets
    parent,      \* the token a row was issued for, or NoToken
    raced,       \* tokens that a refresh found live when another one that had
                 \* found them live was still to revoke them
    left,        \* tokens a browser gave up for those of another login
    calm,        \* users whose browsers sent one request at a time, none of
                 \* which failed
    faults

dbVars == <<rows, owner, revoked, expired, parent>>
vars == <<dbVars, cookie, request, raced, left, calm, faults>>

Idle == [pc |-> "idle", kind |-> "none", browser |-> None, user |-> None,
         token |-> NoToken, answer |-> None]

Labels == {"idle", "find", "revokeAll", "revoke", "issue", "answer"}

\* answer: what an answer sets the cookie to, or None if it does not.
RequestRecords == [pc : Labels, kind : {"none", "login", "refresh", "logout"},
                   browser : Browsers \cup {None}, user : Users \cup {None},
                   token : 0..rows, answer : 0..rows \cup {None}]

TypeOK ==
    /\ rows \in 0..MaxTokens
    /\ owner \in [1..rows -> Users]
    /\ parent \in [1..rows -> 0..rows]
    /\ revoked \subseteq 1..rows /\ expired \subseteq 1..rows
    /\ cookie \in [Browsers -> 0..rows]
    /\ request \in [Requests -> RequestRecords]
    /\ \A q \in Requests :
         /\ request[q].pc # "idle"
            => request[q].browser \in Browsers
         /\ request[q].pc \notin {"idle", "answer"} => request[q].user \in Users
         /\ request[q].pc \in {"find", "revokeAll", "revoke"} => request[q].token # NoToken
    /\ raced \subseteq 1..rows /\ left \subseteq 1..rows /\ calm \subseteq Users
    /\ faults \in 0..MaxFaults

Init ==
    /\ rows = 0 /\ owner = <<>> /\ parent = <<>>
    /\ revoked = {} /\ expired = {}
    /\ cookie = [b \in Browsers |-> NoToken]
    /\ request = [q \in Requests |-> Idle]
    /\ raced = {} /\ left = {} /\ calm = Users /\ faults = 0

-----------------------------------------------------------------------------

BusyFor(b) == {request[q].user : q \in {p \in Requests : request[p].browser = b}}

\* A browser sends a request with the cookie it has; where the handler makes no
\* call, it is answered as it arrives.
Send(q, b, kind, label, u) ==
    /\ request[q].pc = "idle"
    /\ request' = [request EXCEPT ![q] =
         [pc |-> label, kind |-> kind, browser |-> b, user |-> u,
          token |-> cookie[b], answer |-> IF label = "answer" THEN NoToken ELSE None]]
    /\ calm' = IF BusyFor(b) = {} THEN calm ELSE calm \ (BusyFor(b) \cup {u})
    /\ UNCHANGED <<dbVars, cookie, raced, left, faults>>

\* Limits, the row of the user and the password only end a login early.
SendLogin(q, b, u) == rows < MaxTokens /\ Send(q, b, "login", "issue", u)

SendRefresh(q, b) ==
    cookie[b] # NoToken /\ rows < MaxTokens /\ Send(q, b, "refresh", "find", owner[cookie[b]])

\* Without a token to revoke, a logout only clears the cookie.
SendLogout(q, b) ==
    \/ cookie[b] # NoToken /\ Send(q, b, "logout", "find", owner[cookie[b]])
    \/ cookie[b] = NoToken /\ Send(q, b, "logout", "answer", None)

\* A statement of request q fails, or its answer is lost.
Fault(q) == faults < MaxFaults /\ faults' = faults + 1 /\ calm' = calm \ {request[q].user}
NoFault == UNCHANGED <<faults, calm>>

At(q, label) == request' = [request EXCEPT ![q].pc = label]

Answer(q, what) == request' = [request EXCEPT ![q].pc = "answer", ![q].answer = what]

\* What a request answers when a statement fails: Login writes no cookie,
\* Refresh clears it whatever the error was, and so does Logout.
OnError(q) == Answer(q, IF request[q].kind = "login" THEN None ELSE NoToken)

Live(t) == t \notin revoked /\ t \notin expired

\* Another refresh has found the token of q live and has not revoked it yet.
Raced(q) ==
    \E p \in Requests \ {q} :
        request[p].kind = "refresh" /\ request[p].pc = "revoke"
        /\ request[p].token = request[q].token

\* FindByTokenHash, and what Refresh and Logout make of the row.
Find(q) ==
    LET r == request[q] IN
    /\ r.pc = "find"
    /\ \/ /\ r.kind = "refresh"
          /\ IF r.token \in revoked THEN At(q, "revokeAll")
             ELSE IF r.token \in expired THEN OnError(q)
             ELSE At(q, "revoke")
          /\ raced' = IF Live(r.token) /\ Raced(q) THEN raced \cup {r.token} ELSE raced
          /\ NoFault
       \/ r.kind = "logout" /\ At(q, "revoke") /\ NoFault /\ UNCHANGED raced
       \/ OnError(q) /\ Fault(q) /\ UNCHANGED raced
    /\ UNCHANGED <<dbVars, cookie, left>>

\* A token that was revoked before: all tokens of its user are, and an error
\* of that statement is ignored.
\* Mutant: the statement has lost its condition on the user.
OwnedByAnyone(u) == 1..rows

OwnedBy(u) == {t \in 1..rows : owner[t] = u}

RevokeAll(q) ==
    /\ request[q].pc = "revokeAll"
    /\ \/ revoked' = revoked \cup OwnedBy(owner[request[q].token]) /\ NoFault
       \/ UNCHANGED revoked /\ Fault(q)
    /\ OnError(q)
    /\ UNCHANGED <<rows, owner, expired, parent, cookie, raced, left>>

\* Where Refresh and Logout go after the token is revoked.
AfterRevoke(q) == IF request[q].kind = "refresh" THEN At(q, "issue") ELSE Answer(q, NoToken)

\* Mutant: Refresh goes on with a new token when Revoke fails.
IssuesAnyway(q) == IF request[q].kind = "refresh" THEN At(q, "issue") ELSE OnError(q)

AfterFailedRevoke(q) == OnError(q)

\* Revoke: no error if the row was revoked already.
Revoke(q) ==
    /\ request[q].pc = "revoke"
    /\ \/ /\ revoked' = revoked \cup {request[q].token}
          /\ AfterRevoke(q) /\ NoFault
       \/ /\ revoked' \in {revoked, revoked \cup {request[q].token}}
          /\ AfterFailedRevoke(q) /\ Fault(q)
    /\ UNCHANGED <<rows, owner, expired, parent, cookie, raced, left>>

\* issueTokens: a fresh token for the user of the login or of the old token.
Inserted(q) ==
    LET r == request[q] IN
    /\ rows < MaxTokens
    /\ rows' = rows + 1
    /\ owner' = [t \in 1..rows' |-> IF t = rows' THEN r.user ELSE owner[t]]
    /\ parent' = [t \in 1..rows' |-> IF t # rows' THEN parent[t]
                                    ELSE IF r.kind = "login" THEN NoToken ELSE r.token]
    /\ UNCHANGED <<revoked, expired>>

\* Mutant: the token is answered although its row was not inserted.
AnswersAnyway(q) == Answer(q, rows + 1)

AfterFailedIssue(q) == OnError(q)

Issue(q) ==
    /\ request[q].pc = "issue"
    /\ \/ Inserted(q) /\ Answer(q, rows + 1) /\ NoFault
       \/ UNCHANGED dbVars /\ AfterFailedIssue(q) /\ Fault(q)
       \/ Inserted(q) /\ OnError(q) /\ Fault(q)
    /\ UNCHANGED <<cookie, raced, left>>

\* The browser reads an answer.
Receive(q) ==
    LET r == request[q] IN
    /\ r.pc = "answer"
    /\ cookie' = [cookie EXCEPT ![r.browser] = IF r.answer = None THEN @ ELSE r.answer]
    /\ left' = IF r.kind = "login" /\ r.answer \in Tokens /\ cookie[r.browser] # NoToken
               THEN left \cup {cookie[r.browser]} ELSE left
    /\ request' = [request EXCEPT ![q] = Idle]
    /\ UNCHANGED <<dbVars, raced, calm, faults>>

\* The connection breaks, or the API dies: the request goes no further, and
\* the browser has no answer.
Lose(q) ==
    /\ request[q].pc # "idle"
    /\ request' = [request EXCEPT ![q] = Idle]
    /\ Fault(q)
    /\ UNCHANGED <<dbVars, cookie, raced, left>>

\* Thirty days pass for a token; to a revoked one this makes no difference.
Expire(t) ==
    /\ t \in 1..rows \ (expired \cup revoked)
    /\ expired' = expired \cup {t}
    /\ UNCHANGED <<rows, owner, revoked, parent, cookie, raced, left, request, calm, faults>>

Serve(q) == Find(q) \/ RevokeAll(q) \/ Revoke(q) \/ Issue(q)

Next ==
    \/ \E q \in Requests, b \in Browsers :
         \/ SendRefresh(q, b) \/ SendLogout(q, b)
         \/ \E u \in Users : SendLogin(q, b, u)
    \/ \E q \in Requests : Serve(q) \/ Receive(q) \/ Lose(q)
    \/ \E t \in Tokens : Expire(t)

Spec == Init /\ [][Next]_vars

-----------------------------------------------------------------------------
(* Properties.                                                             *)

\* Rotation (auth.go:147-170), what the code has of it: a token is exchanged
\* after it was revoked, whatever fails, and only once, however often and late
\* requests bring it again, unless a second refresh looked it up before the
\* first one revoked it.  Such a second one is not noticed: see OneSuccessor.
ExchangedOnce ==
    \A t \in 1..rows : parent[t] # NoToken =>
        /\ parent[t] \in revoked
        /\ parent[t] \in raced \/ \A s \in 1..rows : parent[s] = parent[t] => s = t

\* "dua pihak balapan pakai token yang sama" (auth.go:147-152), "reuse of an
\* already-rotated token is treated as a theft signal" (README.md:132-135): of
\* two parties that use one token, only one gets the next.
OneSuccessor ==
    \A s, t \in 1..rows : parent[s] = parent[t] /\ parent[t] # NoToken => s = t

\* What is live for a user is what the user's browsers hold or are about to
\* receive, as long as each of them sends one request at a time and no call
\* failed: no token is stranded by a refresh or survives a logout, no browser
\* is left with a revoked one, and no other user's trouble changes that.
Held(t) ==
    \/ \E b \in Browsers : cookie[b] = t
    \/ \E q \in Requests : request[q].answer = t

CalmSessions ==
    \A t \in 1..rows : owner[t] \in calm =>
        /\ Live(t) => t \in left \/ Held(t)
        /\ \A b \in Browsers : cookie[b] = t /\ BusyFor(b) = {} => t \notin revoked
=============================================================================
