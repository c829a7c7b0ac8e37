------------------------- MODULE RateLimiter_proofs -------------------------
(***************************************************************************)
(* Proofs about RateLimiter, for every window, limit and number of calls.  *)
(***************************************************************************)
EXTENDS RateLimiter, FiniteSetTheorems, TLAPS

-----------------------------------------------------------------------------
(* Type correctness.                                                       *)

LEMMA InitType == Init => TypeOK
BY WindowAssumption, LimiterBoundsAssumption
   DEF Init, TypeOK, Windows, Seconds, Idle, Calls

\* Counting a call keeps both counters natural.
LEMMA CountType ==
    ASSUME TypeOK, NEW r \in Requests, CountOne(r)
    PROVE  count' \in [Windows -> Nat] /\ punctual' \in [Windows -> Nat]
<1>1. call[r].win \in Windows
  BY DEF TypeOK, Calls
<1>2. count \in [Windows -> Nat] /\ punctual \in [Windows -> Nat]
  BY DEF TypeOK
<1>3. QED BY <1>1, <1>2 DEF CountOne

\* Replacing one call by one of the right type that is not ahead of the clock.
LEMMA CallType ==
    ASSUME TypeOK, NEW r \in Requests, NEW c \in Calls, c.win <= win,
           call' = [call EXCEPT ![r] = c]
    PROVE  call' \in [Requests -> Calls] /\ (\A q \in Requests : call'[q].win <= win)
BY DEF TypeOK

LEMMA BeforeType ==
    ASSUME NEW f \in [Windows -> Nat], NEW w \in Windows
    PROVE  Before(f, w) \in Nat
BY LimiterBoundsAssumption DEF Before, Windows

LEMMA StepType == TypeOK /\ [Next]_vars => TypeOK'
<1> SUFFICES ASSUME TypeOK, [Next]_vars PROVE TypeOK'
  OBVIOUS
<1> USE WindowAssumption, LimitAssumption, LimiterBoundsAssumption
<1>1. CASE Tick
  <2>1. win' \in Windows /\ elapsed' \in Seconds /\ win <= win'
    BY <1>1 DEF Tick, TypeOK, Windows, Seconds
  <2>2. count' \in [Windows -> Nat]
    BY <1>1 DEF Tick, TypeOK
  <2>3. expiry' \in [Windows -> (Nat \X Seconds) \cup {None}]
    BY <1>1 DEF Tick, TypeOK
  <2>4. UNCHANGED <<call, punctual, admitted, hit, calls, faults>>
    BY <1>1 DEF Tick
  <2>5. \A q \in Requests : call[q].win <= win'
    <3>1. \A q \in Requests : call[q].win \in Nat /\ call[q].win <= win
      BY DEF TypeOK, Calls, Windows
    <3>2. win \in Nat /\ win' \in Nat
      BY <2>1 DEF TypeOK, Windows
    <3>3. QED BY <2>1, <3>1, <3>2
  <2>6. QED BY <2>1, <2>2, <2>3, <2>4, <2>5 DEF TypeOK
<1>2. ASSUME NEW r \in Requests, Enter(r) PROVE TypeOK'
  <2> DEFINE c == [call[r] EXCEPT !.pc = "incr", !.win = win, !.elapsed = elapsed]
  <2>1. c \in Calls /\ c.win <= win
    <3>1. win \in Windows /\ elapsed \in Seconds /\ win <= win /\ call[r] \in Calls
      BY DEF TypeOK, Windows
    <3>2. QED BY <3>1 DEF Calls
  <2>2. call' = [call EXCEPT ![r] = c]
    BY <1>2 DEF Enter
  <2>3. call' \in [Requests -> Calls] /\ (\A q \in Requests : call'[q].win <= win)
    BY <2>1, <2>2, CallType
  <2>4. calls' \in 0..MaxCalls
    BY <1>2 DEF Enter, TypeOK
  <2>5. UNCHANGED <<clock, redis, punctual, admitted, hit, faults>>
    BY <1>2 DEF Enter
  <2>6. QED BY <2>3, <2>4, <2>5 DEF TypeOK, clock, redis
<1>3. ASSUME NEW r \in Requests, Incr(r) PROVE TypeOK'
  <2> DEFINE c == [call[r] EXCEPT !.pc = "get", !.rank = count[call[r].win] + 1]
  <2>1. call[r] \in Calls /\ call[r].win <= win /\ count[call[r].win] \in Nat
    BY DEF TypeOK, Calls
  <2>2. c \in Calls /\ c.win <= win
    <3>1. count[call[r].win] + 1 \in Nat
      BY <2>1
    <3>2. QED BY <2>1, <3>1 DEF Calls
  <2>3. call' = [call EXCEPT ![r] = c]
    BY <1>3 DEF Incr
  <2>4. call' \in [Requests -> Calls] /\ (\A q \in Requests : call'[q].win <= win)
    BY <2>2, <2>3, CallType
  <2>5. count' \in [Windows -> Nat] /\ punctual' \in [Windows -> Nat]
    BY <1>3, CountType DEF Incr
  <2>6. UNCHANGED <<clock, expiry, admitted, hit, calls, faults>>
    BY <1>3 DEF Incr
  <2>7. QED BY <2>4, <2>5, <2>6 DEF TypeOK, clock
<1>4. ASSUME NEW r \in Requests, Get(r) PROVE TypeOK'
  <2> DEFINE w == call[r].win
             c == [call[r] EXCEPT !.prev = Before(count, w), !.prompt = (w = win),
                                  !.pc = IF Fresh(call[r].rank) THEN "expire" ELSE "decide"]
  <2>1. call[r] \in Calls /\ w \in Windows /\ w <= win /\ count \in [Windows -> Nat]
    BY DEF TypeOK, Calls
  <2>2. Before(count, w) \in Nat
    BY <2>1, BeforeType
  <2>3. c \in Calls /\ c.win <= win
    BY <2>1, <2>2 DEF Calls
  <2>4. call' = [call EXCEPT ![r] = c]
    BY <1>4 DEF Get
  <2>5. call' \in [Requests -> Calls] /\ (\A q \in Requests : call'[q].win <= win)
    BY <2>3, <2>4, CallType
  <2>6. UNCHANGED <<clock, redis, punctual, admitted, hit, calls, faults>>
    BY <1>4 DEF Get
  <2>7. QED BY <2>5, <2>6 DEF TypeOK, clock, redis
<1>5. ASSUME NEW r \in Requests, Expire(r) PROVE TypeOK'
  <2> DEFINE c == [call[r] EXCEPT !.pc = "decide"]
  <2>1. call[r] \in Calls /\ call[r].win <= win
    BY DEF TypeOK
  <2>2. c \in Calls /\ c.win <= win
    BY <2>1 DEF Calls
  <2>3. call' = [call EXCEPT ![r] = c]
    BY <1>5 DEF Expire
  <2>4. call' \in [Requests -> Calls] /\ (\A q \in Requests : call'[q].win <= win)
    BY <2>2, <2>3, CallType
  <2>5. TwoWindowsOn \in Nat \X Seconds
    BY DEF TwoWindowsOn, TypeOK, Windows
  <2>6. expiry' \in [Windows -> (Nat \X Seconds) \cup {None}]
    BY <1>5, <2>5 DEF Expire, TypeOK
  <2>7. UNCHANGED <<clock, count, punctual, admitted, hit, calls, faults>>
    BY <1>5 DEF Expire
  <2>8. QED BY <2>4, <2>6, <2>7 DEF TypeOK, clock
<1>6. ASSUME NEW r \in Requests, Decide(r) PROVE TypeOK'
  <2>1. Idle \in Calls /\ Idle.win <= win
    BY DEF Idle, Calls, TypeOK, Windows, Seconds
  <2>2. call' = [call EXCEPT ![r] = Idle]
    BY <1>6 DEF Decide
  <2>3. call' \in [Requests -> Calls] /\ (\A q \in Requests : call'[q].win <= win)
    BY <2>1, <2>2, CallType
  <2>4. admitted' \subseteq [win : Windows, elapsed : Seconds, rank : Nat]
    <3>1. call[r] \in Calls
      BY DEF TypeOK
    <3>2. [win |-> call[r].win, elapsed |-> call[r].elapsed, rank |-> call[r].rank]
            \in [win : Windows, elapsed : Seconds, rank : Nat]
      BY <3>1 DEF Calls
    <3>3. QED BY <1>6, <3>2 DEF Decide, TypeOK
  <2>5. UNCHANGED <<clock, redis, punctual, hit, calls, faults>>
    BY <1>6 DEF Decide
  <2>6. QED BY <2>3, <2>4, <2>5 DEF TypeOK, clock, redis
<1>7. ASSUME NEW r \in Requests, Fail(r) PROVE TypeOK'
  <2>1. Idle \in Calls /\ Idle.win <= win
    BY DEF Idle, Calls, TypeOK, Windows, Seconds
  <2>2. call' = [call EXCEPT ![r] = Idle]
    BY <1>7 DEF Fail
  <2>3. call' \in [Requests -> Calls] /\ (\A q \in Requests : call'[q].win <= win)
    BY <2>1, <2>2, CallType
  <2>4. count' \in [Windows -> Nat] /\ punctual' \in [Windows -> Nat]
    BY <1>7, CountType DEF Fail, TypeOK
  <2>5. hit' \subseteq Windows /\ faults' \in 0..MaxFaults
    BY <1>7 DEF Fail, TypeOK, Calls
  <2>6. UNCHANGED <<clock, expiry, admitted, calls>>
    BY <1>7 DEF Fail
  <2>7. QED BY <2>3, <2>4, <2>5, <2>6 DEF TypeOK, clock
<1>8. CASE UNCHANGED vars
  BY <1>8 DEF vars, clock, redis, TypeOK
<1>9. QED BY <1>1, <1>2, <1>3, <1>4, <1>5, <1>6, <1>7, <1>8 DEF Next

(***************************************************************************)
(* Every reachable state of RateLimiter has its type.                      *)
(***************************************************************************)
THEOREM TypeCorrect == Spec => []TypeOK
<1>1. Init => TypeOK
  BY InitType
<1>2. TypeOK /\ [Next]_vars => TypeOK'
  BY StepType
<1>3. QED BY <1>1, <1>2, PTL DEF Spec

-----------------------------------------------------------------------------
(* Every key is on its way to an expiry.                                   *)

LEMMA InitKeys == Init => KeysExpire
BY DEF Init, KeysExpire

LEMMA StepKeys == TypeOK /\ KeysExpire /\ [Next]_vars => KeysExpire'
<1> SUFFICES ASSUME TypeOK, KeysExpire, [Next]_vars, NEW w \in Windows,
                    count'[w] > 0, expiry'[w] = None,
                    w \notin hit'
             PROVE  \E r \in Requests : call'[r].win = w /\ call'[r].rank = 1
                                          /\ call'[r].pc \in {"get", "expire"}
  BY DEF KeysExpire
<1> DEFINE Pending(q) == call[q].win = w /\ call[q].rank = 1 /\ call[q].pc \in {"get", "expire"}
<1>t. /\ count \in [Windows -> Nat]
      /\ expiry \in [Windows -> (Nat \X Seconds) \cup {None}]
      /\ call \in [Requests -> Calls]
  BY DEF TypeOK
<1>k. count[w] > 0 /\ expiry[w] = None /\ w \notin hit => \E q \in Requests : Pending(q)
  BY DEF KeysExpire
<1>1. CASE Tick
  BY <1>1, <1>t, <1>k, NoneAssumption DEF Tick
<1>2. ASSUME NEW r \in Requests, Enter(r)
      PROVE  \E q \in Requests : call'[q].win = w /\ call'[q].rank = 1
                                   /\ call'[q].pc \in {"get", "expire"}
  <2>1. PICK q \in Requests : Pending(q)
    BY <1>2, <1>k DEF Enter, redis
  <2>2. q # r
    BY <1>2, <2>1 DEF Enter
  <2>3. call'[q] = call[q]
    BY <1>2, <2>2, <1>t DEF Enter
  <2>4. QED BY <2>1, <2>3
<1>3. ASSUME NEW r \in Requests, Incr(r)
      PROVE  \E q \in Requests : call'[q].win = w /\ call'[q].rank = 1
                                   /\ call'[q].pc \in {"get", "expire"}
  <2>0. call[r].win \in Windows /\ call[r] \in Calls
    BY <1>t DEF Calls
  <2>1. CASE call[r].win = w /\ count[w] = 0
    <3>1. call'[r] = [call[r] EXCEPT !.pc = "get", !.rank = 1]
      BY <1>3, <1>t, <2>1 DEF Incr
    <3>2. QED BY <2>0, <2>1, <3>1 DEF Calls
  <2>2. CASE ~(call[r].win = w /\ count[w] = 0)
    <3>1. count[w] > 0
      BY <1>3, <1>t, <2>0, <2>2 DEF Incr, CountOne
    <3>2. expiry[w] = None /\ w \notin hit
      BY <1>3 DEF Incr
    <3>3. PICK q \in Requests : Pending(q)
      BY <3>1, <3>2, <1>k
    <3>4. q # r
      BY <1>3, <3>3 DEF Incr
    <3>5. call'[q] = call[q]
      BY <1>3, <3>4, <1>t DEF Incr
    <3>6. QED BY <3>3, <3>5
  <2>3. QED BY <2>1, <2>2
<1>4. ASSUME NEW r \in Requests, Get(r)
      PROVE  \E q \in Requests : call'[q].win = w /\ call'[q].rank = 1
                                   /\ call'[q].pc \in {"get", "expire"}
  <2>1. PICK q \in Requests : Pending(q)
    BY <1>4, <1>k DEF Get, redis
  <2>2. CASE q = r
    <3>1. call'[r] = [call[r] EXCEPT !.prev = Before(count, call[r].win),
                                     !.prompt = (call[r].win = win), !.pc = "expire"]
      BY <1>4, <1>t, <2>1, <2>2 DEF Get, Fresh
    <3>2. call'[r].win = w /\ call'[r].rank = 1 /\ call'[r].pc = "expire"
      BY <1>t, <2>1, <2>2, <3>1 DEF Calls
    <3>3. QED BY <3>2
  <2>3. CASE q # r
    <3>1. call'[q] = call[q]
      BY <1>4, <2>3, <1>t DEF Get
    <3>2. QED BY <2>1, <3>1
  <2>4. QED BY <2>2, <2>3
<1>5. ASSUME NEW r \in Requests, Expire(r)
      PROVE  \E q \in Requests : call'[q].win = w /\ call'[q].rank = 1
                                   /\ call'[q].pc \in {"get", "expire"}
  <2>0. count[w] > 0 /\ w \notin hit
    BY <1>5 DEF Expire
  <2>1. TwoWindowsOn # None
    BY NoneAssumption, LimiterBoundsAssumption DEF TwoWindowsOn, TypeOK, Windows
  <2>2. call[r].win # w /\ expiry[w] = None
    BY <1>5, <1>t, <2>0, <2>1 DEF Expire
  <2>3. PICK q \in Requests : Pending(q)
    BY <2>0, <2>2, <1>k
  <2>4. call'[q] = call[q]
    BY <1>5, <2>2, <2>3, <1>t DEF Expire
  <2>5. QED BY <2>3, <2>4
<1>6. ASSUME NEW r \in Requests, Decide(r)
      PROVE  \E q \in Requests : call'[q].win = w /\ call'[q].rank = 1
                                   /\ call'[q].pc \in {"get", "expire"}
  <2>1. PICK q \in Requests : Pending(q)
    BY <1>6, <1>k DEF Decide, redis
  <2>2. q # r
    BY <1>6, <2>1 DEF Decide
  <2>3. call'[q] = call[q]
    BY <1>6, <2>2, <1>t DEF Decide
  <2>4. QED BY <2>1, <2>3
<1>7. ASSUME NEW r \in Requests, Fail(r)
      PROVE  \E q \in Requests : call'[q].win = w /\ call'[q].rank = 1
                                   /\ call'[q].pc \in {"get", "expire"}
  <2>1. call[r].win # w /\ w \notin hit
    BY <1>7 DEF Fail
  <2>2. call[r].win \in Windows
    BY <1>t DEF Calls
  <2>3. count[w] > 0 /\ expiry[w] = None
    BY <1>7, <1>t, <2>1, <2>2 DEF Fail, CountOne
  <2>4. PICK q \in Requests : Pending(q)
    BY <2>1, <2>3, <1>k
  <2>5. call'[q] = call[q]
    BY <1>7, <2>1, <2>4, <1>t DEF Fail
  <2>6. QED BY <2>4, <2>5
<1>8. CASE UNCHANGED vars
  BY <1>8, <1>k DEF vars, redis
<1>9. QED BY <1>1, <1>2, <1>3, <1>4, <1>5, <1>6, <1>7, <1>8 DEF Next

(***************************************************************************)
(* A counter without a time to live has its first request under way or was *)
(* hit by a failure, for any number of overlapping calls.                  *)
(***************************************************************************)
THEOREM KeysAlwaysExpire == Spec => []KeysExpire
<1>1. Init => TypeOK /\ KeysExpire
  BY InitType, InitKeys
<1>2. TypeOK /\ KeysExpire /\ [Next]_vars => (TypeOK /\ KeysExpire)'
  BY StepType, StepKeys
<1>3. QED BY <1>1, <1>2, PTL DEF Spec

-----------------------------------------------------------------------------
(* The previous window is weighed.                                         *)

\* While a window or the next one lasts, its key counts all that was counted
\* in time, and will not be removed.
Kept ==
    \A w \in Windows :
        /\ win < w + 2 => punctual[w] <= count[w]
        /\ expiry[w] # None => w + 2 <= expiry[w][1]

\* What a prompt call has read covers the previous window.
ReadAll ==
    \A r \in Requests :
        call[r].pc \in {"expire", "decide"} /\ call[r].prompt
            => Before(punctual, call[r].win) <= call[r].prev

\* No call is answered ahead of the clock.
Past == \A a \in admitted : a.win <= win

WInv == Kept /\ ReadAll /\ Past /\ PreviousWindowWeighed

LEMMA InitWindow == Init => WInv
BY LimiterBoundsAssumption DEF Init, WInv, Kept, ReadAll, Past, PreviousWindowWeighed, Idle, Windows

\* A counter of a window that is over takes no punctual call any more.
LEMMA PunctualStays ==
    ASSUME TypeOK, NEW r \in Requests, CountOne(r), NEW w \in Windows, w <= win
    PROVE  Before(punctual', w) = Before(punctual, w)
<1>1. punctual \in [Windows -> Nat] /\ win \in Nat /\ w \in Nat
  BY DEF TypeOK, Windows
<1>2. CASE w = 0
  BY <1>2 DEF Before
<1>3. CASE w # 0
  <2>1. w - 1 \in Windows /\ w - 1 # win
    BY <1>1, <1>3, LimiterBoundsAssumption DEF Windows
  <2>2. punctual'[w - 1] = punctual[w - 1]
    BY <1>1, <2>1 DEF CountOne
  <2>3. QED BY <1>3, <2>2 DEF Before
<1>4. QED BY <1>2, <1>3

LEMMA StepKept == TypeOK /\ Kept /\ [Next]_vars => Kept'
<1> SUFFICES ASSUME TypeOK, Kept, [Next]_vars, NEW w \in Windows
             PROVE  /\ win' < w + 2 => punctual'[w] <= count'[w]
                    /\ expiry'[w] # None => w + 2 <= expiry'[w][1]
  BY DEF Kept
<1>t. /\ count \in [Windows -> Nat] /\ punctual \in [Windows -> Nat]
      /\ expiry \in [Windows -> (Nat \X Seconds) \cup {None}]
      /\ win \in Nat /\ w \in Nat
      /\ \A q \in Requests : call[q].win \in Windows /\ call[q].win \in Nat /\ call[q].win <= win
  BY DEF TypeOK, Windows, Calls
<1>k. /\ win < w + 2 => punctual[w] <= count[w]
      /\ expiry[w] # None => w + 2 <= expiry[w][1]
  BY DEF Kept
<1>c. ASSUME NEW r \in Requests, CountOne(r), UNCHANGED <<win, expiry>>
      PROVE  /\ win' < w + 2 => punctual'[w] <= count'[w]
             /\ expiry'[w] # None => w + 2 <= expiry'[w][1]
  <2>1. CASE call[r].win = w
    <3>1. count'[w] = count[w] + 1 /\ punctual'[w] <= punctual[w] + 1
      BY <1>c, <1>t, <2>1 DEF CountOne
    <3>2. punctual'[w] \in Nat /\ count[w] \in Nat /\ punctual[w] \in Nat
      BY <1>c, <1>t, CountType
    <3>3. QED BY <1>c, <1>k, <1>t, <3>1, <3>2
  <2>2. CASE call[r].win # w
    <3>1. count'[w] = count[w] /\ punctual'[w] = punctual[w]
      BY <1>c, <1>t, <2>2 DEF CountOne
    <3>2. QED BY <1>c, <1>k, <3>1
  <2>3. QED BY <2>1, <2>2
<1>1. CASE Tick
  <2>1. win' \in Nat /\ win <= win' /\ punctual' = punctual
    BY <1>1, <1>t DEF Tick
  <2>2. expiry'[w] # None => expiry'[w] = expiry[w]
    BY <1>1, <1>t DEF Tick
  <2>3. ASSUME win' < w + 2
        PROVE  count'[w] = count[w]
    <3>1. expiry[w] # <<win', elapsed'>>
      <4>1. SUFFICES ASSUME expiry[w] = <<win', elapsed'>> PROVE FALSE
        OBVIOUS
      <4>2. CASE expiry[w] = None
        <5>1. win' \in Windows /\ elapsed' \in Seconds
          BY <1>1, StepType DEF TypeOK
        <5>2. <<win', elapsed'>> \in Nat \X Seconds
          BY <2>1, <5>1
        <5>3. QED BY <4>1, <4>2, <5>2, NoneAssumption
      <4>3. CASE expiry[w] # None
        <5>1. expiry[w][1] = win'
          BY <4>1
        <5>2. QED BY <1>k, <1>t, <2>1, <2>3, <4>3, <5>1
      <4>4. QED BY <4>2, <4>3
    <3>2. QED BY <1>1, <3>1 DEF Tick
  <2>4. win' < w + 2 => win < w + 2
    BY <2>1, <1>t
  <2>5. QED BY <1>k, <2>1, <2>2, <2>3, <2>4
<1>2. ASSUME NEW r \in Requests, Enter(r) \/ Get(r) \/ Decide(r)
      PROVE  /\ win' < w + 2 => punctual'[w] <= count'[w]
             /\ expiry'[w] # None => w + 2 <= expiry'[w][1]
  BY <1>2, <1>k DEF Enter, Get, Decide, clock, redis
<1>3. ASSUME NEW r \in Requests, Incr(r)
      PROVE  /\ win' < w + 2 => punctual'[w] <= count'[w]
             /\ expiry'[w] # None => w + 2 <= expiry'[w][1]
  BY <1>3, <1>c DEF Incr, clock
<1>4. ASSUME NEW r \in Requests, Expire(r)
      PROVE  /\ win' < w + 2 => punctual'[w] <= count'[w]
             /\ expiry'[w] # None => w + 2 <= expiry'[w][1]
  <2>1. UNCHANGED <<win, count, punctual>>
    BY <1>4 DEF Expire, clock
  <2>2. CASE expiry'[w] = expiry[w]
    BY <1>k, <2>1, <2>2
  <2>3. CASE expiry'[w] # expiry[w]
    <3>1. call[r].win = w /\ expiry'[w] = <<win + 2, elapsed>>
      BY <1>4, <1>t, <2>3 DEF Expire, TwoWindowsOn
    <3>2. w <= win
      BY <1>t, <3>1
    <3>3. expiry'[w][1] = win + 2
      BY <3>1
    <3>4. QED BY <1>k, <1>t, <2>1, <3>2, <3>3
  <2>4. QED BY <2>2, <2>3
<1>5. ASSUME NEW r \in Requests, Fail(r)
      PROVE  /\ win' < w + 2 => punctual'[w] <= count'[w]
             /\ expiry'[w] # None => w + 2 <= expiry'[w][1]
  <2>1. UNCHANGED <<win, expiry>>
    BY <1>5 DEF Fail, clock
  <2>2. CASE CountOne(r)
    BY <2>1, <2>2, <1>c
  <2>3. CASE UNCHANGED <<count, punctual>>
    BY <1>k, <2>1, <2>3
  <2>4. QED BY <1>5, <2>2, <2>3 DEF Fail
<1>6. CASE UNCHANGED vars
  BY <1>6, <1>k DEF vars, clock, redis
<1>7. QED BY <1>1, <1>2, <1>3, <1>4, <1>5, <1>6 DEF Next

LEMMA StepReadAll == TypeOK /\ Kept /\ ReadAll /\ [Next]_vars => ReadAll'
<1> SUFFICES ASSUME TypeOK, Kept, ReadAll, [Next]_vars, NEW q \in Requests,
                    call'[q].pc \in {"expire", "decide"}, call'[q].prompt
             PROVE  Before(punctual', call'[q].win) <= call'[q].prev
  BY DEF ReadAll, Before
<1>t. /\ call \in [Requests -> Calls] /\ call[q] \in Calls
      /\ call[q].win \in Windows /\ call[q].win <= win
  BY DEF TypeOK, Calls
<1>k. call[q].pc \in {"expire", "decide"} /\ call[q].prompt
        => Before(punctual, call[q].win) <= call[q].prev
  BY DEF ReadAll
<1>1. CASE Tick \/ UNCHANGED vars
  <2>1. punctual' = punctual /\ call' = call
    BY <1>1 DEF Tick, vars
  <2>2. QED BY <2>1, <1>k
<1>2. ASSUME NEW r \in Requests, Enter(r) \/ Decide(r)
      PROVE  Before(punctual', call'[q].win) <= call'[q].prev
  <2>1. punctual' = punctual
    BY <1>2 DEF Enter, Decide
  <2>2. q # r
    <3>1. CASE Enter(r)
      <4>1. call'[r].pc = "incr"
        BY <1>t, <3>1 DEF Enter, Calls
      <4>2. QED BY <4>1
    <3>2. CASE Decide(r)
      <4>1. call'[r].pc = "idle"
        BY <1>t, <3>2 DEF Decide, Idle
      <4>2. QED BY <4>1
    <3>3. QED BY <1>2, <3>1, <3>2
  <2>3. call'[q] = call[q]
    <3>1. CASE Enter(r)
      BY <1>t, <2>2, <3>1 DEF Enter
    <3>2. CASE Decide(r)
      BY <1>t, <2>2, <3>2 DEF Decide
    <3>3. QED BY <1>2, <3>1, <3>2
  <2>4. QED BY <2>1, <2>3, <1>k
<1>3. ASSUME NEW r \in Requests, Incr(r)
      PROVE  Before(punctual', call'[q].win) <= call'[q].prev
  <2>1. q # r
    BY <1>3, <1>t DEF Incr
  <2>2. call'[q] = call[q]
    BY <1>3, <1>t, <2>1 DEF Incr
  <2>3. Before(punctual', call[q].win) = Before(punctual, call[q].win)
    BY <1>3, <1>t, PunctualStays DEF Incr
  <2>4. QED BY <2>2, <2>3, <1>k
<1>4. ASSUME NEW r \in Requests, Get(r)
      PROVE  Before(punctual', call'[q].win) <= call'[q].prev
  <2>1. punctual' = punctual
    BY <1>4 DEF Get
  <2>2. CASE q # r
    <3>1. call'[q] = call[q]
      BY <1>4, <1>t, <2>2 DEF Get
    <3>2. QED BY <2>1, <3>1, <1>k
  <2>3. CASE q = r
    <3>1. /\ call'[q].prev = Before(count, call[q].win)
          /\ call'[q].win = call[q].win
          /\ call'[q].prompt = (call[q].win = win)
      BY <1>4, <1>t, <2>3 DEF Get, Calls
    <3>2. Before(punctual, call[q].win) <= Before(count, call[q].win)
      <4>1. CASE call[q].win = 0
        BY <4>1 DEF Before
      <4>2. CASE call[q].win # 0
        <5>1. call[q].win - 1 \in Windows /\ win < (call[q].win - 1) + 2
          <6>1. call[q].win = win /\ win \in 0..MaxWindow
            BY <1>t, <3>1 DEF Windows
          <6>2. QED BY <4>2, <6>1, LimiterBoundsAssumption DEF Windows
        <5>2. punctual[call[q].win - 1] <= count[call[q].win - 1]
          BY <5>1 DEF Kept
        <5>3. QED BY <4>2, <5>2 DEF Before
      <4>3. QED BY <4>1, <4>2
    <3>3. QED BY <2>1, <3>1, <3>2
  <2>4. QED BY <2>2, <2>3
<1>5. ASSUME NEW r \in Requests, Expire(r)
      PROVE  Before(punctual', call'[q].win) <= call'[q].prev
  <2>1. punctual' = punctual
    BY <1>5 DEF Expire
  <2>2. /\ call'[q].win = call[q].win /\ call'[q].prev = call[q].prev
        /\ call'[q].prompt = call[q].prompt /\ call[q].pc \in {"expire", "decide"}
    BY <1>5, <1>t DEF Expire, Calls
  <2>3. QED BY <2>1, <2>2, <1>k
<1>6. ASSUME NEW r \in Requests, Fail(r)
      PROVE  Before(punctual', call'[q].win) <= call'[q].prev
  <2>1. q # r
    BY <1>6, <1>t DEF Fail, Idle
  <2>2. call'[q] = call[q]
    BY <1>6, <1>t, <2>1 DEF Fail
  <2>3. Before(punctual', call[q].win) = Before(punctual, call[q].win)
    <3>1. CASE CountOne(r)
      BY <1>t, <3>1, PunctualStays
    <3>2. CASE UNCHANGED <<count, punctual>>
      BY <3>2
    <3>3. QED BY <1>6, <3>1, <3>2 DEF Fail
  <2>4. QED BY <2>2, <2>3, <1>k
<1>7. QED BY <1>1, <1>2, <1>3, <1>4, <1>5, <1>6 DEF Next

\* A smaller count weighs less.
LEMMA WeighsLess ==
    ASSUME NEW a \in Nat, NEW b \in Nat, NEW c \in Nat, a <= b
    PROVE  a * c <= b * c
OBVIOUS

LEMMA StepWeighed ==
    TypeOK /\ ReadAll /\ Past /\ PreviousWindowWeighed /\ [Next]_vars
        => (Past /\ PreviousWindowWeighed)'
<1> SUFFICES ASSUME TypeOK, ReadAll, Past, PreviousWindowWeighed, [Next]_vars
             PROVE  (Past /\ PreviousWindowWeighed)'
  OBVIOUS
<1> DEFINE Heavy(a, p) == p * (Window - a.elapsed) + a.rank * Window
<1>t. /\ win \in Nat /\ punctual \in [Windows -> Nat]
      /\ admitted \subseteq [win : Windows, elapsed : Seconds, rank : Nat]
      /\ \A r \in Requests : call[r] \in Calls /\ call[r].win <= win
  BY DEF TypeOK, Windows
<1>w. win' \in Nat /\ win <= win'
  <2>1. CASE Tick
    BY <1>t, <2>1 DEF Tick
  <2>2. CASE ~Tick
    <3>1. win' = win
      BY <2>2 DEF Next, Enter, Incr, Get, Expire, Decide, Fail, vars, clock
    <3>2. QED BY <1>t, <3>1
  <2>3. QED BY <2>1, <2>2
<1>a. ASSUME NEW a \in admitted, \A r \in Requests : ~Decide(r)
      PROVE  a.win <= win' /\ Heavy(a, Before(punctual', a.win)) <= Limit * Window
  <2>1. a.win \in Windows /\ a.win \in Nat /\ a.win <= win
    BY <1>t DEF Past, Windows
  <2>2. Heavy(a, Before(punctual, a.win)) <= Limit * Window
    BY DEF PreviousWindowWeighed
  <2>3. Before(punctual', a.win) = Before(punctual, a.win)
    <3>1. ASSUME NEW r \in Requests, CountOne(r)
          PROVE  Before(punctual', a.win) = Before(punctual, a.win)
      BY <2>1, <3>1, PunctualStays
    <3>2. CASE punctual' = punctual
      BY <3>2
    <3>3. punctual' = punctual \/ \E r \in Requests : CountOne(r)
      BY <1>a DEF Next, Tick, Enter, Incr, Get, Expire, Fail, vars
    <3>4. QED BY <3>1, <3>2, <3>3
  <2>4. a.win <= win'
    BY <1>w, <2>1, <1>t
  <2>5. QED BY <2>2, <2>3, <2>4
<1>1. CASE \A r \in Requests : ~Decide(r)
  <2>1. admitted' = admitted
    BY <1>1 DEF Next, Tick, Enter, Incr, Get, Expire, Fail, vars
  <2>2. \A a \in admitted : a.win <= win' /\ Heavy(a, Before(punctual', a.win)) <= Limit * Window
    BY <1>a, <1>1
  <2>3. Past'
    BY <2>1, <2>2 DEF Past
  <2>4. PreviousWindowWeighed'
    BY <2>1, <2>2 DEF PreviousWindowWeighed, Before
  <2>5. QED BY <2>3, <2>4
<1>2. ASSUME NEW r \in Requests, Decide(r) PROVE (Past /\ PreviousWindowWeighed)'
  <2> DEFINE c == call[r]
             n == [win |-> c.win, elapsed |-> c.elapsed, rank |-> c.rank]
  <2>1. win' = win /\ punctual' = punctual
    BY <1>2 DEF Decide, clock
  <2>2. ASSUME NEW a \in admitted', a \notin admitted
        PROVE  a = n /\ c.prompt /\ Load(c) <= Limit * Window /\ c.pc = "decide"
    BY <1>2, <2>2 DEF Decide
  <2>3. ASSUME c.prompt, Load(c) <= Limit * Window, c.pc = "decide"
        PROVE  n.win <= win /\ Heavy(n, Before(punctual, n.win)) <= Limit * Window
    <3>1. /\ c.prev \in Nat /\ c.win \in Windows /\ c.elapsed \in Nat /\ c.rank \in Nat
          /\ c.elapsed < Window /\ c.win <= win /\ Window \in Nat
      BY <1>t, WindowAssumption DEF Calls, Seconds
    <3>2. Before(punctual, c.win) <= c.prev
      BY <2>3 DEF ReadAll
    <3>3. Before(punctual, c.win) \in Nat
      BY <1>t, <3>1, BeforeType
    <3>4. Window - c.elapsed \in Nat
      BY <3>1
    <3>5. Before(punctual, c.win) * (Window - c.elapsed) <= c.prev * (Window - c.elapsed)
      BY <3>1, <3>2, <3>3, <3>4, WeighsLess
    <3>6. /\ Before(punctual, c.win) * (Window - c.elapsed) \in Nat
          /\ c.prev * (Window - c.elapsed) \in Nat
          /\ c.rank * Window \in Nat /\ Limit * Window \in Nat
      BY <3>1, <3>3, <3>4, LimitAssumption
    <3>7. Load(c) = c.prev * (Window - c.elapsed) + c.rank * Window
      BY DEF Load
    <3>8. Before(punctual, c.win) * (Window - c.elapsed) + c.rank * Window <= Limit * Window
      BY <2>3, <3>5, <3>6, <3>7
    <3>9. QED BY <3>1, <3>8
  <2>4. ASSUME NEW a \in admitted'
        PROVE  a.win <= win' /\ Heavy(a, Before(punctual', a.win)) <= Limit * Window
    <3>1. CASE a \in admitted
      BY <2>1, <3>1 DEF Past, PreviousWindowWeighed
    <3>2. CASE a \notin admitted
      BY <2>1, <2>2, <2>3, <3>2
    <3>3. QED BY <3>1, <3>2
  <2>5. Past'
    BY <2>4 DEF Past
  <2>6. PreviousWindowWeighed'
    BY <2>4 DEF PreviousWindowWeighed, Before
  <2>7. QED BY <2>5, <2>6
<1>3. QED BY <1>1, <1>2

(***************************************************************************)
(* Whatever the overlap of calls, failures and expiries, an admitted call  *)
(* was weighed against all that the previous window counted in time.       *)
(***************************************************************************)
THEOREM PreviousAlwaysWeighed == Spec => []PreviousWindowWeighed
<1>1. Init => TypeOK /\ WInv
  BY InitType, InitWindow
<1>2. TypeOK /\ WInv /\ [Next]_vars => (TypeOK /\ WInv)'
  <2>1. TypeOK /\ WInv /\ [Next]_vars => TypeOK'
    BY StepType
  <2>2. TypeOK /\ WInv /\ [Next]_vars => Kept'
    BY StepKept DEF WInv
  <2>3. TypeOK /\ WInv /\ [Next]_vars => ReadAll'
    BY StepReadAll DEF WInv
  <2>4. TypeOK /\ WInv /\ [Next]_vars => (Past /\ PreviousWindowWeighed)'
    BY StepWeighed DEF WInv
  <2>5. QED BY <2>1, <2>2, <2>3, <2>4 DEF WInv
<1>3. WInv => PreviousWindowWeighed
  BY DEF WInv
<1>4. QED BY <1>1, <1>2, <1>3, PTL DEF Spec

-----------------------------------------------------------------------------
(* The bound over any period of one window's length.                       *)

\* The calls whose INCR came in time, and will count if they are admitted.
Ranked(c, now) ==
    \/ c.pc = "get" /\ c.win = now
    \/ c.pc \in {"expire", "decide"} /\ c.prompt

Place(x) == <<x.win, x.rank>>

\* While a window lasts, its counter counts the punctual INCRs and no other.
Exact == \A w \in Windows : win <= w => count[w] = punctual[w]

\* INCR gives every punctual call of a window a rank of its own.
CallRanks ==
    /\ \A r \in Requests :
         Ranked(call[r], win) => call[r].rank \in 1..punctual[call[r].win]
    /\ \A r, q \in Requests :
         r # q /\ Ranked(call[r], win) /\ Ranked(call[q], win) => Place(call[r]) # Place(call[q])
    /\ \A r \in Requests, a \in admitted :
         Ranked(call[r], win) => Place(call[r]) # Place(a)

AdmittedRanks ==
    /\ \A a \in admitted : a.rank \in 1..punctual[a.win]
    /\ \A a, b \in admitted : Place(a) = Place(b) => a = b

LEMMA InitRanks == Init => Exact /\ CallRanks /\ AdmittedRanks
BY DEF Init, Exact, CallRanks, AdmittedRanks, Ranked, Idle

LEMMA PunctualGrows ==
    ASSUME TypeOK, [Next]_vars, NEW w \in Windows
    PROVE  punctual[w] \in Nat /\ punctual'[w] \in Nat /\ punctual[w] <= punctual'[w]
<1>1. punctual \in [Windows -> Nat]
  BY DEF TypeOK
<1>2. punctual' = punctual \/ \E r \in Requests : CountOne(r)
  BY DEF Next, Tick, Enter, Incr, Get, Expire, Decide, Fail, vars
<1>3. CASE punctual' = punctual
  BY <1>1, <1>3
<1>4. ASSUME NEW r \in Requests, CountOne(r)
      PROVE  punctual[w] \in Nat /\ punctual'[w] \in Nat /\ punctual[w] <= punctual'[w]
  BY <1>1, <1>4 DEF CountOne
<1>5. QED BY <1>2, <1>3, <1>4

LEMMA StepExact == TypeOK /\ Kept /\ Exact /\ [Next]_vars => Exact'
<1> SUFFICES ASSUME TypeOK, Kept, Exact, [Next]_vars, NEW w \in Windows, win' <= w
             PROVE  count'[w] = punctual'[w]
  BY DEF Exact
<1>t. /\ count \in [Windows -> Nat] /\ punctual \in [Windows -> Nat]
      /\ win \in Nat /\ w \in Nat
      /\ \A q \in Requests : call[q].win \in Windows /\ call[q].win \in Nat /\ call[q].win <= win
  BY DEF TypeOK, Windows, Calls
<1>c. ASSUME NEW r \in Requests, CountOne(r), win' = win
      PROVE  count'[w] = punctual'[w]
  <2>1. count[w] = punctual[w]
    BY <1>c DEF Exact
  <2>2. CASE call[r].win = w
    <3>1. w = win
      BY <1>t, <1>c, <2>2
    <3>2. QED BY <1>t, <1>c, <2>1, <2>2, <3>1 DEF CountOne
  <2>3. CASE call[r].win # w
    BY <1>t, <1>c, <2>1, <2>3 DEF CountOne
  <2>4. QED BY <2>2, <2>3
<1>s. ASSUME win' = win, UNCHANGED <<count, punctual>>
      PROVE  count'[w] = punctual'[w]
  BY <1>s DEF Exact
<1>1. CASE Tick
  <2>1. win' \in Nat /\ win <= win' /\ punctual' = punctual
    BY <1>1, <1>t DEF Tick
  <2>2. count[w] = punctual[w]
    BY <1>t, <2>1 DEF Exact
  <2>3. expiry[w] # <<win', elapsed'>>
    <3>1. SUFFICES ASSUME expiry[w] = <<win', elapsed'>> PROVE FALSE
      OBVIOUS
    <3>2. CASE expiry[w] = None
      <4>1. win' \in Windows /\ elapsed' \in Seconds
        BY <1>1, StepType DEF TypeOK
      <4>2. <<win', elapsed'>> \in Nat \X Seconds
        BY <2>1, <4>1
      <4>3. QED BY <3>1, <3>2, <4>2, NoneAssumption
    <3>3. CASE expiry[w] # None
      <4>1. expiry[w][1] = win' /\ w + 2 <= expiry[w][1]
        BY <3>1, <3>3 DEF Kept
      <4>2. QED BY <1>t, <2>1, <4>1
    <3>4. QED BY <3>2, <3>3
  <2>4. QED BY <1>1, <2>1, <2>2, <2>3 DEF Tick
<1>2. ASSUME NEW r \in Requests, Incr(r)
      PROVE  count'[w] = punctual'[w]
  BY <1>2, <1>c DEF Incr, clock
<1>3. ASSUME NEW r \in Requests, Enter(r) \/ Get(r) \/ Expire(r) \/ Decide(r)
      PROVE  count'[w] = punctual'[w]
  BY <1>3, <1>s DEF Enter, Get, Expire, Decide, clock, redis
<1>4. ASSUME NEW r \in Requests, Fail(r)
      PROVE  count'[w] = punctual'[w]
  BY <1>4, <1>c, <1>s DEF Fail, clock
<1>5. CASE UNCHANGED vars
  BY <1>5, <1>s DEF vars, clock, redis
<1>6. QED BY <1>1, <1>2, <1>3, <1>4, <1>5 DEF Next

\* Only INCR ranks a call.
LEMMA RankedBefore ==
    ASSUME TypeOK, [Next]_vars, NEW q \in Requests, ~Incr(q), Ranked(call'[q], win')
    PROVE  /\ Ranked(call[q], win) /\ Place(call'[q]) = Place(call[q])
           /\ call'[q].rank = call[q].rank /\ call'[q].win = call[q].win
           /\ ~Decide(q)
<1> DEFINE Same == call'[q] = call[q]
<1>t. /\ call \in [Requests -> Calls] /\ call[q] \in Calls
      /\ win \in Nat /\ call[q].win \in Nat /\ call[q].win <= win
  BY DEF TypeOK, Windows, Calls
<1>i. call'[q].pc # "idle" /\ call'[q].pc # "incr"
  BY DEF Ranked
<1>1. CASE Tick
  <2>1. Same /\ (win' = win \/ win' = win + 1)
    BY <1>1, <1>t DEF Tick
  <2>2. ~Decide(q)
    BY <1>i, <1>t, <2>1 DEF Decide, Idle
  <2>3. QED BY <1>t, <2>1, <2>2 DEF Ranked, Place
<1>2. CASE UNCHANGED vars
  <2>1. Same /\ win' = win
    BY <1>2 DEF vars, clock
  <2>2. ~Decide(q)
    BY <1>i, <1>t, <2>1 DEF Decide, Idle
  <2>3. QED BY <2>1, <2>2 DEF Ranked, Place
<1>3. ASSUME NEW r \in Requests, r # q,
             Enter(r) \/ Incr(r) \/ Get(r) \/ Expire(r) \/ Decide(r) \/ Fail(r)
      PROVE  /\ Ranked(call[q], win) /\ Place(call'[q]) = Place(call[q])
             /\ call'[q].rank = call[q].rank /\ call'[q].win = call[q].win
             /\ ~Decide(q)
  <2>1. win' = win
    BY <1>3 DEF Enter, Incr, Get, Expire, Decide, Fail, clock
  <2>2. Same
    BY <1>3, <1>t DEF Enter, Incr, Get, Expire, Decide, Fail
  <2>3. ~Decide(q)
    BY <1>i, <1>t, <2>2 DEF Decide, Idle
  <2>4. QED BY <2>1, <2>2, <2>3 DEF Ranked, Place
<1>4. ASSUME Enter(q) \/ Decide(q) \/ Fail(q) PROVE FALSE
  <2>1. CASE Enter(q)
    BY <1>i, <1>t, <2>1 DEF Enter, Calls
  <2>2. CASE Decide(q) \/ Fail(q)
    BY <1>i, <1>t, <2>2 DEF Decide, Fail, Idle
  <2>3. QED BY <1>4, <2>1, <2>2
<1>5. CASE Get(q)
  <2>1. /\ call[q].pc = "get" /\ call'[q].win = call[q].win /\ call'[q].rank = call[q].rank
        /\ call'[q].prompt = (call[q].win = win) /\ call'[q].pc \in {"expire", "decide"}
    BY <1>5, <1>t DEF Get, Calls
  <2>2. QED BY <1>4, <2>1 DEF Ranked, Place
<1>6. CASE Expire(q)
  <2>1. /\ call[q].pc = "expire" /\ call'[q].win = call[q].win /\ call'[q].rank = call[q].rank
        /\ call'[q].prompt = call[q].prompt /\ call'[q].pc = "decide"
    BY <1>6, <1>t DEF Expire, Calls
  <2>2. QED BY <1>4, <2>1 DEF Ranked, Place
<1>7. QED BY <1>1, <1>2, <1>3, <1>4, <1>5, <1>6 DEF Next

\* The rank that INCR gives is the next one.
LEMMA NextRank ==
    ASSUME TypeOK, Exact, NEW r \in Requests, Incr(r), Ranked(call'[r], win')
    PROVE  /\ call'[r].win = win /\ win \in Windows
           /\ call'[r].rank = punctual[win] + 1 /\ punctual'[win] = punctual[win] + 1
<1>1. /\ call \in [Requests -> Calls] /\ call[r] \in Calls /\ win \in Windows /\ win \in Nat
      /\ count \in [Windows -> Nat] /\ punctual \in [Windows -> Nat]
  BY DEF TypeOK, Windows
<1>2. /\ call'[r].pc = "get" /\ call'[r].win = call[r].win
      /\ call'[r].rank = count[call[r].win] + 1
  BY <1>1 DEF Incr, Calls
<1>3. call[r].win = win
  BY <1>2 DEF Ranked, Incr, clock
<1>4. count[win] = punctual[win]
  BY <1>1 DEF Exact
<1>5. QED BY <1>1, <1>2, <1>3, <1>4 DEF Incr, CountOne

\* A call admitted by a step is the one that decided.
LEMMA AdmittedBefore ==
    ASSUME [Next]_vars, NEW a \in admitted', a \notin admitted
    PROVE  \E r \in Requests :
              /\ Decide(r) /\ Ranked(call[r], win)
              /\ a = [win |-> call[r].win, elapsed |-> call[r].elapsed, rank |-> call[r].rank]
<1>1. \E r \in Requests : Decide(r)
  BY DEF Next, Tick, Enter, Incr, Get, Expire, Fail, vars
<1>2. PICK r \in Requests : Decide(r)
  BY <1>1
<1>3. /\ a = [win |-> call[r].win, elapsed |-> call[r].elapsed, rank |-> call[r].rank]
      /\ call[r].prompt /\ call[r].pc = "decide"
  BY <1>2 DEF Decide
<1>4. QED BY <1>2, <1>3 DEF Ranked

LEMMA StepCallRanks ==
    TypeOK /\ Exact /\ CallRanks /\ AdmittedRanks /\ [Next]_vars => CallRanks'
<1> SUFFICES ASSUME TypeOK, Exact, CallRanks, AdmittedRanks, [Next]_vars
             PROVE  CallRanks'
  OBVIOUS
<1>t. \A r \in Requests : call[r].win \in Windows /\ call[r].rank \in Nat
  BY DEF TypeOK, Calls
<1>a. \A a \in admitted : a.win \in Windows /\ a.rank \in Nat
  BY DEF TypeOK
<1>b. ASSUME NEW r \in Requests, Incr(r), Ranked(call'[r], win'),
             NEW x, x.win \in Windows, x.rank \in 1..punctual[x.win]
      PROVE  Place(call'[r]) # Place(x)
  <2>1. call'[r].win = win /\ call'[r].rank = punctual[win] + 1
    BY <1>b, NextRank
  <2>2. punctual \in [Windows -> Nat]
    BY DEF TypeOK
  <2>3. QED BY <1>b, <2>1, <2>2 DEF Place
<1>1. ASSUME NEW r \in Requests, Ranked(call'[r], win')
      PROVE  call'[r].rank \in 1..punctual'[call'[r].win]
  <2>1. CASE Incr(r)
    <3>1. /\ call'[r].win = win /\ win \in Windows
          /\ call'[r].rank = punctual[win] + 1 /\ punctual'[win] = punctual[win] + 1
      BY <1>1, <2>1, NextRank
    <3>2. punctual[win] \in Nat
      BY <3>1 DEF TypeOK
    <3>3. QED BY <3>1, <3>2
  <2>2. CASE ~Incr(r)
    <3>1. Ranked(call[r], win) /\ call'[r].rank = call[r].rank /\ call'[r].win = call[r].win
      BY <1>1, <2>2, RankedBefore
    <3>2. call[r].rank \in 1..punctual[call[r].win]
      BY <3>1 DEF CallRanks
    <3>3. /\ punctual[call[r].win] \in Nat /\ punctual'[call[r].win] \in Nat
          /\ punctual[call[r].win] <= punctual'[call[r].win]
      BY <1>t, PunctualGrows
    <3>4. QED BY <1>t, <3>1, <3>2, <3>3
  <2>3. QED BY <2>1, <2>2
<1>2. ASSUME NEW r \in Requests, NEW q \in Requests, r # q,
             Ranked(call'[r], win'), Ranked(call'[q], win')
      PROVE  Place(call'[r]) # Place(call'[q])
  <2>1. ASSUME NEW x \in Requests, ~Incr(x), Ranked(call'[x], win')
        PROVE  /\ Ranked(call[x], win) /\ Place(call'[x]) = Place(call[x])
               /\ call[x].win \in Windows /\ call[x].rank \in 1..punctual[call[x].win]
    BY <1>t, <2>1, RankedBefore DEF CallRanks
  <2>2. CASE Incr(r)
    <3>1. ~Incr(q)
      <4>1. SUFFICES ASSUME Incr(q) PROVE FALSE
        OBVIOUS
      <4>2. call'[r].pc = "get" /\ call[r].pc = "incr" /\ call'[r] = call[r]
        BY <1>2, <2>2, <4>1 DEF Incr, TypeOK, Calls
      <4>3. QED BY <4>2
    <3>2. QED BY <1>2, <1>b, <2>1, <2>2, <3>1
  <2>3. CASE Incr(q)
    <3>1. ~Incr(r)
      <4>1. SUFFICES ASSUME Incr(r) PROVE FALSE
        OBVIOUS
      <4>2. call'[r].pc = "get" /\ call[r].pc = "incr" /\ call'[r] = call[r]
        BY <1>2, <2>3, <4>1 DEF Incr, TypeOK, Calls
      <4>3. QED BY <4>2
    <3>2. QED BY <1>2, <1>b, <2>1, <2>3, <3>1
  <2>4. CASE ~Incr(r) /\ ~Incr(q)
    <3>1. Ranked(call[r], win) /\ Place(call'[r]) = Place(call[r])
      BY <1>2, <2>1, <2>4
    <3>2. Ranked(call[q], win) /\ Place(call'[q]) = Place(call[q])
      BY <1>2, <2>1, <2>4
    <3>3. Place(call[r]) # Place(call[q])
      BY <1>2, <3>1, <3>2 DEF CallRanks
    <3>4. QED BY <3>1, <3>2, <3>3
  <2>5. QED BY <2>2, <2>3, <2>4
<1>3. ASSUME NEW r \in Requests, NEW a \in admitted', Ranked(call'[r], win')
      PROVE  Place(call'[r]) # Place(a)
  <2>1. CASE Incr(r)
    <3>1. admitted' = admitted
      BY <2>1 DEF Incr
    <3>2. a.win \in Windows /\ a.rank \in 1..punctual[a.win]
      BY <1>a, <3>1 DEF AdmittedRanks
    <3>3. QED BY <1>3, <1>b, <2>1, <3>2
  <2>2. CASE ~Incr(r) /\ a \in admitted
    <3>1. Ranked(call[r], win) /\ Place(call'[r]) = Place(call[r])
      BY <1>3, <2>2, RankedBefore
    <3>2. QED BY <2>2, <3>1 DEF CallRanks
  <2>3. CASE ~Incr(r) /\ a \notin admitted
    <3>1. Ranked(call[r], win) /\ Place(call'[r]) = Place(call[r]) /\ ~Decide(r)
      BY <1>3, <2>3, RankedBefore
    <3>2. PICK q \in Requests :
             /\ Decide(q) /\ Ranked(call[q], win)
             /\ a = [win |-> call[q].win, elapsed |-> call[q].elapsed, rank |-> call[q].rank]
      BY <2>3, AdmittedBefore
    <3>3. Place(a) = Place(call[q])
      BY <3>2 DEF Place
    <3>4. Place(call[r]) # Place(call[q])
      BY <3>1, <3>2 DEF CallRanks
    <3>5. QED BY <3>1, <3>3, <3>4
  <2>4. QED BY <2>1, <2>2, <2>3
<1>4. QED BY <1>1, <1>2, <1>3 DEF CallRanks

LEMMA StepAdmittedRanks ==
    TypeOK /\ CallRanks /\ AdmittedRanks /\ [Next]_vars => AdmittedRanks'
<1> SUFFICES ASSUME TypeOK, CallRanks, AdmittedRanks, [Next]_vars
             PROVE  AdmittedRanks'
  OBVIOUS
<1>n. ASSUME NEW a \in admitted', a \notin admitted
      PROVE  \E r \in Requests :
               /\ Decide(r) /\ Ranked(call[r], win)
               /\ a = [win |-> call[r].win, elapsed |-> call[r].elapsed, rank |-> call[r].rank]
  BY <1>n, AdmittedBefore
<1>1. ASSUME NEW a \in admitted' PROVE a.rank \in 1..punctual'[a.win]
  <2>1. a.win \in Windows /\ a.rank \in Nat /\ a.rank \in 1..punctual[a.win]
    <3>1. CASE a \in admitted
      BY <3>1 DEF TypeOK, AdmittedRanks
    <3>2. CASE a \notin admitted
      <4>1. PICK r \in Requests :
               /\ Ranked(call[r], win)
               /\ a = [win |-> call[r].win, elapsed |-> call[r].elapsed, rank |-> call[r].rank]
        BY <1>n, <3>2
      <4>2. call[r].win \in Windows /\ call[r].rank \in Nat
        BY DEF TypeOK, Calls
      <4>3. call[r].rank \in 1..punctual[call[r].win]
        BY <4>1 DEF CallRanks
      <4>4. QED BY <4>1, <4>2, <4>3
    <3>3. QED BY <3>1, <3>2
  <2>2. /\ punctual[a.win] \in Nat /\ punctual'[a.win] \in Nat
        /\ punctual[a.win] <= punctual'[a.win]
    BY <2>1, PunctualGrows
  <2>3. QED BY <2>1, <2>2
<1>2. ASSUME NEW a \in admitted', NEW b \in admitted', Place(a) = Place(b)
      PROVE  a = b
  <2>1. ASSUME NEW x \in admitted, NEW y \in admitted', y \notin admitted
        PROVE  Place(x) # Place(y)
    <3>1. PICK r \in Requests :
             /\ Ranked(call[r], win)
             /\ y = [win |-> call[r].win, elapsed |-> call[r].elapsed, rank |-> call[r].rank]
      BY <1>n, <2>1
    <3>2. Place(y) = Place(call[r])
      BY <3>1 DEF Place
    <3>3. Place(call[r]) # Place(x)
      BY <3>1 DEF CallRanks
    <3>4. QED BY <3>2, <3>3
  <2>2. CASE a \in admitted /\ b \in admitted
    BY <1>2, <2>2 DEF AdmittedRanks
  <2>3. CASE a \notin admitted /\ b \notin admitted
    <3>1. PICK r \in Requests :
             /\ Decide(r) /\ Ranked(call[r], win)
             /\ a = [win |-> call[r].win, elapsed |-> call[r].elapsed, rank |-> call[r].rank]
      BY <1>n, <2>3
    <3>2. PICK q \in Requests :
             /\ Ranked(call[q], win)
             /\ b = [win |-> call[q].win, elapsed |-> call[q].elapsed, rank |-> call[q].rank]
      BY <1>n, <2>3
    <3>3. Place(call[r]) = Place(call[q])
      BY <1>2, <3>1, <3>2 DEF Place
    <3>4. r = q
      BY <3>1, <3>2, <3>3 DEF CallRanks
    <3>5. QED BY <3>1, <3>2, <3>4
  <2>4. QED BY <1>2, <2>1, <2>2, <2>3
<1>3. QED BY <1>1, <1>2 DEF AdmittedRanks

-----------------------------------------------------------------------------
\* As many calls as ranks, if calls of one window are told apart by rank.
LEMMA AtMostRanks ==
    ASSUME TypeOK, AdmittedRanks, NEW w \in Nat, NEW S \in SUBSET admitted, NEW n \in Nat,
           \A a \in S : a.win = w /\ a.rank <= n
    PROVE  IsFiniteSet(S) /\ Cardinality(S) \in Nat /\ Cardinality(S) <= n
<1> DEFINE f == [a \in S |-> a.rank]
<1>1. f \in [S -> 1..n]
  <2>1. \A a \in S : a.win \in Windows /\ a.rank \in Nat /\ a.rank \in 1..punctual[a.win]
    BY DEF TypeOK, AdmittedRanks
  <2>2. punctual \in [Windows -> Nat]
    BY DEF TypeOK
  <2>3. \A a \in S : a.rank \in 1..n
    BY <2>1, <2>2
  <2>4. QED BY <2>3
<1>2. \A a, b \in S : f[a] = f[b] => a = b
  BY DEF AdmittedRanks, Place
<1>3. f \in Injection(S, 1..n)
  BY <1>1, <1>2 DEF Injection, IsInjective
<1>4. IsFiniteSet(1..n) /\ Cardinality(1..n) = n
  BY FS_Interval
<1>5. IsFiniteSet(S) /\ Cardinality(S) <= Cardinality(1..n)
  BY <1>3, <1>4, FS_Injection
<1>6. QED BY <1>4, <1>5, FS_CardinalityType

\* What of a period lies in one window; its end can lie in the next one.
Tail(w, s) == {a \in admitted : a.win = w /\ s <= a.elapsed}
Head(w, s) == {a \in admitted : a.win = w + 1 /\ a.elapsed < s}

LEMMA AtMostLimit ==
    ASSUME TypeOK, AdmittedRanks, PreviousWindowWeighed,
           NEW w \in Nat, NEW S \in SUBSET admitted, \A a \in S : a.win = w
    PROVE  IsFiniteSet(S) /\ Cardinality(S) \in Nat /\ Cardinality(S) <= Limit
<1>1. ASSUME NEW a \in S PROVE a.rank <= Limit
  <2>1. a.win \in Windows /\ a.elapsed \in Nat /\ a.elapsed < Window /\ a.rank \in Nat
    BY WindowAssumption DEF TypeOK, Seconds
  <2>2. Before(punctual, a.win) \in Nat
    BY <2>1, BeforeType DEF TypeOK
  <2>3. Before(punctual, a.win) * (Window - a.elapsed) + a.rank * Window <= Limit * Window
    BY DEF PreviousWindowWeighed
  <2>4. Before(punctual, a.win) * (Window - a.elapsed) \in Nat
    BY <2>1, <2>2, WindowAssumption
  <2>5. a.rank * Window <= Limit * Window
    BY <2>1, <2>3, <2>4, WindowAssumption, LimitAssumption
  <2>6. SUFFICES ASSUME a.rank >= Limit + 1 PROVE FALSE
    BY <2>1, LimitAssumption
  <2>7. (Limit + 1) * Window <= a.rank * Window
    BY <2>1, <2>6, WeighsLess, WindowAssumption, LimitAssumption
  <2>8. (Limit + 1) * Window = Limit * Window + Window
    BY WindowAssumption, LimitAssumption
  <2>9. a.rank * Window \in Nat /\ Limit * Window \in Nat
    BY <2>1, WindowAssumption, LimitAssumption
  <2>10. QED BY <2>5, <2>7, <2>8, <2>9, WindowAssumption
<1>2. QED BY <1>1, AtMostRanks, LimitAssumption

\* The calls of a period are those of its two parts.
LEMMA TwoParts ==
    ASSUME TypeOK, NEW w \in Nat, NEW s \in Seconds
    PROVE  Period(w * Window + s) \subseteq Tail(w, s) \cup Head(w, s)
<1> USE WindowAssumption
<1> SUFFICES ASSUME NEW a \in Period(w * Window + s)
             PROVE  a \in Tail(w, s) \cup Head(w, s)
  OBVIOUS
<1>1. a \in admitted /\ Clock(a) \in (w * Window + s)..(w * Window + s + Window - 1)
  BY DEF Period
<1>2. a.win \in Nat /\ a.elapsed \in Nat /\ a.elapsed < Window /\ s \in Nat /\ s < Window
  BY <1>1 DEF TypeOK, Windows, Seconds
<1>3. Clock(a) = a.win * Window + a.elapsed
  BY DEF Clock
<1>4. a.win * Window \in Nat /\ w * Window \in Nat
  BY <1>2
<1>5. a.win >= w
  <2>1. SUFFICES ASSUME a.win + 1 <= w PROVE FALSE
    BY <1>2
  <2>2. (a.win + 1) * Window <= w * Window
    BY <1>2, <2>1, WeighsLess
  <2>3. (a.win + 1) * Window = a.win * Window + Window
    BY <1>2
  <2>4. QED BY <1>1, <1>2, <1>3, <1>4, <2>2, <2>3
<1>6. a.win <= w + 1
  <2>1. SUFFICES ASSUME w + 2 <= a.win PROVE FALSE
    BY <1>2
  <2>2. (w + 2) * Window <= a.win * Window
    BY <1>2, <2>1, WeighsLess
  <2>3. (w + 2) * Window = w * Window + 2 * Window
    OBVIOUS
  <2>4. QED BY <1>1, <1>2, <1>3, <1>4, <2>2, <2>3
<1>7. CASE a.win = w
  BY <1>1, <1>2, <1>3, <1>4, <1>7 DEF Tail
<1>8. CASE a.win = w + 1
  <2>1. (w + 1) * Window = w * Window + Window
    OBVIOUS
  <2>2. a.elapsed < s
    BY <1>1, <1>2, <1>3, <1>4, <1>8, <2>1
  <2>3. QED BY <1>1, <1>8, <2>2 DEF Head
<1>9. QED BY <1>2, <1>5, <1>6, <1>7, <1>8

\* To a call admitted before the last second of a window, each call of the
\* window before weighs two Window parts at least.
LEMMA HeadAndTail ==
    ASSUME TypeOK, AdmittedRanks, PreviousWindowWeighed,
           NEW w \in Nat, NEW s \in Seconds, Head(w, s) # {}
    PROVE  2 * Cardinality(Tail(w, s)) + Cardinality(Head(w, s)) * Window <= Limit * Window
<1> USE WindowAssumption, LimitAssumption
<1> DEFINE A == Tail(w, s)
           B == Head(w, s)
           n == Cardinality(B)
<1>1. IsFiniteSet(A) /\ Cardinality(A) \in Nat
  BY AtMostLimit DEF Tail
<1>2. IsFiniteSet(B) /\ n \in Nat
  BY AtMostLimit DEF Head
<1>3. n # 0
  BY <1>2, FS_EmptySet
<1>t. /\ punctual \in [Windows -> Nat]
      /\ \A a \in admitted : /\ a.win \in Windows /\ a.elapsed \in Nat /\ a.elapsed < Window
                             /\ a.rank \in Nat
  BY DEF TypeOK, Seconds
<1>4. \E b \in B : n <= b.rank
  <2>1. SUFFICES ASSUME \A b \in B : ~(n <= b.rank) PROVE FALSE
    OBVIOUS
  <2>2. \A b \in B : b.win = w + 1 /\ b.rank <= n - 1
    BY <1>2, <1>t, <2>1 DEF Head
  <2>3. B \in SUBSET admitted /\ n - 1 \in Nat /\ w + 1 \in Nat
    BY <1>2, <1>3 DEF Head
  <2>4. n <= n - 1
    BY <2>2, <2>3, AtMostRanks
  <2>5. QED BY <1>2, <2>4
<1>5. PICK b \in B : n <= b.rank
  BY <1>4
<1>6. /\ b \in admitted /\ b.win = w + 1 /\ b.elapsed \in Nat /\ b.elapsed < s /\ s < Window
      /\ s \in Nat /\ b.rank \in Nat /\ b.win \in Windows
  BY <1>t DEF Head, Seconds
<1>7. w \in Windows
  BY <1>6, LimiterBoundsAssumption DEF Windows
<1>8. punctual[w] \in Nat /\ Before(punctual, b.win) = punctual[w]
  BY <1>t, <1>6, <1>7 DEF Before
<1>9. Cardinality(A) <= punctual[w]
  <2>1. A \in SUBSET admitted
    BY DEF Tail
  <2>2. \A a \in A : a.win = w /\ a.rank <= punctual[w]
    BY <1>8, <1>t DEF Tail, AdmittedRanks
  <2>3. QED BY <1>8, <2>1, <2>2, AtMostRanks
<1>10. punctual[w] * (Window - b.elapsed) + b.rank * Window <= Limit * Window
  BY <1>6, <1>8 DEF PreviousWindowWeighed
<1>11. n * Window <= b.rank * Window
  BY <1>2, <1>5, <1>6, WeighsLess
<1>12. 2 * punctual[w] <= punctual[w] * (Window - b.elapsed)
  <2>1. 2 <= Window - b.elapsed /\ Window - b.elapsed \in Nat
    BY <1>6
  <2>2. 2 * punctual[w] <= (Window - b.elapsed) * punctual[w]
    BY <1>8, <2>1, WeighsLess
  <2>3. (Window - b.elapsed) * punctual[w] = punctual[w] * (Window - b.elapsed)
    BY <1>8, <2>1
  <2>4. QED BY <2>2, <2>3
<1>13. /\ n * Window \in Nat /\ b.rank * Window \in Nat /\ Limit * Window \in Nat
       /\ punctual[w] * (Window - b.elapsed) \in Int
  BY <1>2, <1>6, <1>8
<1>14. QED BY <1>1, <1>8, <1>9, <1>10, <1>11, <1>12, <1>13

LEMMA BoundFollows ==
    ASSUME TypeOK, AdmittedRanks, PreviousWindowWeighed
    PROVE  SlidingBound
<1> USE WindowAssumption, LimitAssumption
<1> SUFFICES ASSUME NEW t \in 0..(MaxWindow * Window)
             PROVE  Cardinality(Period(t)) * Window
                      <= Limit * (IF Window = 1 THEN 1 ELSE 2 * Window - 2)
  BY DEF SlidingBound
<1>0. t \in Nat
  BY LimiterBoundsAssumption
<1> DEFINE w == t \div Window
           s == t % Window
           A == Tail(w, s)
           B == Head(w, s)
           P == Period(t)
<1>1. w \in Nat /\ s \in Seconds /\ t = w * Window + s
  <2>1. w \in Nat /\ s \in 0..(Window - 1) /\ t = Window * w + s
    BY <1>0
  <2>2. Window * w = w * Window
    BY <2>1
  <2>3. QED BY <2>1, <2>2 DEF Seconds
<1> HIDE DEF w, s
<1>2. IsFiniteSet(A) /\ Cardinality(A) \in Nat /\ Cardinality(A) <= Limit
  BY <1>1, AtMostLimit DEF Tail
<1>3. IsFiniteSet(B) /\ Cardinality(B) \in Nat /\ Cardinality(B) <= Limit
  BY <1>1, AtMostLimit DEF Head
<1>4. Cardinality(P) \in Nat /\ Cardinality(P) <= Cardinality(A) + Cardinality(B)
  <2>1. P \subseteq A \cup B
    BY <1>1, TwoParts
  <2>2. IsFiniteSet(A \cup B)
    BY <1>2, <1>3, FS_Union
  <2>3. Cardinality(A \cup B) = Cardinality(A) + Cardinality(B) - Cardinality(A \cap B)
    BY <1>2, <1>3, FS_Union
  <2>4. IsFiniteSet(A \cap B)
    BY <1>2, FS_Subset
  <2>5. IsFiniteSet(P) /\ Cardinality(P) <= Cardinality(A \cup B)
    BY <2>1, <2>2, FS_Subset
  <2>6. Cardinality(A \cap B) \in Nat /\ Cardinality(P) \in Nat /\ Cardinality(A \cup B) \in Nat
    BY <2>2, <2>4, <2>5, FS_CardinalityType
  <2>7. QED BY <1>2, <1>3, <2>3, <2>5, <2>6
<1> HIDE DEF A, B, P
<1>5. CASE B = {}
  <2>1. Cardinality(B) = 0
    BY <1>5, FS_EmptySet
  <2>2. Cardinality(P) <= Limit
    BY <1>2, <1>4, <2>1
  <2>3. CASE Window = 1
    BY <1>4, <2>2, <2>3 DEF P
  <2>4. CASE Window # 1
    <3>1. Window <= 2 * Window - 2 /\ 2 * Window - 2 \in Nat
      BY <2>4
    <3>2. Cardinality(P) * Window <= Limit * Window
      BY <1>4, <2>2, WeighsLess
    <3>3. Window * Limit <= (2 * Window - 2) * Limit
      BY <3>1, WeighsLess
    <3>4. Limit * Window = Window * Limit /\ Limit * (2 * Window - 2) = (2 * Window - 2) * Limit
      BY <3>1
    <3>5. /\ Cardinality(P) * Window \in Nat /\ Limit * Window \in Nat
          /\ Limit * (2 * Window - 2) \in Nat
      BY <1>4, <3>1
    <3>6. QED BY <2>4, <3>2, <3>3, <3>4, <3>5 DEF P
  <2>5. QED BY <2>3, <2>4
<1>6. CASE B # {}
  <2> DEFINE a == Cardinality(A)
             b == Cardinality(B)
             p == Cardinality(P)
  <2>1. 2 * a + b * Window <= Limit * Window
    BY <1>1, <1>6, HeadAndTail DEF A, B
  <2>2. Window >= 2
    <3>1. PICK x \in B : TRUE
      BY <1>6
    <3>2. x.elapsed \in Nat /\ x.elapsed < s /\ s < Window /\ s \in Nat
      BY <1>1, <3>1 DEF B, Head, TypeOK, Seconds
    <3>3. QED BY <3>2
  <2> HIDE DEF a, b, p
  <2>3. a \in Nat /\ b \in Nat /\ p \in Nat /\ p <= a + b /\ a <= Limit
    BY <1>2, <1>3, <1>4 DEF a, b, p
  <2>4. p * Window <= (a + b) * Window
    BY <2>3, WeighsLess
  <2>5. (a + b) * Window = a * (Window - 2) + 2 * a + b * Window
    BY <2>3
  <2>6. a * (Window - 2) <= Limit * (Window - 2)
    <3>1. Window - 2 \in Nat
      BY <2>2
    <3>2. QED BY <2>3, <3>1, WeighsLess
  <2>7. Limit * (Window - 2) + Limit * Window = Limit * (2 * Window - 2)
    OBVIOUS
  <2>8. /\ p * Window \in Int /\ (a + b) * Window \in Int /\ a * (Window - 2) \in Int
        /\ b * Window \in Int /\ Limit * Window \in Int /\ Limit * (Window - 2) \in Int
        /\ Limit * (2 * Window - 2) \in Int
    BY <2>3
  <2>9. p * Window <= Limit * (2 * Window - 2)
    BY <2>1, <2>3, <2>4, <2>5, <2>6, <2>7, <2>8
  <2>10. QED BY <2>2, <2>9 DEF p, P
<1>7. QED BY <1>5, <1>6

(***************************************************************************)
(* For every window, limit and overlap of calls, what is admitted in time  *)
(* in any period of one window's length stays below twice the limit.       *)
(***************************************************************************)
THEOREM BoundHolds == Spec => []SlidingBound
<1> DEFINE SInv == TypeOK /\ WInv /\ Exact /\ CallRanks /\ AdmittedRanks
<1>1. Init => SInv
  BY InitType, InitWindow, InitRanks
<1>2. SInv /\ [Next]_vars => SInv'
  <2>1. SInv /\ [Next]_vars => TypeOK'
    BY StepType
  <2>2. SInv /\ [Next]_vars => WInv'
    BY StepKept, StepReadAll, StepWeighed DEF WInv
  <2>3. SInv /\ [Next]_vars => (Exact /\ CallRanks /\ AdmittedRanks)'
    BY StepExact, StepCallRanks, StepAdmittedRanks DEF WInv
  <2>4. QED BY <2>1, <2>2, <2>3
<1>3. SInv => SlidingBound
  BY BoundFollows DEF WInv
<1>4. QED BY <1>1, <1>2, <1>3, PTL DEF Spec
=============================================================================
