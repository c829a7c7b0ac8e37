----------------------------- MODULE RateLimiter -----------------------------
(***************************************************************************)
(* The sliding window counter that limits ingestion per API key, logins    *)
(* per address and per email, and the dashboard per user.  Redis holds one *)
(* counter per identity and window; identities never share a counter, so   *)
(* the model has one.  RateLimiter.Allow reads the clock of its process    *)
(* once and talks to Redis afterwards: INCR of the current counter and GET *)
(* of the previous one in a pipeline, then EXPIRE if the counter is new.   *)
(* The pipeline is no transaction, and a call may be held up between any   *)
(* two of its steps while the clock moves on.                              *)
(*                                                                         *)
(* The clock is the number of the window and the seconds elapsed in it.    *)
(***************************************************************************)
EXTENDS Integers, FiniteSets

CONSTANTS
    Requests,   \* calls of Allow that may be under way at a time
    Window,     \* seconds of a window
    Limit,      \* requests per window
    MaxWindow,  \* bound on the clock
    MaxCalls,   \* bound on the calls
    MaxFaults,  \* bound on failing commands
    None        \* no expiry

\* NewRateLimiter refuses a window below one second.
ASSUME WindowAssumption == Window \in Nat \ {0}
ASSUME LimitAssumption == Limit \in Nat
ASSUME LimiterBoundsAssumption ==
    MaxWindow \in Nat /\ MaxCalls \in Nat /\ MaxFaults \in Nat

Windows == 0..MaxWindow
Seconds == 0..(Window - 1)

ASSUME NoneAssumption == None \notin Nat \X Seconds

VARIABLES
    win, elapsed,  \* the clock
    count,         \* Redis: the counter of each window, 0 if there is no key
    expiry,        \* Redis: when the key of a window is removed, or None
    call,          \* the calls under way
    \* history and budgets
    punctual,      \* INCRs of a window's counter made during the window
    admitted,      \* the calls answered with "allowed", but for those that
                   \* were held up beyond the end of their window
    hit,           \* windows in which a command failed
    calls, faults

clock == <<win, elapsed>>
redis == <<count, expiry>>
vars  == <<clock, redis, call, punctual, admitted, hit, calls, faults>>

Idle == [pc |-> "idle", win |-> 0, elapsed |-> 0, rank |-> 0, prev |-> 0,
         prompt |-> FALSE]

Calls == [pc : {"idle", "incr", "get", "expire", "decide"}, win : Windows,
          elapsed : Seconds, rank : Nat, prev : Nat, prompt : BOOLEAN]

TypeOK ==
    /\ win \in Windows /\ elapsed \in Seconds
    /\ count \in [Windows -> Nat]
    /\ expiry \in [Windows -> (Nat \X Seconds) \cup {None}]
    /\ call \in [Requests -> Calls]
    /\ \A r \in Requests : call[r].win <= win
    /\ punctual \in [Windows -> Nat]
    /\ admitted \subseteq [win : Windows, elapsed : Seconds, rank : Nat]
    /\ hit \subseteq Windows
    /\ calls \in 0..MaxCalls /\ faults \in 0..MaxFaults

Init ==
    /\ win = 0 /\ elapsed = 0
    /\ count = [w \in Windows |-> 0]
    /\ expiry = [w \in Windows |-> None]
    /\ call = [r \in Requests |-> Idle]
    /\ punctual = [w \in Windows |-> 0]
    /\ admitted = {}
    /\ hit = {}
    /\ calls = 0 /\ faults = 0

\* A counter of the window before w; there is none before the first.
Before(f, w) == IF w = 0 THEN 0 ELSE f[w - 1]

-----------------------------------------------------------------------------
\* A second passes, and Redis removes the keys whose time has come.
Tick ==
    /\ \/ elapsed + 1 < Window /\ win' = win /\ elapsed' = elapsed + 1
       \/ elapsed + 1 = Window /\ win < MaxWindow /\ win' = win + 1 /\ elapsed' = 0
    /\ count' = [w \in Windows |-> IF expiry[w] = <<win', elapsed'>> THEN 0 ELSE count[w]]
    /\ expiry' = [w \in Windows |-> IF expiry[w] = <<win', elapsed'>> THEN None ELSE expiry[w]]
    /\ UNCHANGED <<call, punctual, admitted, hit, calls, faults>>

\* time.Now, read once.
Enter(r) ==
    /\ call[r].pc = "idle"
    /\ calls < MaxCalls
    /\ calls' = calls + 1
    /\ call' = [call EXCEPT ![r].pc = "incr", ![r].win = win, ![r].elapsed = elapsed]
    /\ UNCHANGED <<clock, redis, punctual, admitted, hit, faults>>

\* Mutant: the counter holds what is left, and nothing has filled it.
CountRemaining(r) ==
    LET w == call[r].win IN
    /\ count' = [count EXCEPT ![w] = @ - 1]
    /\ punctual' = [punctual EXCEPT ![w] = IF w = win THEN @ + 1 ELSE @]

\* The first command of the pipeline.
CountOne(r) ==
    LET w == call[r].win IN
    /\ count' = [count EXCEPT ![w] = @ + 1]
    /\ punctual' = [punctual EXCEPT ![w] = IF w = win THEN @ + 1 ELSE @]

Incr(r) ==
    /\ call[r].pc = "incr"
    /\ CountOne(r)
    /\ call' = [call EXCEPT ![r].pc = "get", ![r].rank = count[call[r].win] + 1]
    /\ UNCHANGED <<clock, expiry, admitted, hit, calls, faults>>

\* Mutant: the reply of INCR is compared with 0, as for a counter read
\* before it is incremented.
FreshFromZero(rank) == rank = 0

\* The request that created the key gives it its time to live.
Fresh(rank) == rank = 1

\* The second command; a missing key counts 0.
Get(r) ==
    LET w == call[r].win IN
    /\ call[r].pc = "get"
    /\ call' = [call EXCEPT ![r].prev = Before(count, w),
                            ![r].prompt = (w = win),
                            ![r].pc = IF Fresh(call[r].rank) THEN "expire" ELSE "decide"]
    /\ UNCHANGED <<clock, redis, punctual, admitted, hit, calls, faults>>

\* Mutant: the key lives for one window only.
OneWindowOn == <<win + 1, elapsed>>

\* Two windows from now: the counter is read once more as the previous one.
TwoWindowsOn == <<win + 2, elapsed>>

Expire(r) ==
    LET w == call[r].win IN
    /\ call[r].pc = "expire"
    /\ expiry' = [expiry EXCEPT ![w] = IF count[w] > 0 THEN TwoWindowsOn ELSE @]
    /\ call' = [call EXCEPT ![r].pc = "decide"]
    /\ UNCHANGED <<clock, count, punctual, admitted, hit, calls, faults>>

\* Mutant: the weight grows during the window instead of shrinking.
GrowingLoad(c) == c.prev * c.elapsed + c.rank * Window

\* Window times the weighted count of a call.
Load(c) == c.prev * (Window - c.elapsed) + c.rank * Window

\* The comparison with the limit.  The weight is a float64: when the two
\* sides are equal, rounding may leave the left one larger.
Decide(r) ==
    LET c == call[r] IN
    /\ c.pc = "decide"
    /\ \/ /\ Load(c) <= Limit * Window
          /\ admitted' = admitted \cup
               {a \in {[win |-> c.win, elapsed |-> c.elapsed, rank |-> c.rank]} : c.prompt}
       \/ Load(c) > Limit * Window /\ UNCHANGED admitted
       \/ Load(c) = Limit * Window /\ c.prev * c.elapsed > 0 /\ UNCHANGED admitted
    /\ call' = [call EXCEPT ![r] = Idle]
    /\ UNCHANGED <<clock, redis, punctual, hit, calls, faults>>

\* A command fails, executed or not, or the process dies: Allow ends with an
\* error and nothing that follows in it happens.
Fail(r) ==
    /\ call[r].pc \in {"incr", "get", "expire"}
    /\ faults < MaxFaults
    /\ faults' = faults + 1
    /\ hit' = hit \cup {call[r].win}
    /\ \/ call[r].pc = "incr" /\ CountOne(r)
       \/ UNCHANGED <<count, punctual>>
    /\ call' = [call EXCEPT ![r] = Idle]
    /\ UNCHANGED <<clock, expiry, admitted, calls>>

Next ==
    \/ Tick
    \/ \E r \in Requests : Enter(r) \/ Incr(r) \/ Get(r) \/ Expire(r) \/ Decide(r) \/ Fail(r)

Spec == Init /\ [][Next]_vars

-----------------------------------------------------------------------------
(* Properties.                                                             *)

(***************************************************************************)
(* What a burst before the end of a window leaves for the next one: a call *)
(* admitted at some second is weighed against everything the previous      *)
(* window counted while it lasted, however the calls of both overlap and   *)
(* whenever the keys expire.  It is about the read of the previous counter *)
(* (ratelimiter.go:60-86), which the EXPIRE of its first request must keep *)
(* alive.  A call held up beyond its window is excepted: line 88 accepts   *)
(* the race.                                                               *)
(***************************************************************************)
PreviousWindowWeighed ==
    \A a \in admitted :
        Before(punctual, a.win) * (Window - a.elapsed) + a.rank * Window <= Limit * Window

(***************************************************************************)
(* "A sliding window counter (not fixed window, which allows up to 2x the  *)
(* configured limit to slip through at a window boundary)" (README.md:127):*)
(* the prompt calls admitted in any period of one window's length stay     *)
(* below twice the limit, by two of its Window parts at least.             *)
(***************************************************************************)
Clock(a) == a.win * Window + a.elapsed
Period(t) == {a \in admitted : Clock(a) \in t..(t + Window - 1)}
SlidingBound ==
    \A t \in 0..(MaxWindow * Window) :
        Cardinality(Period(t)) * Window
            <= Limit * (IF Window = 1 THEN 1 ELSE 2 * Window - 2)

(***************************************************************************)
(* No counter outlives its use: a key without a time to live still has its *)
(* first request under way, or a command failed in its window              *)
(* (ratelimiter.go:68-74: the key of a request whose EXPIRE fails stays    *)
(* for ever, since only the first request sets it).                        *)
(***************************************************************************)
KeysExpire ==
    \A w \in Windows :
        count[w] > 0 /\ expiry[w] = None =>
            \/ w \in hit
            \/ \E r \in Requests :
                 call[r].win = w /\ call[r].rank = 1 /\ call[r].pc \in {"get", "expire"}
=============================================================================
