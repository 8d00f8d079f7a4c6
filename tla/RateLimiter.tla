---------------------------- MODULE RateLimiter -----------------------------
(***************************************************************************)
(* RateLimiter.acquire: a token bucket that several threads share.  A call *)
(* looks at the bucket under the lock, then at its deadline without it,    *)
(* then sleeps for one poll; a thread may be late at any of these points.  *)
(*                                                                         *)
(* The clock ticks in polls.  What a bucket gains in one tick is the unit: *)
(* a token is worth Token of them.                                         *)
(***************************************************************************)
EXTENDS Integers

CONSTANTS
    Callers,
    Token,      \* one token: 1 / refill_rate, in ticks
    Capacity,   \* the capacity, in units
    Timeout,    \* the timeout of a call, in ticks
    Window,     \* the window of the broker's own limit, in ticks
    MaxIdle     \* bound: ticks between two looks at the bucket

ASSUME RateAssumption ==
    /\ Token \in Nat \ {0} /\ Capacity \in Nat
    /\ Timeout \in Nat /\ Window \in Nat /\ MaxIdle \in Nat

VARIABLES
    tokens,     \* _tokens, in units, as of the last look
    lag,        \* the time since then: now - _last
    state,      \* the next step of each caller
    waited,     \* the time its call has taken, up to the timeout
    answer      \* what its last call returned

(* History: the window under observation, which may begin at any time, how *)
(* long it lasts and what was taken in it; and the callers that were late, *)
(* or whose tokens others took, during their last call.                    *)
VARIABLES span, spent, late, outbid

callVars == <<state, waited, answer>>
limiterVars == <<tokens, lag, callVars, span, spent, late, outbid>>

LimiterTypeOK ==
    /\ tokens \in 0..Capacity /\ lag \in 0..MaxIdle
    /\ state \in [Callers -> {"idle", "look", "check", "sleep"}]
    /\ waited \in [Callers -> 0..Timeout]
    /\ answer \in [Callers -> {"none", "True", "False"}]
    /\ span \in 0..Window /\ spent \in Nat
    /\ late \subseteq Callers /\ outbid \subseteq Callers

LimiterInit ==
    /\ tokens = Capacity /\ lag = 0
    /\ state = [c \in Callers |-> "idle"] /\ waited = [c \in Callers |-> 0]
    /\ answer = [c \in Callers |-> "none"]
    /\ span = 0 /\ spent = 0 /\ late = {} /\ outbid = {}

-----------------------------------------------------------------------------
Smaller(a, b) == IF a <= b THEN a ELSE b

Calling == {c \in Callers : state[c] # "idle"}

Acquire(c) ==
    /\ state[c] = "idle"
    /\ state' = [state EXCEPT ![c] = "look"]
    /\ waited' = [waited EXCEPT ![c] = 0]
    /\ answer' = [answer EXCEPT ![c] = "none"]
    /\ late' = late \ {c} /\ outbid' = outbid \ {c}
    /\ UNCHANGED <<tokens, lag, span, spent>>

(* What the bucket holds now.                                              *)
RefilledPastCapacity == tokens + lag
Refilled             == Smaller(Capacity, tokens + lag)

(* Under the lock: refill, and take a token if there is one.               *)
Look(c) ==
    /\ state[c] = "look" /\ lag' = 0
    /\ \/ /\ Refilled >= Token
          /\ tokens' = Refilled - Token /\ spent' = spent + Token
          /\ state' = [state EXCEPT ![c] = "idle"]
          /\ answer' = [answer EXCEPT ![c] = "True"]
          /\ outbid' = outbid \cup (Calling \ {c})
       \/ /\ Refilled < Token
          /\ tokens' = Refilled
          /\ state' = [state EXCEPT ![c] = "check"]
          /\ UNCHANGED <<answer, spent, outbid>>
    /\ UNCHANGED <<waited, span, late>>

NeverExpired(c) == FALSE
Expired(c)      == waited[c] >= Timeout

Check(c) ==
    /\ state[c] = "check"
    /\ \/ /\ Expired(c)
          /\ state' = [state EXCEPT ![c] = "idle"]
          /\ answer' = [answer EXCEPT ![c] = "False"]
       \/ /\ ~Expired(c)
          /\ state' = [state EXCEPT ![c] = "sleep"]
          /\ UNCHANGED answer
    /\ UNCHANGED <<tokens, lag, waited, span, spent, late, outbid>>

(* Time passes: who sleeps wakes up, who has not run yet is late.          *)
Tick ==
    /\ lag < MaxIdle /\ lag' = lag + 1
    /\ state' = [c \in Callers |-> IF state[c] = "sleep" THEN "look" ELSE state[c]]
    /\ waited' = [c \in Callers |->
                    IF state[c] = "idle" THEN waited[c]
                    ELSE Smaller(Timeout, waited[c] + 1)]
    /\ late' = late \cup {c \in Callers : state[c] \in {"look", "check"}}
    /\ IF span < Window
       THEN span' = span + 1 /\ UNCHANGED spent
       ELSE span' = 0 /\ spent' = 0
    /\ UNCHANGED <<tokens, answer, outbid>>

(* Another window comes under observation.                                 *)
Observe ==
    /\ span' = 0 /\ spent' = 0
    /\ UNCHANGED <<tokens, lag, callVars, late, outbid>>

-----------------------------------------------------------------------------
Step(c) == Look(c) \/ Check(c)

LimiterNext ==
    \/ \E c \in Callers : Acquire(c) \/ Step(c)
    \/ Tick
    \/ Observe

LimiterSpec == LimiterInit /\ [][LimiterNext]_limiterVars

(* A thread that can run does, and time goes on.                           *)
FairLimiterSpec == LimiterSpec /\ WF_limiterVars(Tick) /\ \A c \in Callers : WF_limiterVars(Step(c))

-----------------------------------------------------------------------------
(* Properties.                                                             *)

(* What all callers take in any window is at most a full bucket and what   *)
(* flows in meanwhile (rate_limiter.py: burst ceiling, tokens per second). *)
(* With the limiters of MoomooBroker that is twice the limit of the broker *)
(* for such a window, not the limit itself.                                *)
WindowBudget == spent <= Capacity + span

(* A call that is refused was late itself, or lost the tokens it waited    *)
(* for to other calls: one thread alone, with a timeout in which a token   *)
(* flows in, is always served (rate_limiter.py: blocking until available). *)
RefusedForAReason ==
    Timeout >= Token /\ Capacity >= Token =>
        \A c \in Callers : answer[c] = "False" => c \in late \cup outbid

(* Every call returns, however many others compete for the tokens          *)
(* (rate_limiter.py: returns False on timeout).                            *)
EveryAcquireEnds == \A c \in Callers : state[c] # "idle" ~> state[c] = "idle"

-----------------------------------------------------------------------------
(* The inductive invariants: a window has what it took and what is still   *)
(* in the bucket; and the bucket has filled for as long as a call that is  *)
(* neither late nor outbid has waited.                                     *)
BudgetInv == spent + Refilled <= Capacity + span

WaitInv ==
    \A c \in Callers : state[c] # "idle" /\ c \notin late \cup outbid =>
        /\ Refilled >= Smaller(Capacity, waited[c])
        /\ state[c] = "check" => lag = 0 /\ tokens < Token
=============================================================================
