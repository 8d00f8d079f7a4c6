------------------------- MODULE ConnectionProofs --------------------------
(***************************************************************************)
(* Proofs about what stands between the engine and its connection to the   *)
(* broker: Escalation for any quantity, RateLimiter for any callers,       *)
(* capacity, rate and timeout, and Watchdog for any number of attempts,    *)
(* outages and failed syncs.                                               *)
(***************************************************************************)
EXTENDS Escalation, RateLimiter, Watchdog, TLAPS

USE QtyAssumption, RateAssumption, WatchdogAssumption
USE DEF LIMIT, PEG, MARKET, Stages

-----------------------------------------------------------------------------
(* Escalation.                                                             *)

LEMMA EscalationTypes == Spec => []TypeOK
  <1>1. Init => TypeOK
    BY DEF Init, TypeOK, Acks, Statuses
  <1>2. TypeOK /\ [Next]_vars => TypeOK'
    <2> SUFFICES ASSUME TypeOK, [Next]_vars PROVE TypeOK'
      OBVIOUS
    <2> USE DEF TypeOK, Acks, Statuses
    <2>1. ASSUME NEW s \in Stages, Fill(s) \/ Lapse(s) \/ Arrive(s) PROVE TypeOK'
      BY <2>1 DEF Fill, Lapse, Arrive
    <2>2. ASSUME NEW s \in Stages, NEW next \in {"dwell", "returned"}, Submit(s, next)
          PROVE  TypeOK'
      BY <2>2 DEF Submit, Returned
    <2>3. CASE SubmitDirect \/ SubmitLimit
      BY <2>2, <2>3 DEF SubmitDirect, SubmitLimit
    <2>4. CASE Dwell \/ Query \/ Cancel \/ Raise
      BY <2>4 DEF Dwell, Query, Cancel, Raise, AfterCancel, FailedCancel
    <2>5. CASE Repeg
      BY <2>2, <2>5 DEF Repeg
    <2>6. CASE Market
      BY <2>2, <2>6 DEF Market
    <2>7. CASE UNCHANGED vars
      BY <2>7 DEF vars
    <2> QED
      BY <2>1, <2>3, <2>4, <2>5, <2>6, <2>7 DEF Next, Broker, Engine
  <1> QED
    BY <1>1, <1>2, PTL DEF Spec

(* The engine moves on from an order only when its own cancel succeeded, so *)
(* every stage but the last is ended and incomplete.                        *)
LEMMA StagesAreSequential == Spec => []EscalationInv
  <1>1. Init => EscalationInv
    BY DEF Init, EscalationInv
  <1>2. TypeOK /\ EscalationInv /\ [Next]_vars => EscalationInv'
    <2> SUFFICES ASSUME TypeOK, EscalationInv, [Next]_vars PROVE EscalationInv'
      OBVIOUS
    <2> USE DEF TypeOK, EscalationInv
    <2>1. ASSUME NEW s \in Stages, Fill(s) PROVE EscalationInv'
      BY <2>1 DEF Fill
    <2>2. ASSUME NEW s \in Stages, Lapse(s) PROVE EscalationInv'
      BY <2>2 DEF Lapse
    <2>3. ASSUME NEW s \in Stages, Arrive(s) PROVE EscalationInv'
      BY <2>3 DEF Arrive
    <2>4. CASE SubmitDirect \/ SubmitLimit
      BY <2>4 DEF SubmitDirect, SubmitLimit, Submit, Returned
    <2>5. CASE Dwell \/ Query \/ Raise
      BY <2>5 DEF Dwell, Query, Raise
    <2>6. CASE Cancel
      BY <2>6 DEF Cancel, AfterCancel, FailedCancel
    <2>7. CASE Repeg
      BY <2>7 DEF Repeg, Submit, Returned
    <2>8. CASE Market
      BY <2>8 DEF Market, Submit, Returned
    <2>9. CASE UNCHANGED vars
      BY <2>9 DEF vars
    <2> QED
      BY <2>1, <2>2, <2>3, <2>4, <2>5, <2>6, <2>7, <2>8, <2>9 DEF Next, Broker, Engine
  <1> QED
    BY <1>1, <1>2, EscalationTypes, PTL DEF Spec

(* At most one order of an escalated request can still fill.                *)
THEOREM OneOrderIsLive == Spec => []OneLiveOrder
  <1>1. TypeOK /\ EscalationInv => OneLiveOrder
    BY DEF TypeOK, EscalationInv, OneLiveOrder, Live
  <1> QED
    BY <1>1, EscalationTypes, StagesAreSequential, PTL

(* A complete fill is never followed by another order of the request.       *)
THEOREM FillsEndTheEscalation == Spec => []NothingAfterAFill
  <1>1. TypeOK /\ EscalationInv => NothingAfterAFill
    BY DEF TypeOK, EscalationInv, NothingAfterAFill
  <1> QED
    BY <1>1, EscalationTypes, StagesAreSequential, PTL

(* The ack and the request that are returned are those of the last order,   *)
(* and no earlier order is left at the broker.                              *)
THEOREM AnswersMatch == Spec => []AnswerIsTheLastOrder
  <1>1. TypeOK /\ EscalationInv => AnswerIsTheLastOrder
    BY DEF TypeOK, EscalationInv, AnswerIsTheLastOrder, Live
  <1> QED
    BY <1>1, EscalationTypes, StagesAreSequential, PTL

(* Partial fills of the stages add up to less than two requests too many.   *)
THEOREM OverfillIsBounded == Spec => []OverfillBounded
  <1>1. TypeOK /\ EscalationInv => OverfillBounded
    <2> SUFFICES ASSUME TypeOK, EscalationInv PROVE OverfillBounded
      OBVIOUS
    <2> DEFINE l == filled[LIMIT]
               p == filled[PEG]
               m == filled[MARKET]
    <2>1. l \in 0..Qty /\ p \in 0..Qty /\ m \in 0..Qty
      BY DEF TypeOK
    <2>2. p > 0 => l <= Qty - 1
      BY DEF TypeOK, EscalationInv
    <2>3. m > 0 => l <= Qty - 1 /\ p <= Qty - 1
      BY DEF TypeOK, EscalationInv
    <2>4. l + p + m <= 3 * Qty - 2
      BY <2>1, <2>2, <2>3
    <2> QED
      BY <2>4 DEF OverfillBounded
  <1> QED
    BY <1>1, EscalationTypes, StagesAreSequential, PTL

-----------------------------------------------------------------------------
(* RateLimiter.                                                            *)

LEMMA RefilledIsNat ==
    ASSUME tokens \in 0..Capacity, lag \in Nat
    PROVE  Refilled \in 0..Capacity /\ Refilled >= tokens
  BY DEF Refilled, Smaller

(* The bucket never holds more than its capacity, whoever looks at it and  *)
(* however long nobody did.                                                *)
THEOREM BucketTypes == LimiterSpec => []LimiterTypeOK
  <1>1. LimiterInit => LimiterTypeOK
    BY DEF LimiterInit, LimiterTypeOK
  <1>2. LimiterTypeOK /\ [LimiterNext]_limiterVars => LimiterTypeOK'
    <2> SUFFICES ASSUME LimiterTypeOK, [LimiterNext]_limiterVars PROVE LimiterTypeOK'
      OBVIOUS
    <2> USE DEF LimiterTypeOK
    <2>1. ASSUME NEW c \in Callers, Acquire(c) PROVE LimiterTypeOK'
      BY <2>1 DEF Acquire
    <2>2. ASSUME NEW c \in Callers, Look(c) PROVE LimiterTypeOK'
      BY <2>2, RefilledIsNat DEF Look, Calling
    <2>3. ASSUME NEW c \in Callers, Check(c) PROVE LimiterTypeOK'
      BY <2>3 DEF Check
    <2>4. CASE Tick
      BY <2>4 DEF Tick, Smaller
    <2>5. CASE Observe
      BY <2>5 DEF Observe, callVars
    <2>6. CASE UNCHANGED limiterVars
      BY <2>6 DEF limiterVars, callVars
    <2> QED
      BY <2>1, <2>2, <2>3, <2>4, <2>5, <2>6 DEF LimiterNext, Step
  <1> QED
    BY <1>1, <1>2, PTL DEF LimiterSpec

(* What a window took came out of a full bucket and what flowed in since:  *)
(* BudgetInv also counts what is still in the bucket, which a look moves   *)
(* from the bucket to the callers and a tick can only add to.              *)
THEOREM BudgetHolds == LimiterSpec => []WindowBudget
  <1>1. LimiterInit => BudgetInv
    BY DEF LimiterInit, BudgetInv, Refilled, Smaller
  <1>2. LimiterTypeOK /\ BudgetInv /\ [LimiterNext]_limiterVars => BudgetInv'
    <2> SUFFICES ASSUME LimiterTypeOK, BudgetInv, [LimiterNext]_limiterVars PROVE BudgetInv'
      OBVIOUS
    <2> USE DEF LimiterTypeOK, BudgetInv, Refilled, Smaller
    <2>1. ASSUME NEW c \in Callers, Acquire(c) PROVE BudgetInv'
      BY <2>1 DEF Acquire
    <2>2. ASSUME NEW c \in Callers, Look(c) PROVE BudgetInv'
      BY <2>2 DEF Look
    <2>3. ASSUME NEW c \in Callers, Check(c) PROVE BudgetInv'
      BY <2>3 DEF Check
    <2>4. CASE Tick
      BY <2>4 DEF Tick
    <2>5. CASE Observe
      BY <2>5 DEF Observe
    <2>6. CASE UNCHANGED limiterVars
      BY <2>6 DEF limiterVars
    <2> QED
      BY <2>1, <2>2, <2>3, <2>4, <2>5, <2>6 DEF LimiterNext, Step
  <1>3. LimiterTypeOK /\ BudgetInv => WindowBudget
    BY RefilledIsNat DEF LimiterTypeOK, BudgetInv, WindowBudget
  <1> QED
    BY <1>1, <1>2, <1>3, BucketTypes, PTL DEF LimiterSpec

(* While a caller waits that is neither late nor outbid nobody takes a     *)
(* token, so the bucket fills for as long as the call lasts.               *)
LEMMA BucketFillsForWaiters == LimiterSpec => []WaitInv
  <1>1. LimiterInit => WaitInv
    BY DEF LimiterInit, WaitInv
  <1>2. LimiterTypeOK /\ WaitInv /\ [LimiterNext]_limiterVars => WaitInv'
    <2> SUFFICES ASSUME LimiterTypeOK, WaitInv, [LimiterNext]_limiterVars,
                        NEW d \in Callers, state'[d] # "idle", d \notin (late \cup outbid)'
                 PROVE  /\ Refilled' >= Smaller(Capacity, waited'[d])
                        /\ state'[d] = "check" => lag' = 0 /\ tokens' < Token
      BY DEF WaitInv
    <2> DEFINE Goal == /\ Refilled' >= Smaller(Capacity, waited'[d])
                       /\ state'[d] = "check" => lag' = 0 /\ tokens' < Token
    <2> USE DEF LimiterTypeOK, WaitInv, Refilled, Smaller
    <2>1. ASSUME NEW c \in Callers, Acquire(c) PROVE Goal
      BY <2>1 DEF Acquire
    <2>2. ASSUME NEW c \in Callers, Look(c) PROVE Goal
      <3>1. CASE answer' = [answer EXCEPT ![c] = "True"] /\ outbid' = outbid \cup (Calling \ {c})
                 /\ state' = [state EXCEPT ![c] = "idle"]
        BY <2>2, <3>1 DEF Look, Calling
      <3>2. CASE Refilled < Token /\ tokens' = Refilled /\ state' = [state EXCEPT ![c] = "check"]
                 /\ UNCHANGED <<answer, spent, outbid>>
        BY <2>2, <3>2 DEF Look
      <3> QED
        BY <2>2, <3>1, <3>2 DEF Look
    <2>3. ASSUME NEW c \in Callers, Check(c) PROVE Goal
      BY <2>3 DEF Check
    <2>4. CASE Tick
      BY <2>4 DEF Tick
    <2>5. CASE Observe
      BY <2>5 DEF Observe, callVars
    <2>6. CASE UNCHANGED limiterVars
      BY <2>6 DEF limiterVars, callVars
    <2> QED
      BY <2>1, <2>2, <2>3, <2>4, <2>5, <2>6 DEF LimiterNext, Step
  <1> QED
    BY <1>1, <1>2, BucketTypes, PTL DEF LimiterSpec

(* A thread that is on time and alone is never refused: at its deadline    *)
(* the bucket would have filled for the whole timeout.                     *)
THEOREM RefusalsHaveAReason == LimiterSpec => []RefusedForAReason
  <1>1. LimiterInit => RefusedForAReason
    BY DEF LimiterInit, RefusedForAReason
  <1>2. LimiterTypeOK /\ WaitInv /\ RefusedForAReason /\ [LimiterNext]_limiterVars => RefusedForAReason'
    <2> SUFFICES ASSUME LimiterTypeOK, WaitInv, RefusedForAReason, [LimiterNext]_limiterVars,
                        Timeout >= Token, Capacity >= Token,
                        NEW d \in Callers, answer'[d] = "False"
                 PROVE  d \in (late \cup outbid)'
      BY DEF RefusedForAReason
    <2> USE DEF LimiterTypeOK, RefusedForAReason
    <2>1. ASSUME NEW c \in Callers, Acquire(c) PROVE d \in (late \cup outbid)'
      BY <2>1 DEF Acquire
    <2>2. ASSUME NEW c \in Callers, Look(c) PROVE d \in (late \cup outbid)'
      BY <2>2 DEF Look
    <2>3. ASSUME NEW c \in Callers, Check(c) PROVE d \in (late \cup outbid)'
      BY <2>3 DEF Check, Expired, WaitInv, Refilled, Smaller
    <2>4. CASE Tick
      BY <2>4 DEF Tick
    <2>5. CASE Observe
      BY <2>5 DEF Observe, callVars
    <2>6. CASE UNCHANGED limiterVars
      BY <2>6 DEF limiterVars, callVars
    <2> QED
      BY <2>1, <2>2, <2>3, <2>4, <2>5, <2>6 DEF LimiterNext, Step
  <1> QED
    BY <1>1, <1>2, BucketTypes, BucketFillsForWaiters, PTL DEF LimiterSpec

-----------------------------------------------------------------------------
(* Watchdog.                                                               *)

LEMMA WatchdogTypes == WatchdogSpec => []WatchdogTypeOK
  <1> DEFINE Flags   == link \in BOOLEAN /\ stale \in BOOLEAN
             Numbers == /\ step \in {"idle", "check", "backoff", "sync", "tick"}
                        /\ attempt \in 0..MaxAttempts
                        /\ outages \in 0..MaxOutages
                        /\ syncErrors \in 0..MaxSyncErrors
  <1>1. WatchdogInit => Flags /\ Numbers
    <2>1. WatchdogInit => Flags
      BY Zenon DEF WatchdogInit
    <2>2. WatchdogInit => Numbers
      BY DEF WatchdogInit
    <2> QED
      BY <2>1, <2>2
  <1>2. Flags /\ Numbers /\ [WatchdogNext]_watchdogVars => Flags' /\ Numbers'
    <2> SUFFICES ASSUME Flags, Numbers, [WatchdogNext]_watchdogVars
                 PROVE  Flags' /\ Numbers'
      OBVIOUS
    <2>1. Flags'
      BY Zenon DEF WatchdogNext, watchdogVars, counters, LinkDrops, LinkReturns, Loop,
                   RunJobs, Heartbeat, Retry, Reconcile, TickAndInbox
    <2>2. CASE LinkDrops \/ LinkReturns \/ RunJobs \/ TickAndInbox
      BY <2>1, <2>2 DEF LinkDrops, LinkReturns, RunJobs, TickAndInbox, counters
    <2>3. CASE Heartbeat
      BY <2>1, <2>3 DEF Heartbeat, counters
    <2>4. CASE Retry
      BY <2>1, <2>4 DEF Retry, OnRecovery, GivesUp, Last, counters
    <2>5. CASE Reconcile
      BY <2>1, <2>5 DEF Reconcile
    <2>6. CASE UNCHANGED watchdogVars
      BY <2>1, <2>6 DEF watchdogVars, counters
    <2> QED
      BY <2>2, <2>3, <2>4, <2>5, <2>6 DEF WatchdogNext, Loop
  <1>3. WatchdogTypeOK <=> Flags /\ Numbers
    BY DEF WatchdogTypeOK
  <1> QED
    BY <1>1, <1>2, <1>3, PTL DEF WatchdogSpec

(* Every way from a failed heartbeat to the tick leads through a sync, and *)
(* a sync leaves nothing stale or counts as failed.                        *)
THEOREM RecoveryAlwaysReconciles == WatchdogSpec => []RecoveryReconciles
  <1>1. WatchdogInit => RecoveryInv
    BY DEF WatchdogInit, RecoveryInv, RecoveryReconciles
  <1>2. WatchdogTypeOK /\ RecoveryInv /\ [WatchdogNext]_watchdogVars => RecoveryInv'
    <2> SUFFICES ASSUME WatchdogTypeOK, RecoveryInv, [WatchdogNext]_watchdogVars
                 PROVE  RecoveryInv'
      OBVIOUS
    <2> USE DEF WatchdogTypeOK, RecoveryInv, RecoveryReconciles, counters
    <2>1. CASE LinkDrops \/ LinkReturns
      BY <2>1 DEF LinkDrops, LinkReturns
    <2>2. CASE RunJobs \/ TickAndInbox
      BY <2>2 DEF RunJobs, TickAndInbox
    <2>3. CASE Heartbeat
      BY <2>3 DEF Heartbeat
    <2>4. CASE Retry
      BY <2>4 DEF Retry, OnRecovery, GivesUp, Last
    <2>5. CASE Reconcile
      BY <2>5 DEF Reconcile
    <2>6. CASE UNCHANGED watchdogVars
      BY <2>6 DEF watchdogVars
    <2> QED
      BY <2>1, <2>2, <2>3, <2>4, <2>5, <2>6 DEF WatchdogNext, Loop
  <1>3. RecoveryInv => RecoveryReconciles
    BY DEF RecoveryInv
  <1> QED
    BY <1>1, <1>2, <1>3, WatchdogTypes, PTL DEF WatchdogSpec
=============================================================================
