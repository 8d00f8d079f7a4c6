------------------------------ MODULE Watchdog ------------------------------
(***************************************************************************)
(* Watchdog.ensure_healthy inside the loop of SessionRunner: a heartbeat,  *)
(* a bounded number of attempts after a backoff each, and a                *)
(* ground_truth_sync on recovery, over a connection to OpenD that drops    *)
(* and returns at any moment.  The sync may also raise, or return without  *)
(* having refreshed everything, for each of its queries can fail alone.    *)
(* The length of a sleep is left out: anything may happen during one.      *)
(***************************************************************************)
EXTENDS Naturals

CONSTANTS
    MaxAttempts,    \* Watchdog._max_attempts
    MaxOutages,     \* bound: how often the connection drops
    MaxSyncErrors   \* bound: syncs that raise or leave something stale

ASSUME WatchdogAssumption ==
    /\ MaxAttempts \in Nat \ {0}
    /\ MaxOutages \in Nat /\ MaxSyncErrors \in Nat

VARIABLES
    link,       \* the connection is up
    step,       \* the step of the loop
    attempt,    \* the attempt of the backoff loop, 0 outside it
    outages, syncErrors

(* History: a heartbeat of this call of ensure_healthy failed and no sync  *)
(* has refreshed everything since.                                         *)
VARIABLE stale

counters == <<outages, syncErrors>>
watchdogVars == <<link, step, attempt, counters, stale>>

WatchdogTypeOK ==
    /\ link \in BOOLEAN /\ stale \in BOOLEAN
    /\ step \in {"idle", "check", "backoff", "sync", "tick"}
    /\ attempt \in 0..MaxAttempts
    /\ outages \in 0..MaxOutages /\ syncErrors \in 0..MaxSyncErrors

WatchdogInit ==
    /\ link = TRUE /\ step = "idle" /\ attempt = 0
    /\ outages = 0 /\ syncErrors = 0
    /\ stale = FALSE

LinkDrops ==
    /\ link /\ outages < MaxOutages
    /\ link' = FALSE /\ outages' = outages + 1
    /\ UNCHANGED <<step, attempt, syncErrors, stale>>

LinkReturns ==
    /\ ~link /\ link' = TRUE
    /\ UNCHANGED <<step, attempt, counters, stale>>

-----------------------------------------------------------------------------
(* The jobs come first, at any state of the connection.                    *)
RunJobs ==
    /\ step = "idle" /\ step' = "check"
    /\ stale' = FALSE
    /\ UNCHANGED <<link, attempt, counters>>

Heartbeat ==
    /\ step = "check"
    /\ \/ link /\ step' = "tick" /\ UNCHANGED <<attempt, stale>>
       \/ /\ ~link /\ step' = "backoff" /\ attempt' = 1
          /\ stale' = TRUE
    /\ UNCHANGED <<link, counters>>

ResumeAtOnce == "tick"
OnRecovery   == "sync"

Last == attempt = MaxAttempts

HaltsForGood == "halted"
GivesUp      == "idle"

(* A sleep and another heartbeat: recovered, once more, or give up.        *)
Retry ==
    /\ step = "backoff"
    /\ \/ link /\ step' = OnRecovery /\ attempt' = 0
       \/ ~link /\ ~Last /\ attempt' = attempt + 1 /\ UNCHANGED step
       \/ ~link /\ Last /\ step' = GivesUp /\ attempt' = 0
    /\ UNCHANGED <<link, counters, stale>>

(* _reconcile: everything is refreshed; or a query failed and its part is  *)
(* as it was; or it raised, and with it the iteration.                     *)
Reconcile ==
    /\ step = "sync"
    /\ \/ /\ link /\ step' = "tick"
          /\ stale' = FALSE /\ UNCHANGED syncErrors
       \/ /\ syncErrors < MaxSyncErrors /\ syncErrors' = syncErrors + 1
          /\ step' \in {"tick", "idle"} /\ UNCHANGED stale
       \/ ~link /\ step' = "idle" /\ UNCHANGED <<stale, syncErrors>>
    /\ UNCHANGED <<link, attempt, outages>>

(* The tick and the inbox; then the loop sleeps.                           *)
TickAndInbox ==
    /\ step = "tick" /\ step' = "idle"
    /\ UNCHANGED <<link, attempt, counters, stale>>

Loop ==
    \/ RunJobs
    \/ Heartbeat
    \/ Retry
    \/ Reconcile
    \/ TickAndInbox

WatchdogNext ==
    \/ LinkDrops
    \/ LinkReturns
    \/ Loop

WatchdogSpec == WatchdogInit /\ [][WatchdogNext]_watchdogVars

(* The loop is one thread that never stops; the network owes it nothing.   *)
FairWatchdogSpec == WatchdogSpec /\ WF_watchdogVars(Loop)

-----------------------------------------------------------------------------
(* Properties.                                                             *)

(* A call of ensure_healthy that saw the connection down and returned True *)
(* has refreshed everything in between, unless a query of its sync failed  *)
(* (watchdog.py: a full reconcile before returning True).                  *)
RecoveryReconciles == step = "tick" /\ stale => syncErrors > 0

(* When the connection stays up the loop ticks again and again: giving up  *)
(* is for one iteration (watchdog.py: False if still unhealthy; runner.py: *)
(* HALTED_UNHEALTHY is not a halt).                                        *)
TradingResumes == <>[]link => []<>(step = "tick")

(* When it stays down the watchdog gives the thread back, so that the jobs *)
(* of the schedule still run (watchdog.py: max_attempts).                  *)
JobsGoOn == []<>(step = "idle")

(* No outage stops the schedule, and none stops trading when it is over.   *)
OutagesPass == TradingResumes /\ JobsGoOn

-----------------------------------------------------------------------------
(* The inductive invariant: a heartbeat begins with nothing stale, for the *)
(* history is of one call, and what is stale at the tick a sync left so.   *)
RecoveryInv ==
    /\ step = "check" => ~stale
    /\ RecoveryReconciles
=============================================================================
