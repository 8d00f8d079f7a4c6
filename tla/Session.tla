------------------------------- MODULE Session -------------------------------
(***************************************************************************)
(* The trading session of AutoTrader: the lifecycle scheduler, the entry   *)
(* gate, the runner's loop and the queue of deferred entries, together     *)
(* with the rows of DB.engine_state that survive the process.              *)
(*                                                                         *)
(* The loop is one thread.  An iteration captures the time, fires every    *)
(* due job, runs the jobs in chronological order, then consults the        *)
(* watchdog, ticks the strategy and routes the drops of the inbox.  An     *)
(* exception anywhere abandons the rest of the iteration (runner.run), a   *)
(* crash loses the memory of the process, and the producer of drops and    *)
(* the wall clock move at any time.                                        *)
(*                                                                         *)
(* Time is a day and a slot: in slot k the first k entries of _SCHEDULE    *)
(* have been reached.  A drop is an equity BUY of SymbolOf[d]; a higher    *)
(* number is a later drop.  What a job does at the broker belongs to other *)
(* modules: here it succeeds or it raises.                                 *)
(***************************************************************************)
EXTENDS Naturals, FiniteSets

CONSTANTS
    MaxDay,        \* bound: the calendar days the clock goes through
    TradingDays,   \* the days on which the runner does anything
    NumDrops,      \* bound: how many drops the producer writes
    Symbols,       \* the symbols of the drops
    SymbolOf,      \* the symbol each drop buys
    MaxFailures,   \* bound: exceptions raised by broker calls
    MaxCrashes     \* bound: crashes (or interrupts) of the process

ASSUME BoundAssumption ==
    /\ MaxDay \in Nat \ {0}
    /\ NumDrops \in Nat
    /\ MaxFailures \in Nat
    /\ MaxCrashes \in Nat

ASSUME DomainAssumption ==
    /\ TradingDays \subseteq 1..MaxDay
    /\ SymbolOf \in [1..NumDrops -> Symbols]

-----------------------------------------------------------------------------
(* The schedule, in the chronological order poll relies on.                *)

PRE_OPEN_SYNC     == 1    \* 08:30
ENTRY_OPEN        == 2    \* 09:45
REBALANCE         == 3    \* 12:30
RISK_CHECK_MID    == 4    \* 13:30
RISK_CHECK_LATE   == 5    \* 15:00
RISK_SWEEP        == 6    \* 15:30
EOD_CANCEL_ORDERS == 7    \* 16:15
EOD_REPORT        == 8    \* 16:30

Jobs       == 1..8
AtMostOnce == {REBALANCE, EOD_CANCEL_ORDERS, EOD_REPORT}
Slots      == 0..8
Days       == 1..MaxDay
Drops      == 1..NumDrops
Entry      == [drop : Drops, on : Days]     \* a deferred entry and its date

VARIABLES
    clock,      \* the wall clock, [day, slot]
    pc,         \* where the loop is; "down" when no process runs
    iter,       \* the time run_once was called with
    todo,       \* jobs poll returned that have not started
    lastFired,  \* LifecycleScheduler._last_fired, 0 for no entry
    durable,    \* the sched: rows of engine_state, 0 for no row
    enabled,    \* EntryGate._enabled
    halted,     \* EntryGate._halted
    deferred,   \* TradeEngine._deferred_entries
    rows,       \* the deferred: rows of engine_state
    pending,    \* the list flush_deferred_entries is replaying
    flushDay,   \* the date that flush compares entries with
    haltRow,    \* the halts table: day and process of the last row, day 0 for none
    inbox,      \* drops written to the inbox directory
    batch,      \* the signals inbox.poll returned that are not yet routed
    nextDrop,   \* the next drop of the producer
    failures,   \* exceptions so far
    crashes     \* crashes so far

(* History, read by properties only: how often the body of an at-most-once *)
(* job started on each day, how many BUY orders each drop led to, the jobs *)
(* that were fired in this process and whose latest firing never started,  *)
(* and the entries a flush that raised left in engine_state alone.         *)
VARIABLES runs, placed, skipped, stranded

schedVars  == <<todo, lastFired, durable, skipped>>
gateVars   == <<enabled, halted, haltRow>>
queueVars  == <<deferred, rows, pending, flushDay, stranded>>
inboxVars  == <<inbox, batch>>
worldVars  == <<clock, nextDrop>>
vars == <<worldVars, pc, iter, schedVars, gateVars, queueVars, inboxVars,
          failures, crashes, runs, placed>>

SchedTypeOK ==
    /\ iter \in [day : Days, slot : Slots]
    /\ todo \subseteq Jobs /\ skipped \subseteq Jobs
    /\ lastFired \in [Jobs -> 0..MaxDay]
    /\ durable \in [AtMostOnce -> 0..MaxDay]
    /\ runs \in [AtMostOnce -> [Days -> Nat]]

GateTypeOK ==
    /\ enabled \in BOOLEAN /\ halted \in BOOLEAN
    /\ haltRow \in [day : 0..MaxDay, process : 0..MaxCrashes]

QueueTypeOK ==
    /\ deferred \subseteq Entry /\ rows \subseteq Entry
    /\ pending \subseteq Entry /\ stranded \subseteq Entry
    /\ flushDay \in Days

InboxTypeOK ==
    /\ inbox \subseteq Drops /\ batch \subseteq Drops
    /\ placed \in [Drops -> Nat]

WorldTypeOK ==
    /\ pc \in {"down", "idle", "job", "flush", "watch", "tick", "inbox"}
    /\ clock \in [day : Days, slot : Slots]
    /\ nextDrop \in 1..(NumDrops + 1)
    /\ failures \in 0..MaxFailures /\ crashes \in 0..MaxCrashes

TypeOK ==
    /\ SchedTypeOK
    /\ GateTypeOK
    /\ QueueTypeOK
    /\ InboxTypeOK
    /\ WorldTypeOK

Init ==
    /\ clock = [day |-> 1, slot |-> 0] /\ iter = clock
    /\ pc = "down"
    /\ todo = {} /\ skipped = {}
    /\ lastFired = [j \in Jobs |-> 0] /\ durable = [j \in AtMostOnce |-> 0]
    /\ enabled = FALSE /\ halted = FALSE /\ haltRow = [day |-> 0, process |-> 0]
    /\ deferred = {} /\ rows = {} /\ pending = {} /\ stranded = {}
    /\ flushDay = 1
    /\ inbox = {} /\ batch = {} /\ nextDrop = 1
    /\ failures = 0 /\ crashes = 0
    /\ runs = [j \in AtMostOnce |-> [d \in Days |-> 0]]
    /\ placed = [d \in Drops |-> 0]

-----------------------------------------------------------------------------
(* The world: the clock and the producer of drops.                         *)

PassTime ==
    /\ clock' \in [day : Days, slot : Slots]
    /\ \/ clock'.day = clock.day /\ clock'.slot > clock.slot
       \/ clock'.day = clock.day + 1 /\ clock'.slot = 0
    /\ UNCHANGED <<nextDrop, pc, iter, schedVars, gateVars, queueVars,
                   inboxVars, failures, crashes, runs, placed>>

WriteDrop ==
    /\ nextDrop \in Drops
    /\ nextDrop' = nextDrop + 1
    /\ inbox' = inbox \cup {nextDrop}
    /\ UNCHANGED <<clock, pc, iter, schedVars, gateVars, queueVars, batch,
                   failures, crashes, runs, placed>>

-----------------------------------------------------------------------------
(* Start, crash and the scheduler.                                         *)

EntriesEnabled == enabled /\ ~halted

RestoredNothing(today) == {}
Restored(today) == {e \in rows : e.on = today}

(* A fresh process: the gate is closed, the scheduler has its durable rows *)
(* only, and the entries deferred today come back; older rows are deleted. *)
StartUp ==
    /\ pc = "down"
    /\ pc' = "idle"
    /\ lastFired' = [j \in Jobs |-> 0]
    /\ enabled' = FALSE /\ halted' = FALSE
    /\ deferred' = Restored(clock.day)
    /\ rows' = {e \in rows : e.on = clock.day}
    /\ skipped' = {} /\ stranded' = {}
    /\ UNCHANGED <<worldVars, iter, todo, durable, haltRow, pending, flushDay,
                   inboxVars, failures, crashes, runs, placed>>

LoseMemory ==
    /\ crashes < MaxCrashes
    /\ crashes' = crashes + 1
    /\ pc' = "down"
    /\ todo' = {} /\ pending' = {} /\ deferred' = {} /\ batch' = {}
    /\ UNCHANGED <<worldVars, iter, lastFired, skipped, gateVars, rows,
                   flushDay, stranded, inbox, failures, runs>>

Crash ==
    /\ pc # "down"
    /\ LoseMemory
    /\ UNCHANGED <<durable, placed>>

LastInMemory(j) == lastFired[j]
Last(j) == IF lastFired[j] # 0 THEN lastFired[j]
           ELSE IF j \in AtMostOnce THEN durable[j] ELSE 0

Due == {j \in Jobs : j <= clock.slot /\ Last(j) # clock.day}

Persist(js) == [j \in AtMostOnce |-> IF j \in js THEN clock.day ELSE durable[j]]

(* run_once up to the first job.  Every due job is marked fired, and the   *)
(* at-most-once ones are persisted, before any of them runs.               *)
Poll ==
    /\ pc = "idle" /\ clock.day \in TradingDays
    /\ pc' = "job"
    /\ iter' = clock
    /\ todo' = Due /\ skipped' = skipped \cup Due
    /\ lastFired' = [j \in Jobs |-> IF j \in Due THEN clock.day ELSE lastFired[j]]
    /\ durable' = Persist(Due)
    /\ UNCHANGED <<worldVars, gateVars, queueVars, inboxVars, failures,
                   crashes, runs, placed>>

(* The process dies while poll is persisting: a prefix is in the DB.       *)
CrashInPoll ==
    /\ pc = "idle" /\ clock.day \in TradingDays
    /\ \E k \in Jobs : durable' = Persist({j \in Due : j <= k})
    /\ LoseMemory
    /\ UNCHANGED placed

-----------------------------------------------------------------------------
(* The jobs.                                                               *)

(* An exception: runner.run logs it and the loop sleeps.  The jobs that    *)
(* were due are gone, for they are marked as fired.                        *)
Abandon ==
    /\ failures < MaxFailures
    /\ failures' = failures + 1
    /\ pc' = "idle" /\ todo' = {}

Starts(j) ==
    /\ pc = "job"
    /\ j \in todo /\ \A k \in todo : j <= k
    /\ skipped' = skipped \ {j}
    /\ UNCHANGED <<worldVars, iter, lastFired, durable, inboxVars, crashes, placed>>

Returns(j) == todo' = todo \ {j} /\ UNCHANGED <<pc, failures>>

Ends(j) == Returns(j) \/ Abandon

RunsOnce(j) == runs' = [runs EXCEPT ![j][iter.day] = @ + 1]

PreOpenSync ==
    /\ Starts(PRE_OPEN_SYNC)
    /\ Ends(PRE_OPEN_SYNC)
    /\ UNCHANGED <<gateVars, queueVars, runs>>

(* The gate opens; then the stop reconcile, which may raise; then the      *)
(* flush, which takes the whole list before it replays the first entry.    *)
EntryOpen ==
    /\ Starts(ENTRY_OPEN)
    /\ enabled' = TRUE
    /\ \/ Abandon /\ UNCHANGED queueVars
       \/ /\ halted
          /\ Returns(ENTRY_OPEN) /\ UNCHANGED queueVars
       \/ /\ ~halted
          /\ pc' = "flush" /\ todo' = todo \ {ENTRY_OPEN}
          /\ pending' = deferred /\ deferred' = {} /\ flushDay' = clock.day
          /\ UNCHANGED <<rows, stranded, failures>>
    /\ UNCHANGED <<halted, haltRow, runs>>

Rebalance ==
    /\ Starts(REBALANCE) /\ RunsOnce(REBALANCE)
    /\ Ends(REBALANCE)
    /\ UNCHANGED <<gateVars, queueVars>>

HaltForgotten == enabled' = FALSE /\ UNCHANGED halted
Halt          == enabled' = FALSE /\ halted' = TRUE

(* apply_risk_check may raise before its verdict takes effect, and the     *)
(* sync and the performance row that follow may raise after it.            *)
RiskCheck(j) ==
    /\ Starts(j)
    /\ \/ Abandon /\ UNCHANGED gateVars
       \/ Ends(j) /\ UNCHANGED gateVars
       \/ Ends(j) /\ enabled' = FALSE /\ UNCHANGED <<halted, haltRow>>
       \/ Ends(j) /\ Halt
          /\ haltRow' = [day |-> iter.day, process |-> crashes]
    /\ UNCHANGED <<queueVars, runs>>

SweepLeavesOpen == enabled
SweepGate       == FALSE

RiskSweep ==
    /\ Starts(RISK_SWEEP)
    /\ enabled' = SweepGate
    /\ Ends(RISK_SWEEP)
    /\ UNCHANGED <<halted, haltRow, queueVars, runs>>

EodCancelOrders ==
    /\ Starts(EOD_CANCEL_ORDERS) /\ RunsOnce(EOD_CANCEL_ORDERS)
    /\ enabled' = FALSE
    /\ Ends(EOD_CANCEL_ORDERS)
    /\ UNCHANGED <<halted, haltRow, queueVars>>

EodReport ==
    /\ Starts(EOD_REPORT) /\ RunsOnce(EOD_REPORT)
    /\ Ends(EOD_REPORT)
    /\ UNCHANGED <<gateVars, queueVars>>

(* After the last job a halted session returns; any other goes on.         *)
JobsDone ==
    /\ pc = "job" /\ todo = {}
    /\ pc' = IF halted THEN "idle" ELSE "watch"
    /\ UNCHANGED <<worldVars, iter, schedVars, gateVars, queueVars, inboxVars,
                   failures, crashes, runs, placed>>

-----------------------------------------------------------------------------
(* The flush of the deferred entries, inside ENTRY_OPEN.                   *)

(* A BUY that reaches the risk core with the gate open becomes an order,   *)
(* or it does not: low confidence, no quote, sized to zero, vetoed.        *)
OrderOrNot(d) ==
    \/ UNCHANGED placed
    \/ placed' = [placed EXCEPT ![d] = @ + 1]

RowDeleted(e) == rows \ {e}

InFlush(e) ==
    /\ pc = "flush" /\ e \in pending
    /\ UNCHANGED <<worldVars, iter, lastFired, skipped, gateVars, flushDay,
                   inbox, runs>>

FlushExpired(e) ==
    /\ InFlush(e) /\ e.on # flushDay
    /\ pending' = pending \ {e} /\ rows' = RowDeleted(e)
    /\ UNCHANGED <<pc, todo, durable, deferred, stranded, batch, failures,
                   crashes, placed>>

(* submit_external_signal, then delete_state; the call may raise before or *)
(* after the order is placed, and then the entries still in the local list *)
(* are in engine_state only.                                               *)
FlushSubmit(e) ==
    /\ InFlush(e) /\ e.on = flushDay
    /\ OrderOrNot(e.drop)
    /\ \/ /\ pending' = pending \ {e} /\ rows' = RowDeleted(e)
          /\ UNCHANGED <<pc, todo, failures, stranded>>
       \/ /\ Abandon
          /\ pending' = {} /\ stranded' = stranded \cup pending
          /\ UNCHANGED rows
    /\ UNCHANGED <<durable, deferred, batch, crashes>>

(* The process dies after the submission and before delete_state.          *)
CrashInFlush(e) ==
    /\ pc = "flush" /\ e \in pending /\ e.on = flushDay
    /\ OrderOrNot(e.drop)
    /\ LoseMemory
    /\ UNCHANGED durable

FlushDone ==
    /\ pc = "flush" /\ pending = {}
    /\ pc' = "job"
    /\ UNCHANGED <<worldVars, iter, schedVars, gateVars, queueVars, inboxVars,
                   failures, crashes, runs, placed>>

-----------------------------------------------------------------------------
(* The watchdog, the tick of the strategy and the inbox.                   *)

LoopStep ==
    UNCHANGED <<worldVars, iter, lastFired, durable, skipped, gateVars,
                pending, flushDay, crashes, runs>>

Watch ==
    /\ pc = "watch"
    /\ \/ pc' \in {"tick", "idle"} /\ UNCHANGED <<todo, failures>>
       \/ Abandon
    /\ UNCHANGED <<deferred, rows, stranded, inboxVars, placed>> /\ LoopStep

InboxKept  == inbox
InboxTaken == {}

(* The tick itself is not followed here; then inbox.poll moves every file  *)
(* out of the inbox and returns the signals.                               *)
Tick ==
    /\ pc = "tick"
    /\ \/ /\ pc' = "inbox" /\ batch' = inbox /\ inbox' = InboxTaken
          /\ UNCHANGED <<todo, failures>>
       \/ Abandon /\ UNCHANGED inboxVars
    /\ UNCHANGED <<deferred, rows, stranded, placed>> /\ LoopStep

OtherSymbols(S, d) == {e \in S : SymbolOf[e.drop] # SymbolOf[d]}

(* _defer_entry: the latest BUY of a symbol wins, in memory and in the DB. *)
Defer(d) ==
    LET e == [drop |-> d, on |-> clock.day] IN
    /\ deferred' = OtherSymbols(deferred, d) \cup {e}
    /\ rows' = OtherSymbols(rows, d) \cup {e}
    /\ stranded' = OtherSymbols(stranded, d)

RouteDrop(d) ==
    /\ pc = "inbox" /\ d \in batch
    /\ batch' = batch \ {d}
    /\ \/ /\ EntriesEnabled /\ OrderOrNot(d)
          /\ UNCHANGED <<deferred, rows, stranded>>
       \/ ~EntriesEnabled /\ Defer(d) /\ UNCHANGED placed
       \/ ~EntriesEnabled /\ UNCHANGED <<deferred, rows, stranded, placed>>
    /\ UNCHANGED <<pc, todo, inbox, failures>> /\ LoopStep

(* Routing raised, before or after the order: the rest of the batch, whose *)
(* files are in processed/ already, goes with the iteration.               *)
RouteRaises(d) ==
    /\ pc = "inbox" /\ d \in batch
    /\ IF EntriesEnabled THEN OrderOrNot(d) ELSE UNCHANGED placed
    /\ Abandon /\ batch' = {}
    /\ UNCHANGED <<deferred, rows, stranded, inbox>> /\ LoopStep

InboxDone ==
    /\ pc = "inbox" /\ batch = {}
    /\ pc' = "idle"
    /\ UNCHANGED <<todo, deferred, rows, stranded, inboxVars, failures, placed>>
    /\ LoopStep

-----------------------------------------------------------------------------
Job ==
    \/ PreOpenSync
    \/ EntryOpen
    \/ Rebalance
    \/ \E j \in {RISK_CHECK_MID, RISK_CHECK_LATE} : RiskCheck(j)
    \/ RiskSweep
    \/ EodCancelOrders
    \/ EodReport

Loop ==
    \/ Poll
    \/ Job
    \/ JobsDone
    \/ \E e \in pending : FlushExpired(e) \/ FlushSubmit(e)
    \/ FlushDone
    \/ Watch
    \/ Tick
    \/ \E d \in batch : RouteDrop(d) \/ RouteRaises(d)
    \/ InboxDone

Process ==
    \/ StartUp
    \/ Crash
    \/ CrashInPoll
    \/ \E e \in pending : CrashInFlush(e)

World == PassTime \/ WriteDrop

Next == World \/ Process \/ Loop

Spec == Init /\ [][Next]_vars

(* The loop keeps running while the process lives, and time passes.  No    *)
(* fairness on crashes, restarts or the producer; MaxFailures = 0 in the   *)
(* runs that use it, so that an exception cannot recur for ever.           *)
FairSpec == Spec /\ WF_vars(Loop) /\ WF_vars(PassTime)

-----------------------------------------------------------------------------
(* Properties.                                                             *)

(* The rebalance, the EOD cancel and the EOD report each start at most     *)
(* once on a calendar day, however often the process crashes and restarts  *)
(* (scheduler.py: AT_MOST_ONCE and its durable backing).                   *)
AtMostOncePerDay == \A j \in AtMostOnce : \A d \in Days : runs[j][d] <= 1

(* An open gate means that the sweep has not been due since the gate was   *)
(* opened, or that its firing was dropped: fired by poll, never started.   *)
(* At every other moment a gate that a catch-up or a re-fired ENTRY_OPEN   *)
(* opens is closed again by the sweep (scheduler.py, runner.py).           *)
SweepClosesTheGate ==
    pc # "down" /\ enabled =>
        RISK_SWEEP \in skipped \/ lastFired[RISK_SWEEP] < lastFired[ENTRY_OPEN]

(* Every deferred row of a running process is in the queue or in the list  *)
(* being replayed, or was stranded by a flush that raised; no entry lives  *)
(* in memory only, and a symbol has one row: the latest (main.py: defer,   *)
(* restore and flush of deferred entries).                                 *)
RowsAccountedFor ==
    pc # "down" =>
        /\ rows = deferred \cup pending \cup stranded
        /\ \A e, f \in rows : SymbolOf[e.drop] = SymbolOf[f.drop] => e = f

(* A drop leads to one order in the life of a process and to one more for  *)
(* each crash: nothing but a restart replays it (inbox.py: files are moved *)
(* before they are routed; main.py: the flush empties the queue first).    *)
DropOncePerProcess == \A d \in Drops : placed[d] <= 1 + crashes

(* A process that recorded a HALT places no BUY any more, not even after   *)
(* the ENTRY_OPEN of another day (lifecycle.py: one-way HALT).             *)
HaltedProcessNeverBuys ==
    [][placed' # placed => haltRow.day = 0 \/ haltRow.process # crashes]_vars

(* A row deferred before the last day is routed or expires, unless the     *)
(* process is down or halted (main.py: a crash cannot lose it, and it does *)
(* not outlive the next open).                                             *)
DeferredResolves ==
    \A d \in Drops : \A day \in 1..(MaxDay - 1) :
        [drop |-> d, on |-> day] \in rows
        ~> ([drop |-> d, on |-> day] \notin rows \/ pc = "down" \/ halted)

-----------------------------------------------------------------------------
(* The inductive invariants behind the properties (SessionProofs.tla).     *)

(* A durable row is as recent as the memory of the process, a job ran only *)
(* on days up to its durable row, and one still to run has not run today.  *)
SchedInv ==
    /\ iter.day <= clock.day
    /\ \A j \in AtMostOnce :
          /\ durable[j] <= clock.day
          /\ pc # "down" => lastFired[j] \in {0, durable[j]}
          /\ \A d \in Days : runs[j][d] <= 1 /\ (durable[j] < d => runs[j][d] = 0)
          /\ j \in todo => durable[j] = iter.day /\ runs[j][iter.day] = 0

(* The sweep never fires before the open of its day; when the open is      *)
(* still to run, so is a sweep of the same day.                            *)
GateInv ==
    /\ todo \subseteq skipped
    /\ pc = "down" => todo = {}
    /\ \A j \in Jobs : lastFired[j] <= clock.day
    /\ \A j \in todo : lastFired[j] = iter.day
    /\ lastFired[RISK_SWEEP] <= lastFired[ENTRY_OPEN]
    /\ ENTRY_OPEN \in todo /\ lastFired[RISK_SWEEP] = iter.day
          => RISK_SWEEP \in todo
    /\ SweepClosesTheGate

(* The parts of the queue are disjoint and live where the loop puts them.  *)
QueueInv ==
    /\ RowsAccountedFor
    /\ \A e, f \in rows : SymbolOf[e.drop] = SymbolOf[f.drop] => e = f
    /\ pc # "flush" => pending = {}
    /\ pc = "flush" => deferred = {}
    /\ pc = "down" => deferred = {}
    /\ pc # "down" => stranded \cap (deferred \cup pending) = {}

(* A process with a halts row of its own is halted and only runs jobs.     *)
HaltInv ==
    /\ haltRow.process <= crashes
    /\ haltRow.day # 0 /\ haltRow.process = crashes =>
          halted /\ pc \in {"idle", "job"}

(* A drop is in one place, and what can still place it has not used the    *)
(* order of this process.                                                  *)
DropInv ==
    /\ inbox \cap batch = {}
    /\ \A d \in Drops :
          /\ placed[d] <= 1 + crashes
          /\ d \in inbox \cup batch \/ d >= nextDrop => placed[d] <= crashes
          /\ d \in inbox \cup batch => d < nextDrop
    /\ \A e \in rows : e.drop < nextDrop /\ e.drop \notin inbox \cup batch
    /\ \A e \in rows : pc = "down" \/ e \in deferred \cup pending
                          => placed[e.drop] <= crashes

=============================================================================
