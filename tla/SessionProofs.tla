---------------------------- MODULE SessionProofs ----------------------------
(***************************************************************************)
(* Theorems about Session for every number of days, drops, failures and    *)
(* crashes.  Each safety property follows from one of the inductive        *)
(* invariants that end the module Session; the liveness property stays     *)
(* with TLC.                                                               *)
(***************************************************************************)
EXTENDS Session, TLAPS

USE BoundAssumption, DomainAssumption
    DEF vars, schedVars, gateVars, queueVars, inboxVars, worldVars

-----------------------------------------------------------------------------
(* Types.                                                                  *)

LEMMA RouteTypes ==
  ASSUME TypeOK, NEW d \in Drops, OrderOrNot(d)
  PROVE  placed' \in [Drops -> Nat]
  BY DEF TypeOK, InboxTypeOK, OrderOrNot

LEMMA RunTypes ==
  ASSUME TypeOK, NEW j \in AtMostOnce, RunsOnce(j)
  PROVE  runs' \in [AtMostOnce -> [Days -> Nat]]
  BY DEF TypeOK, SchedTypeOK, RunsOnce

LEMMA PersistTypes ==
  ASSUME TypeOK, NEW js, durable' = Persist(js)
  PROVE  durable' \in [AtMostOnce -> 0..MaxDay]
  BY DEF TypeOK, SchedTypeOK, WorldTypeOK, Persist, Days

LEMMA ClockForward ==
  ASSUME TypeOK, PassTime
  PROVE  clock'.day \in Days /\ clock'.day >= clock.day
  BY DEF TypeOK, WorldTypeOK, PassTime, Days

(* Every variable keeps its type.                                          *)
THEOREM TypeCorrect == Spec => []TypeOK
<1>1. Init => TypeOK
  <2> SUFFICES ASSUME Init PROVE TypeOK
    OBVIOUS
  <2>1. SchedTypeOK
    BY DEF Init, SchedTypeOK, Days, Slots
  <2>2. haltRow \in [day : 0..MaxDay, process : 0..MaxCrashes]
    BY DEF Init
  <2>3. GateTypeOK
    BY <2>2 DEF Init, GateTypeOK
  <2>4. QueueTypeOK /\ InboxTypeOK
    BY DEF Init, QueueTypeOK, InboxTypeOK, Days
  <2>5. WorldTypeOK
    BY DEF Init, WorldTypeOK, Days, Slots
  <2>6. QED
    BY <2>1, <2>3, <2>4, <2>5 DEF TypeOK
<1>2. TypeOK /\ [Next]_vars => TypeOK'
  <2> SUFFICES ASSUME TypeOK, [Next]_vars PROVE TypeOK'
    OBVIOUS
  <2>1. ASSUME PassTime PROVE TypeOK'
    <3>1. SchedTypeOK'
      BY <2>1 DEF TypeOK, SchedTypeOK, PassTime
    <3>2. GateTypeOK'
      BY <2>1 DEF TypeOK, GateTypeOK, PassTime
    <3>3. QueueTypeOK'
      BY <2>1 DEF TypeOK, QueueTypeOK, PassTime
    <3>4. InboxTypeOK'
      BY <2>1 DEF TypeOK, InboxTypeOK, PassTime
    <3>5. WorldTypeOK'
      BY <2>1 DEF TypeOK, WorldTypeOK, PassTime
    <3>6. QED
      BY <3>1, <3>2, <3>3, <3>4, <3>5 DEF TypeOK
  <2>2. ASSUME WriteDrop PROVE TypeOK'
    <3>1. SchedTypeOK'
      BY <2>2 DEF TypeOK, SchedTypeOK, WriteDrop
    <3>2. GateTypeOK'
      BY <2>2 DEF TypeOK, GateTypeOK, WriteDrop
    <3>3. QueueTypeOK'
      BY <2>2 DEF TypeOK, QueueTypeOK, WriteDrop
    <3>4. InboxTypeOK'
      BY <2>2 DEF TypeOK, InboxTypeOK, WriteDrop
    <3>5. WorldTypeOK'
      BY <2>2 DEF TypeOK, WorldTypeOK, WriteDrop, Drops
    <3>6. QED
      BY <3>1, <3>2, <3>3, <3>4, <3>5 DEF TypeOK
  <2>3. ASSUME StartUp PROVE TypeOK'
    <3>1. SchedTypeOK'
      BY <2>3 DEF TypeOK, SchedTypeOK, StartUp, Restored
    <3>2. GateTypeOK'
      BY <2>3 DEF TypeOK, GateTypeOK, StartUp
    <3>3. QueueTypeOK'
      BY <2>3 DEF TypeOK, QueueTypeOK, StartUp, Restored
    <3>4. InboxTypeOK'
      BY <2>3 DEF TypeOK, InboxTypeOK, StartUp
    <3>5. WorldTypeOK'
      BY <2>3 DEF TypeOK, WorldTypeOK, StartUp
    <3>6. QED
      BY <3>1, <3>2, <3>3, <3>4, <3>5 DEF TypeOK
  <2>4. ASSUME Crash PROVE TypeOK'
    <3>1. SchedTypeOK'
      BY <2>4 DEF TypeOK, SchedTypeOK, Crash, LoseMemory
    <3>2. GateTypeOK'
      BY <2>4 DEF TypeOK, GateTypeOK, Crash, LoseMemory
    <3>3. QueueTypeOK'
      BY <2>4 DEF TypeOK, QueueTypeOK, Crash, LoseMemory
    <3>4. InboxTypeOK'
      BY <2>4 DEF TypeOK, InboxTypeOK, Crash, LoseMemory
    <3>5. WorldTypeOK'
      BY <2>4 DEF TypeOK, WorldTypeOK, Crash, LoseMemory
    <3>6. QED
      BY <3>1, <3>2, <3>3, <3>4, <3>5 DEF TypeOK
  <2>5. ASSUME CrashInPoll PROVE TypeOK'
    <3>1. SchedTypeOK'
      BY <2>5, PersistTypes DEF TypeOK, SchedTypeOK, CrashInPoll, LoseMemory,
             Due, WorldTypeOK, Days
    <3>2. GateTypeOK'
      BY <2>5 DEF TypeOK, GateTypeOK, CrashInPoll, LoseMemory
    <3>3. QueueTypeOK'
      BY <2>5 DEF TypeOK, QueueTypeOK, CrashInPoll, LoseMemory
    <3>4. InboxTypeOK'
      BY <2>5 DEF TypeOK, InboxTypeOK, CrashInPoll, LoseMemory
    <3>5. WorldTypeOK'
      BY <2>5 DEF TypeOK, WorldTypeOK, CrashInPoll, LoseMemory
    <3>6. QED
      BY <3>1, <3>2, <3>3, <3>4, <3>5 DEF TypeOK
  <2>6. ASSUME NEW e \in pending, CrashInFlush(e) PROVE TypeOK'
    <3>1. SchedTypeOK'
      BY <2>6 DEF TypeOK, SchedTypeOK, CrashInFlush, LoseMemory
    <3>2. GateTypeOK'
      BY <2>6 DEF TypeOK, GateTypeOK, CrashInFlush, LoseMemory
    <3>3. QueueTypeOK'
      BY <2>6 DEF TypeOK, QueueTypeOK, CrashInFlush, LoseMemory
    <3>4. InboxTypeOK'
      <4>1. e.drop \in Drops
        BY <2>6 DEF TypeOK, QueueTypeOK, Entry
      <4>2. placed' \in [Drops -> Nat]
        BY <2>6, <4>1, RouteTypes DEF TypeOK, InboxTypeOK, CrashInFlush
      <4>3. QED
        BY <2>6, <4>2 DEF TypeOK, InboxTypeOK, CrashInFlush, LoseMemory
    <3>5. WorldTypeOK'
      BY <2>6 DEF TypeOK, WorldTypeOK, CrashInFlush, LoseMemory
    <3>6. QED
      BY <3>1, <3>2, <3>3, <3>4, <3>5 DEF TypeOK
  <2>7. ASSUME Poll PROVE TypeOK'
    <3>1. SchedTypeOK'
      BY <2>7 DEF TypeOK, SchedTypeOK, Poll, Persist, Due, WorldTypeOK, Days
    <3>2. GateTypeOK'
      BY <2>7 DEF TypeOK, GateTypeOK, Poll
    <3>3. QueueTypeOK'
      BY <2>7 DEF TypeOK, QueueTypeOK, Poll
    <3>4. InboxTypeOK'
      BY <2>7 DEF TypeOK, InboxTypeOK, Poll
    <3>5. WorldTypeOK'
      BY <2>7 DEF TypeOK, WorldTypeOK, Poll
    <3>6. QED
      BY <3>1, <3>2, <3>3, <3>4, <3>5 DEF TypeOK
  <2>8. ASSUME PreOpenSync PROVE TypeOK'
    <3>1. SchedTypeOK'
      BY <2>8 DEF TypeOK, SchedTypeOK, PreOpenSync, Starts, Ends, Returns,
             Abandon
    <3>2. GateTypeOK'
      BY <2>8 DEF TypeOK, GateTypeOK, PreOpenSync, Starts, Ends, Returns,
             Abandon
    <3>3. QueueTypeOK'
      BY <2>8 DEF TypeOK, QueueTypeOK, PreOpenSync, Starts, Ends, Returns,
             Abandon
    <3>4. InboxTypeOK'
      BY <2>8 DEF TypeOK, InboxTypeOK, PreOpenSync, Starts, Ends, Returns,
             Abandon
    <3>5. WorldTypeOK'
      BY <2>8 DEF TypeOK, WorldTypeOK, PreOpenSync, Starts, Ends, Returns,
             Abandon
    <3>6. QED
      BY <3>1, <3>2, <3>3, <3>4, <3>5 DEF TypeOK
  <2>9. ASSUME EntryOpen PROVE TypeOK'
    <3>1. SchedTypeOK'
      BY <2>9 DEF TypeOK, SchedTypeOK, EntryOpen, Starts, Returns, Abandon
    <3>2. GateTypeOK'
      BY <2>9 DEF TypeOK, GateTypeOK, EntryOpen, Starts
    <3>3. QueueTypeOK'
      BY <2>9 DEF TypeOK, QueueTypeOK, EntryOpen, Starts, Returns, Abandon,
             WorldTypeOK
    <3>4. InboxTypeOK'
      BY <2>9 DEF TypeOK, InboxTypeOK, EntryOpen, Starts, Returns, Abandon
    <3>5. WorldTypeOK'
      BY <2>9 DEF TypeOK, WorldTypeOK, EntryOpen, Starts, Returns, Abandon
    <3>6. QED
      BY <3>1, <3>2, <3>3, <3>4, <3>5 DEF TypeOK
  <2>10. ASSUME Rebalance PROVE TypeOK'
    <3>1. SchedTypeOK'
      BY <2>10, RunTypes DEF TypeOK, SchedTypeOK, Rebalance, Starts, Ends,
             Returns, Abandon, AtMostOnce
    <3>2. GateTypeOK'
      BY <2>10 DEF TypeOK, GateTypeOK, Rebalance, Starts, Ends, Returns,
             Abandon
    <3>3. QueueTypeOK'
      BY <2>10 DEF TypeOK, QueueTypeOK, Rebalance, Starts, Ends, Returns,
             Abandon
    <3>4. InboxTypeOK'
      BY <2>10 DEF TypeOK, InboxTypeOK, Rebalance, Starts, Ends, Returns,
             Abandon
    <3>5. WorldTypeOK'
      BY <2>10 DEF TypeOK, WorldTypeOK, Rebalance, Starts, Ends, Returns,
             Abandon
    <3>6. QED
      BY <3>1, <3>2, <3>3, <3>4, <3>5 DEF TypeOK
  <2>11. ASSUME NEW j \in {RISK_CHECK_MID, RISK_CHECK_LATE}, RiskCheck(j) PROVE TypeOK'
    <3>1. SchedTypeOK'
      BY <2>11 DEF TypeOK, SchedTypeOK, RiskCheck, Starts, Ends, Returns,
             Abandon
    <3>2. GateTypeOK'
      <4>1. haltRow' \in [day : 0..MaxDay, process : 0..MaxCrashes]
        BY <2>11 DEF TypeOK, SchedTypeOK, GateTypeOK, WorldTypeOK, RiskCheck,
                    Days
      <4>2. enabled' \in BOOLEAN /\ halted' \in BOOLEAN
        BY <2>11 DEF TypeOK, GateTypeOK, RiskCheck, Halt
      <4>3. QED
        BY <4>1, <4>2 DEF GateTypeOK
    <3>3. QueueTypeOK'
      BY <2>11 DEF TypeOK, QueueTypeOK, RiskCheck, Starts, Ends, Returns,
             Abandon
    <3>4. InboxTypeOK'
      BY <2>11 DEF TypeOK, InboxTypeOK, RiskCheck, Starts, Ends, Returns,
             Abandon
    <3>5. WorldTypeOK'
      BY <2>11 DEF TypeOK, WorldTypeOK, RiskCheck, Starts, Ends, Returns,
             Abandon
    <3>6. QED
      BY <3>1, <3>2, <3>3, <3>4, <3>5 DEF TypeOK
  <2>12. ASSUME RiskSweep PROVE TypeOK'
    <3>1. SchedTypeOK'
      BY <2>12 DEF TypeOK, SchedTypeOK, RiskSweep, Starts, Ends, Returns,
             Abandon
    <3>2. GateTypeOK'
      BY <2>12 DEF TypeOK, GateTypeOK, RiskSweep, Starts, SweepGate
    <3>3. QueueTypeOK'
      BY <2>12 DEF TypeOK, QueueTypeOK, RiskSweep, Starts, Ends, Returns,
             Abandon
    <3>4. InboxTypeOK'
      BY <2>12 DEF TypeOK, InboxTypeOK, RiskSweep, Starts, Ends, Returns,
             Abandon
    <3>5. WorldTypeOK'
      BY <2>12 DEF TypeOK, WorldTypeOK, RiskSweep, Starts, Ends, Returns,
             Abandon
    <3>6. QED
      BY <3>1, <3>2, <3>3, <3>4, <3>5 DEF TypeOK
  <2>13. ASSUME EodCancelOrders PROVE TypeOK'
    <3>1. SchedTypeOK'
      BY <2>13, RunTypes DEF TypeOK, SchedTypeOK, EodCancelOrders, Starts,
             Ends, Returns, Abandon, AtMostOnce
    <3>2. GateTypeOK'
      BY <2>13 DEF TypeOK, GateTypeOK, EodCancelOrders, Starts
    <3>3. QueueTypeOK'
      BY <2>13 DEF TypeOK, QueueTypeOK, EodCancelOrders, Starts, Ends,
             Returns, Abandon
    <3>4. InboxTypeOK'
      BY <2>13 DEF TypeOK, InboxTypeOK, EodCancelOrders, Starts, Ends,
             Returns, Abandon
    <3>5. WorldTypeOK'
      BY <2>13 DEF TypeOK, WorldTypeOK, EodCancelOrders, Starts, Ends,
             Returns, Abandon
    <3>6. QED
      BY <3>1, <3>2, <3>3, <3>4, <3>5 DEF TypeOK
  <2>14. ASSUME EodReport PROVE TypeOK'
    <3>1. SchedTypeOK'
      BY <2>14, RunTypes DEF TypeOK, SchedTypeOK, EodReport, Starts, Ends,
             Returns, Abandon, AtMostOnce
    <3>2. GateTypeOK'
      BY <2>14 DEF TypeOK, GateTypeOK, EodReport, Starts, Ends, Returns,
             Abandon
    <3>3. QueueTypeOK'
      BY <2>14 DEF TypeOK, QueueTypeOK, EodReport, Starts, Ends, Returns,
             Abandon
    <3>4. InboxTypeOK'
      BY <2>14 DEF TypeOK, InboxTypeOK, EodReport, Starts, Ends, Returns,
             Abandon
    <3>5. WorldTypeOK'
      BY <2>14 DEF TypeOK, WorldTypeOK, EodReport, Starts, Ends, Returns,
             Abandon
    <3>6. QED
      BY <3>1, <3>2, <3>3, <3>4, <3>5 DEF TypeOK
  <2>15. ASSUME JobsDone PROVE TypeOK'
    <3>1. SchedTypeOK'
      BY <2>15 DEF TypeOK, SchedTypeOK, JobsDone
    <3>2. GateTypeOK'
      BY <2>15 DEF TypeOK, GateTypeOK, JobsDone
    <3>3. QueueTypeOK'
      BY <2>15 DEF TypeOK, QueueTypeOK, JobsDone
    <3>4. InboxTypeOK'
      BY <2>15 DEF TypeOK, InboxTypeOK, JobsDone
    <3>5. WorldTypeOK'
      BY <2>15 DEF TypeOK, WorldTypeOK, JobsDone
    <3>6. QED
      BY <3>1, <3>2, <3>3, <3>4, <3>5 DEF TypeOK
  <2>16. ASSUME NEW e \in pending, FlushExpired(e) PROVE TypeOK'
    <3>1. SchedTypeOK'
      BY <2>16 DEF TypeOK, SchedTypeOK, FlushExpired, InFlush
    <3>2. GateTypeOK'
      BY <2>16 DEF TypeOK, GateTypeOK, FlushExpired, InFlush
    <3>3. QueueTypeOK'
      BY <2>16 DEF TypeOK, QueueTypeOK, FlushExpired, InFlush, RowDeleted
    <3>4. InboxTypeOK'
      BY <2>16 DEF TypeOK, InboxTypeOK, FlushExpired, InFlush
    <3>5. WorldTypeOK'
      BY <2>16 DEF TypeOK, WorldTypeOK, FlushExpired, InFlush
    <3>6. QED
      BY <3>1, <3>2, <3>3, <3>4, <3>5 DEF TypeOK
  <2>17. ASSUME NEW e \in pending, FlushSubmit(e) PROVE TypeOK'
    <3>1. SchedTypeOK'
      BY <2>17 DEF TypeOK, SchedTypeOK, FlushSubmit, InFlush, Abandon
    <3>2. GateTypeOK'
      BY <2>17 DEF TypeOK, GateTypeOK, FlushSubmit, InFlush
    <3>3. QueueTypeOK'
      BY <2>17 DEF TypeOK, QueueTypeOK, FlushSubmit, InFlush, RowDeleted,
             Abandon
    <3>4. InboxTypeOK'
      <4>1. e.drop \in Drops
        BY <2>17 DEF TypeOK, QueueTypeOK, Entry
      <4>2. placed' \in [Drops -> Nat]
        BY <2>17, <4>1, RouteTypes DEF TypeOK, InboxTypeOK, FlushSubmit
      <4>3. QED
        BY <2>17, <4>2 DEF TypeOK, InboxTypeOK, FlushSubmit, InFlush, Abandon
    <3>5. WorldTypeOK'
      BY <2>17 DEF TypeOK, WorldTypeOK, FlushSubmit, InFlush, Abandon
    <3>6. QED
      BY <3>1, <3>2, <3>3, <3>4, <3>5 DEF TypeOK
  <2>18. ASSUME FlushDone PROVE TypeOK'
    <3>1. SchedTypeOK'
      BY <2>18 DEF TypeOK, SchedTypeOK, FlushDone
    <3>2. GateTypeOK'
      BY <2>18 DEF TypeOK, GateTypeOK, FlushDone
    <3>3. QueueTypeOK'
      BY <2>18 DEF TypeOK, QueueTypeOK, FlushDone
    <3>4. InboxTypeOK'
      BY <2>18 DEF TypeOK, InboxTypeOK, FlushDone
    <3>5. WorldTypeOK'
      BY <2>18 DEF TypeOK, WorldTypeOK, FlushDone
    <3>6. QED
      BY <3>1, <3>2, <3>3, <3>4, <3>5 DEF TypeOK
  <2>19. ASSUME Watch PROVE TypeOK'
    <3>1. SchedTypeOK'
      BY <2>19 DEF TypeOK, SchedTypeOK, Watch, LoopStep, Abandon
    <3>2. GateTypeOK'
      BY <2>19 DEF TypeOK, GateTypeOK, Watch, LoopStep
    <3>3. QueueTypeOK'
      BY <2>19 DEF TypeOK, QueueTypeOK, Watch, LoopStep, Abandon
    <3>4. InboxTypeOK'
      BY <2>19 DEF TypeOK, InboxTypeOK, Watch, LoopStep, Abandon
    <3>5. WorldTypeOK'
      BY <2>19 DEF TypeOK, WorldTypeOK, Watch, LoopStep, Abandon
    <3>6. QED
      BY <3>1, <3>2, <3>3, <3>4, <3>5 DEF TypeOK
  <2>20. ASSUME Tick PROVE TypeOK'
    <3>1. SchedTypeOK'
      BY <2>20 DEF TypeOK, SchedTypeOK, Tick, LoopStep, Abandon, InboxTaken
    <3>2. GateTypeOK'
      BY <2>20 DEF TypeOK, GateTypeOK, Tick, LoopStep, InboxTaken
    <3>3. QueueTypeOK'
      BY <2>20 DEF TypeOK, QueueTypeOK, Tick, LoopStep, Abandon, InboxTaken
    <3>4. InboxTypeOK'
      BY <2>20 DEF TypeOK, InboxTypeOK, Tick, LoopStep, Abandon, InboxTaken
    <3>5. WorldTypeOK'
      BY <2>20 DEF TypeOK, WorldTypeOK, Tick, LoopStep, Abandon, InboxTaken
    <3>6. QED
      BY <3>1, <3>2, <3>3, <3>4, <3>5 DEF TypeOK
  <2>21. ASSUME NEW d \in batch, RouteDrop(d) PROVE TypeOK'
    <3>1. SchedTypeOK'
      BY <2>21 DEF TypeOK, SchedTypeOK, RouteDrop, LoopStep
    <3>2. GateTypeOK'
      BY <2>21 DEF TypeOK, GateTypeOK, RouteDrop, LoopStep
    <3>3. QueueTypeOK'
      <4>1. [drop |-> d, on |-> clock.day] \in Entry
        BY <2>21 DEF TypeOK, InboxTypeOK, WorldTypeOK, Entry
      <4>2. QED
        BY <2>21, <4>1 DEF TypeOK, QueueTypeOK, RouteDrop, LoopStep, Defer,
                          OtherSymbols
    <3>4. InboxTypeOK'
      <4>1. d \in Drops
        BY <2>21 DEF TypeOK, InboxTypeOK
      <4>2. placed' \in [Drops -> Nat]
        BY <2>21, <4>1, RouteTypes DEF TypeOK, InboxTypeOK, RouteDrop
      <4>3. QED
        BY <2>21, <4>2 DEF TypeOK, InboxTypeOK, RouteDrop, LoopStep
    <3>5. WorldTypeOK'
      BY <2>21 DEF TypeOK, WorldTypeOK, RouteDrop, LoopStep
    <3>6. QED
      BY <3>1, <3>2, <3>3, <3>4, <3>5 DEF TypeOK
  <2>22. ASSUME NEW d \in batch, RouteRaises(d) PROVE TypeOK'
    <3>1. SchedTypeOK'
      BY <2>22 DEF TypeOK, SchedTypeOK, RouteRaises, LoopStep, Abandon
    <3>2. GateTypeOK'
      BY <2>22 DEF TypeOK, GateTypeOK, RouteRaises, LoopStep
    <3>3. QueueTypeOK'
      BY <2>22 DEF TypeOK, QueueTypeOK, RouteRaises, LoopStep, Abandon
    <3>4. InboxTypeOK'
      <4>1. d \in Drops
        BY <2>22 DEF TypeOK, InboxTypeOK
      <4>2. placed' \in [Drops -> Nat]
        BY <2>22, <4>1, RouteTypes DEF TypeOK, InboxTypeOK, RouteRaises
      <4>3. QED
        BY <2>22, <4>2 DEF TypeOK, InboxTypeOK, RouteRaises, LoopStep, Abandon
    <3>5. WorldTypeOK'
      BY <2>22 DEF TypeOK, WorldTypeOK, RouteRaises, LoopStep, Abandon
    <3>6. QED
      BY <3>1, <3>2, <3>3, <3>4, <3>5 DEF TypeOK
  <2>23. ASSUME InboxDone PROVE TypeOK'
    <3>1. SchedTypeOK'
      BY <2>23 DEF TypeOK, SchedTypeOK, InboxDone, LoopStep
    <3>2. GateTypeOK'
      BY <2>23 DEF TypeOK, GateTypeOK, InboxDone, LoopStep
    <3>3. QueueTypeOK'
      BY <2>23 DEF TypeOK, QueueTypeOK, InboxDone, LoopStep
    <3>4. InboxTypeOK'
      BY <2>23 DEF TypeOK, InboxTypeOK, InboxDone, LoopStep
    <3>5. WorldTypeOK'
      BY <2>23 DEF TypeOK, WorldTypeOK, InboxDone, LoopStep
    <3>6. QED
      BY <3>1, <3>2, <3>3, <3>4, <3>5 DEF TypeOK
  <2>24. CASE UNCHANGED vars
    BY <2>24 DEF TypeOK, SchedTypeOK, GateTypeOK, QueueTypeOK, InboxTypeOK,
           WorldTypeOK
  <2>25. QED
    BY <2>1, <2>2, <2>3, <2>4, <2>5, <2>6, <2>7, <2>8, <2>9, <2>10, <2>11,
       <2>12, <2>13, <2>14, <2>15, <2>16, <2>17, <2>18, <2>19, <2>20, <2>21,
       <2>22, <2>23, <2>24
       DEF Next, World, Process, Loop, Job
<1>3. QED
  BY <1>1, <1>2, PTL DEF Spec
-----------------------------------------------------------------------------
(* At-most-once jobs.                                                      *)

LEMMA TimeKeepsSched ==
  ASSUME TypeOK, SchedInv, PassTime
  PROVE  SchedInv'
<1>1. clock'.day \in Days /\ clock'.day >= clock.day
  BY ClockForward
<1>2. UNCHANGED <<iter, pc, durable, lastFired, runs, todo>>
  BY DEF PassTime
<1>3. QED
  BY <1>1, <1>2 DEF TypeOK, SchedTypeOK, WorldTypeOK, SchedInv, Days

(* Starting a job that was still to run: its count of today was zero.      *)
LEMMA RunsOnceKeepsSched ==
  ASSUME TypeOK, SchedInv, NEW j \in AtMostOnce, Starts(j), RunsOnce(j),
         todo' \subseteq todo \ {j}, pc' # "down",
         UNCHANGED <<clock, durable, iter, lastFired>>
  PROVE  SchedInv'
<1>1. durable[j] = iter.day /\ runs[j][iter.day] = 0 /\ iter.day \in Days
  BY DEF SchedInv, Starts, TypeOK, SchedTypeOK
<1>2. \A k \in AtMostOnce : \A d \in Days :
         runs'[k][d] = IF k = j /\ d = iter.day THEN 1 ELSE runs[k][d]
  BY <1>1 DEF RunsOnce, TypeOK, SchedTypeOK
<1>3. pc = "job"
  BY DEF Starts
<1>4. ASSUME NEW k \in AtMostOnce
      PROVE  /\ durable'[k] <= clock'.day /\ lastFired'[k] \in {0, durable'[k]}
             /\ k \in todo' => durable'[k] = iter'.day /\ runs'[k][iter'.day] = 0
  BY <1>1, <1>2, <1>3 DEF SchedInv
<1>5. ASSUME NEW k \in AtMostOnce, NEW d \in Days
      PROVE  runs'[k][d] <= 1 /\ (durable'[k] < d => runs'[k][d] = 0)
  BY <1>1, <1>2, <1>3 DEF SchedInv, Days
<1>6. iter'.day <= clock'.day
  BY DEF SchedInv
<1>7. QED
  BY <1>4, <1>5, <1>6 DEF SchedInv

(* What memory says of an at-most-once job is what the DB says.            *)
LEMMA LastIsDurable ==
  ASSUME TypeOK, SchedInv, pc # "down", NEW j \in AtMostOnce
  PROVE  Last(j) = durable[j]
  BY DEF Last, SchedInv, AtMostOnce, Jobs, TypeOK, SchedTypeOK, REBALANCE,
         EOD_CANCEL_ORDERS, EOD_REPORT

LEMMA PollKeepsSched ==
  ASSUME TypeOK, SchedInv, Poll
  PROVE  SchedInv'
<1>1. clock.day \in Days /\ clock.day \in Nat
  BY DEF TypeOK, WorldTypeOK, Days
<1>2. \A j \in AtMostOnce : j \in Due => durable[j] < clock.day
  BY <1>1, LastIsDurable DEF Due, Poll, SchedInv, TypeOK, SchedTypeOK
<1>3. \A j \in AtMostOnce :
         durable'[j] = IF j \in Due THEN clock.day ELSE durable[j]
  BY DEF Poll, Persist
<1>4. \A j \in AtMostOnce :
         lastFired'[j] = IF j \in Due THEN clock.day ELSE lastFired[j]
  BY DEF Poll, AtMostOnce, Jobs, REBALANCE, EOD_CANCEL_ORDERS, EOD_REPORT
<1>5. iter' = clock /\ todo' = Due /\ pc = "idle" /\ UNCHANGED <<clock, runs>>
  BY DEF Poll
<1>6. ASSUME NEW j \in AtMostOnce
      PROVE  /\ durable'[j] <= clock'.day /\ lastFired'[j] \in {0, durable'[j]}
             /\ j \in todo' => durable'[j] = iter'.day /\ runs'[j][iter'.day] = 0
  BY <1>1, <1>2, <1>3, <1>4, <1>5 DEF SchedInv
<1>7. ASSUME NEW k \in AtMostOnce, NEW d \in Days
      PROVE  runs'[k][d] <= 1 /\ (durable'[k] < d => runs'[k][d] = 0)
  <2>1. durable[k] \in Nat /\ d \in Nat
    BY DEF Days, TypeOK, SchedTypeOK
  <2>2. durable'[k] < d => durable[k] < d
    BY <1>1, <1>2, <1>3, <2>1
  <2>3. QED
    BY <2>2, <1>5 DEF SchedInv
<1>8. iter'.day <= clock'.day
  BY <1>1, <1>5
<1>9. QED
  BY <1>6, <1>7, <1>8 DEF SchedInv

LEMMA CrashInPollKeepsSched ==
  ASSUME TypeOK, SchedInv, CrashInPoll
  PROVE  SchedInv'
<1>1. clock.day \in Days /\ clock.day \in Nat
  BY DEF TypeOK, WorldTypeOK, Days
<1>2. \A j \in AtMostOnce :
         durable[j] <= durable'[j] /\ durable'[j] <= clock.day
  BY <1>1, LastIsDurable
     DEF CrashInPoll, Persist, SchedInv, TypeOK, SchedTypeOK
<1>3. \A j \in AtMostOnce : durable[j] \in Nat /\ durable'[j] \in Nat
  BY <1>1, <1>2 DEF CrashInPoll, Persist, TypeOK, SchedTypeOK
<1>4. pc' = "down" /\ todo' = {} /\ UNCHANGED <<clock, iter, runs>>
  BY DEF CrashInPoll, LoseMemory
<1>5. QED
  BY <1>1, <1>2, <1>3, <1>4 DEF SchedInv, Days


(* The durable rows and the runs of the at-most-once jobs agree.           *)
LEMMA SchedInvariant == Spec => []SchedInv
<1>1. Init => SchedInv
  BY DEF Init, SchedInv, Days
<1>2. TypeOK /\ SchedInv /\ [Next]_vars => SchedInv'
  <2> SUFFICES ASSUME TypeOK, SchedInv, [Next]_vars PROVE SchedInv'
    OBVIOUS
  <2>1. ASSUME PassTime PROVE SchedInv'
    BY <2>1, TimeKeepsSched
  <2>2. ASSUME WriteDrop PROVE SchedInv'
    BY <2>2 DEF TypeOK, SchedTypeOK, WorldTypeOK, SchedInv, WriteDrop,
           AtMostOnce, Jobs, PRE_OPEN_SYNC, ENTRY_OPEN, REBALANCE,
           RISK_CHECK_MID, RISK_CHECK_LATE, RISK_SWEEP, EOD_CANCEL_ORDERS,
           EOD_REPORT
  <2>3. ASSUME StartUp PROVE SchedInv'
    BY <2>3 DEF TypeOK, SchedTypeOK, WorldTypeOK, SchedInv, StartUp, Restored,
           AtMostOnce, Jobs, PRE_OPEN_SYNC, ENTRY_OPEN, REBALANCE,
           RISK_CHECK_MID, RISK_CHECK_LATE, RISK_SWEEP, EOD_CANCEL_ORDERS,
           EOD_REPORT
  <2>4. ASSUME Crash PROVE SchedInv'
    BY <2>4 DEF TypeOK, SchedTypeOK, WorldTypeOK, SchedInv, Crash, LoseMemory,
           AtMostOnce, Jobs, PRE_OPEN_SYNC, ENTRY_OPEN, REBALANCE,
           RISK_CHECK_MID, RISK_CHECK_LATE, RISK_SWEEP, EOD_CANCEL_ORDERS,
           EOD_REPORT
  <2>5. ASSUME CrashInPoll PROVE SchedInv'
    BY <2>5, CrashInPollKeepsSched
  <2>6. ASSUME NEW e \in pending, CrashInFlush(e) PROVE SchedInv'
    BY <2>6 DEF TypeOK, SchedTypeOK, WorldTypeOK, SchedInv, CrashInFlush,
           LoseMemory, OrderOrNot, AtMostOnce, Jobs, PRE_OPEN_SYNC,
           ENTRY_OPEN, REBALANCE, RISK_CHECK_MID, RISK_CHECK_LATE, RISK_SWEEP,
           EOD_CANCEL_ORDERS, EOD_REPORT
  <2>7. ASSUME Poll PROVE SchedInv'
    BY <2>7, PollKeepsSched
  <2>8. ASSUME PreOpenSync PROVE SchedInv'
    BY <2>8 DEF TypeOK, SchedTypeOK, WorldTypeOK, SchedInv, PreOpenSync,
           Starts, Ends, Returns, Abandon, AtMostOnce, Jobs, PRE_OPEN_SYNC,
           ENTRY_OPEN, REBALANCE, RISK_CHECK_MID, RISK_CHECK_LATE, RISK_SWEEP,
           EOD_CANCEL_ORDERS, EOD_REPORT
  <2>9. ASSUME EntryOpen PROVE SchedInv'
    BY <2>9 DEF TypeOK, SchedTypeOK, WorldTypeOK, SchedInv, EntryOpen, Starts,
           Returns, Abandon, AtMostOnce, Jobs, PRE_OPEN_SYNC, ENTRY_OPEN,
           REBALANCE, RISK_CHECK_MID, RISK_CHECK_LATE, RISK_SWEEP,
           EOD_CANCEL_ORDERS, EOD_REPORT
  <2>10. ASSUME Rebalance PROVE SchedInv'
    BY <2>10, RunsOnceKeepsSched
       DEF Rebalance, Starts, Ends, Returns, Abandon, AtMostOnce
  <2>11. ASSUME NEW j \in {RISK_CHECK_MID, RISK_CHECK_LATE}, RiskCheck(j) PROVE SchedInv'
    BY <2>11 DEF TypeOK, SchedTypeOK, WorldTypeOK, SchedInv, RiskCheck,
           Starts, Ends, Returns, Abandon, Halt, AtMostOnce, Jobs,
           PRE_OPEN_SYNC, ENTRY_OPEN, REBALANCE, RISK_CHECK_MID,
           RISK_CHECK_LATE, RISK_SWEEP, EOD_CANCEL_ORDERS, EOD_REPORT
  <2>12. ASSUME RiskSweep PROVE SchedInv'
    BY <2>12 DEF TypeOK, SchedTypeOK, WorldTypeOK, SchedInv, RiskSweep,
           Starts, Ends, Returns, Abandon, SweepGate, AtMostOnce, Jobs,
           PRE_OPEN_SYNC, ENTRY_OPEN, REBALANCE, RISK_CHECK_MID,
           RISK_CHECK_LATE, RISK_SWEEP, EOD_CANCEL_ORDERS, EOD_REPORT
  <2>13. ASSUME EodCancelOrders PROVE SchedInv'
    BY <2>13, RunsOnceKeepsSched
       DEF EodCancelOrders, Starts, Ends, Returns, Abandon, AtMostOnce
  <2>14. ASSUME EodReport PROVE SchedInv'
    BY <2>14, RunsOnceKeepsSched
       DEF EodReport, Starts, Ends, Returns, Abandon, AtMostOnce
  <2>15. ASSUME JobsDone PROVE SchedInv'
    BY <2>15 DEF TypeOK, SchedTypeOK, WorldTypeOK, SchedInv, JobsDone,
           AtMostOnce, Jobs, PRE_OPEN_SYNC, ENTRY_OPEN, REBALANCE,
           RISK_CHECK_MID, RISK_CHECK_LATE, RISK_SWEEP, EOD_CANCEL_ORDERS,
           EOD_REPORT
  <2>16. ASSUME NEW e \in pending, FlushExpired(e) PROVE SchedInv'
    BY <2>16 DEF TypeOK, SchedTypeOK, WorldTypeOK, SchedInv, FlushExpired,
           InFlush, RowDeleted, AtMostOnce, Jobs, PRE_OPEN_SYNC, ENTRY_OPEN,
           REBALANCE, RISK_CHECK_MID, RISK_CHECK_LATE, RISK_SWEEP,
           EOD_CANCEL_ORDERS, EOD_REPORT
  <2>17. ASSUME NEW e \in pending, FlushSubmit(e) PROVE SchedInv'
    BY <2>17 DEF TypeOK, SchedTypeOK, WorldTypeOK, SchedInv, FlushSubmit,
           InFlush, RowDeleted, OrderOrNot, Abandon, AtMostOnce, Jobs,
           PRE_OPEN_SYNC, ENTRY_OPEN, REBALANCE, RISK_CHECK_MID,
           RISK_CHECK_LATE, RISK_SWEEP, EOD_CANCEL_ORDERS, EOD_REPORT
  <2>18. ASSUME FlushDone PROVE SchedInv'
    BY <2>18 DEF TypeOK, SchedTypeOK, WorldTypeOK, SchedInv, FlushDone,
           AtMostOnce, Jobs, PRE_OPEN_SYNC, ENTRY_OPEN, REBALANCE,
           RISK_CHECK_MID, RISK_CHECK_LATE, RISK_SWEEP, EOD_CANCEL_ORDERS,
           EOD_REPORT
  <2>19. ASSUME Watch PROVE SchedInv'
    BY <2>19 DEF TypeOK, SchedTypeOK, WorldTypeOK, SchedInv, Watch, LoopStep,
           Abandon, AtMostOnce, Jobs, PRE_OPEN_SYNC, ENTRY_OPEN, REBALANCE,
           RISK_CHECK_MID, RISK_CHECK_LATE, RISK_SWEEP, EOD_CANCEL_ORDERS,
           EOD_REPORT
  <2>20. ASSUME Tick PROVE SchedInv'
    BY <2>20 DEF TypeOK, SchedTypeOK, WorldTypeOK, SchedInv, Tick, LoopStep,
           Abandon, InboxTaken, AtMostOnce, Jobs, PRE_OPEN_SYNC, ENTRY_OPEN,
           REBALANCE, RISK_CHECK_MID, RISK_CHECK_LATE, RISK_SWEEP,
           EOD_CANCEL_ORDERS, EOD_REPORT
  <2>21. ASSUME NEW d \in batch, RouteDrop(d) PROVE SchedInv'
    BY <2>21 DEF TypeOK, SchedTypeOK, WorldTypeOK, SchedInv, RouteDrop,
           LoopStep, OrderOrNot, Defer, OtherSymbols, EntriesEnabled,
           AtMostOnce, Jobs, PRE_OPEN_SYNC, ENTRY_OPEN, REBALANCE,
           RISK_CHECK_MID, RISK_CHECK_LATE, RISK_SWEEP, EOD_CANCEL_ORDERS,
           EOD_REPORT
  <2>22. ASSUME NEW d \in batch, RouteRaises(d) PROVE SchedInv'
    BY <2>22 DEF TypeOK, SchedTypeOK, WorldTypeOK, SchedInv, RouteRaises,
           LoopStep, OrderOrNot, Abandon, EntriesEnabled, AtMostOnce, Jobs,
           PRE_OPEN_SYNC, ENTRY_OPEN, REBALANCE, RISK_CHECK_MID,
           RISK_CHECK_LATE, RISK_SWEEP, EOD_CANCEL_ORDERS, EOD_REPORT
  <2>23. ASSUME InboxDone PROVE SchedInv'
    BY <2>23 DEF TypeOK, SchedTypeOK, WorldTypeOK, SchedInv, InboxDone,
           LoopStep, AtMostOnce, Jobs, PRE_OPEN_SYNC, ENTRY_OPEN, REBALANCE,
           RISK_CHECK_MID, RISK_CHECK_LATE, RISK_SWEEP, EOD_CANCEL_ORDERS,
           EOD_REPORT
  <2>24. CASE UNCHANGED vars
    BY <2>24 DEF SchedInv
  <2>25. QED
    BY <2>1, <2>2, <2>3, <2>4, <2>5, <2>6, <2>7, <2>8, <2>9, <2>10, <2>11,
       <2>12, <2>13, <2>14, <2>15, <2>16, <2>17, <2>18, <2>19, <2>20, <2>21,
       <2>22, <2>23, <2>24
       DEF Next, World, Process, Loop, Job
<1>3. QED
  BY <1>1, <1>2, TypeCorrect, PTL DEF Spec

(* However often the process crashes, an at-most-once job starts once a    *)
(* day: what scheduler.py promises for the rebalance, the EOD cancel and   *)
(* the EOD report.                                                         *)
THEOREM JobsAtMostOnce == Spec => []AtMostOncePerDay
<1>1. SchedInv => AtMostOncePerDay
  BY DEF SchedInv, AtMostOncePerDay
<1>2. QED
  BY <1>1, SchedInvariant, PTL

-----------------------------------------------------------------------------
(* The gate and the sweep.                                                 *)

LEMMA TimeKeepsGate ==
  ASSUME TypeOK, GateInv, PassTime
  PROVE  GateInv'
<1>1. UNCHANGED <<iter, pc, enabled, skipped, lastFired, todo>>
  BY DEF PassTime
<1>2. \A j \in Jobs : lastFired'[j] <= clock'.day
  BY <1>1, ClockForward DEF GateInv, TypeOK, SchedTypeOK, WorldTypeOK, Days
<1>3. QED
  BY <1>1, <1>2 DEF GateInv, SweepClosesTheGate

LEMMA StartKeepsGate ==
  ASSUME TypeOK, GateInv, StartUp
  PROVE  GateInv'
  BY DEF StartUp, GateInv, SweepClosesTheGate, TypeOK, WorldTypeOK, Jobs,
         RISK_SWEEP, ENTRY_OPEN, Days

(* A job other than ENTRY_OPEN never opens the gate.                       *)
LEMMA JobKeepsGate ==
  ASSUME TypeOK, GateInv, NEW j \in Jobs, j # ENTRY_OPEN,
         Starts(j), Ends(j), enabled' => enabled, j = RISK_SWEEP => ~enabled'
  PROVE  GateInv'
<1>1. /\ j \in todo /\ \A k \in todo : j <= k
      /\ skipped' = skipped \ {j} /\ todo' \in {{}, todo \ {j}}
      /\ pc = "job" /\ pc' # "down" /\ UNCHANGED <<clock, iter, lastFired>>
  BY DEF Starts, Ends, Returns, Abandon
<1>2. ENTRY_OPEN \in todo' /\ lastFired'[RISK_SWEEP] = iter'.day
        => RISK_SWEEP \in todo'
  BY <1>1 DEF GateInv, ENTRY_OPEN, RISK_SWEEP
<1>3. SweepClosesTheGate'
  BY <1>1 DEF GateInv, SweepClosesTheGate
<1>4. QED
  BY <1>1, <1>2, <1>3 DEF GateInv

LEMMA RiskCheckKeepsGate ==
  ASSUME TypeOK, GateInv, NEW j \in {RISK_CHECK_MID, RISK_CHECK_LATE},
         RiskCheck(j)
  PROVE  GateInv'
<1>1. j \in Jobs /\ j # ENTRY_OPEN /\ j # RISK_SWEEP
  BY DEF Jobs, RISK_CHECK_MID, RISK_CHECK_LATE, ENTRY_OPEN, RISK_SWEEP
<1>2. Starts(j) /\ Ends(j) /\ (enabled' => enabled)
  BY DEF RiskCheck, Ends, Halt
<1>3. QED
  BY <1>1, <1>2, JobKeepsGate

LEMMA OpenKeepsGate ==
  ASSUME TypeOK, GateInv, EntryOpen
  PROVE  GateInv'
<1>1. /\ ENTRY_OPEN \in todo
      /\ skipped' = skipped \ {ENTRY_OPEN} /\ todo' \in {{}, todo \ {ENTRY_OPEN}}
      /\ pc = "job" /\ pc' # "down" /\ UNCHANGED <<clock, iter, lastFired>>
  BY DEF EntryOpen, Starts, Returns, Abandon
<1>2. lastFired[ENTRY_OPEN] = iter.day
  BY <1>1 DEF GateInv
<1>3. RISK_SWEEP \in skipped \/ lastFired[RISK_SWEEP] < lastFired[ENTRY_OPEN]
  BY <1>1, <1>2 DEF GateInv, TypeOK, SchedTypeOK, Jobs, RISK_SWEEP, ENTRY_OPEN,
                    Days
<1>4. SweepClosesTheGate'
  BY <1>1, <1>3 DEF SweepClosesTheGate, RISK_SWEEP, ENTRY_OPEN
<1>5. QED
  BY <1>1, <1>4 DEF GateInv

LEMMA PollKeepsGate ==
  ASSUME TypeOK, GateInv, Poll
  PROVE  GateInv'
<1>1. /\ RISK_SWEEP \in Jobs /\ ENTRY_OPEN \in Jobs
      /\ RISK_SWEEP \notin AtMostOnce /\ ENTRY_OPEN \notin AtMostOnce
  BY DEF RISK_SWEEP, ENTRY_OPEN, Jobs, AtMostOnce, REBALANCE,
         EOD_CANCEL_ORDERS, EOD_REPORT
<1>2. /\ clock.day \in Nat /\ clock.day > 0 /\ clock.slot \in Nat
      /\ \A j \in Jobs : lastFired[j] \in Nat
  BY DEF TypeOK, WorldTypeOK, SchedTypeOK, Days, Slots
<1>3. /\ iter' = clock /\ todo' = Due /\ skipped' = skipped \cup Due
      /\ pc = "idle" /\ pc' = "job" /\ UNCHANGED <<clock, enabled>>
  BY DEF Poll
<1>4. \A j \in Jobs :
         lastFired'[j] = IF j \in Due THEN clock.day ELSE lastFired[j]
  BY DEF Poll
<1>5. RISK_SWEEP \in Due
        => ENTRY_OPEN \in Due \/ lastFired[ENTRY_OPEN] = clock.day
  BY <1>1, <1>2 DEF Due, Last, RISK_SWEEP, ENTRY_OPEN
<1>6. lastFired'[RISK_SWEEP] <= lastFired'[ENTRY_OPEN]
  BY <1>1, <1>2, <1>4, <1>5 DEF GateInv
<1>7. ENTRY_OPEN \in Due => lastFired[ENTRY_OPEN] < clock.day
  BY <1>1, <1>2 DEF Due, Last, GateInv
<1>8. ENTRY_OPEN \in todo' /\ lastFired'[RISK_SWEEP] = iter'.day
        => RISK_SWEEP \in todo'
  BY <1>1, <1>2, <1>3, <1>4, <1>7 DEF GateInv
<1>9. SweepClosesTheGate'
  BY <1>1, <1>2, <1>3, <1>4, <1>7 DEF GateInv, SweepClosesTheGate
<1>10. Due \subseteq Jobs
  BY DEF Due
<1>11. /\ \A j \in Jobs : lastFired'[j] <= clock'.day
       /\ \A j \in todo' : lastFired'[j] = iter'.day
  BY <1>2, <1>3, <1>4, <1>10 DEF GateInv
<1>12. QED
  BY <1>3, <1>6, <1>8, <1>9, <1>11 DEF GateInv


(* The order in which the open and the sweep of a day fire.                *)
LEMMA GateInvariant == Spec => []GateInv
<1>1. Init => GateInv
  BY DEF Init, GateInv, SweepClosesTheGate, Jobs, RISK_SWEEP, ENTRY_OPEN
<1>2. TypeOK /\ GateInv /\ [Next]_vars => GateInv'
  <2> SUFFICES ASSUME TypeOK, GateInv, [Next]_vars PROVE GateInv'
    OBVIOUS
  <2>1. ASSUME PassTime PROVE GateInv'
    BY <2>1, TimeKeepsGate
  <2>2. ASSUME WriteDrop PROVE GateInv'
    BY <2>2 DEF TypeOK, SchedTypeOK, WorldTypeOK, GateInv, SweepClosesTheGate,
           WriteDrop, ENTRY_OPEN, RISK_SWEEP
  <2>3. ASSUME StartUp PROVE GateInv'
    BY <2>3, StartKeepsGate
  <2>4. ASSUME Crash PROVE GateInv'
    BY <2>4 DEF TypeOK, SchedTypeOK, WorldTypeOK, GateInv, SweepClosesTheGate,
           Crash, LoseMemory, ENTRY_OPEN, RISK_SWEEP
  <2>5. ASSUME CrashInPoll PROVE GateInv'
    BY <2>5 DEF TypeOK, SchedTypeOK, WorldTypeOK, GateInv, SweepClosesTheGate,
           CrashInPoll, LoseMemory, Persist, Due, Last, ENTRY_OPEN, RISK_SWEEP
  <2>6. ASSUME NEW e \in pending, CrashInFlush(e) PROVE GateInv'
    BY <2>6 DEF TypeOK, SchedTypeOK, WorldTypeOK, GateInv, SweepClosesTheGate,
           CrashInFlush, LoseMemory, OrderOrNot, ENTRY_OPEN, RISK_SWEEP
  <2>7. ASSUME Poll PROVE GateInv'
    BY <2>7, PollKeepsGate
  <2>8. ASSUME PreOpenSync PROVE GateInv'
    BY <2>8, JobKeepsGate DEF PreOpenSync, Jobs, ENTRY_OPEN, RISK_SWEEP, gateVars, PRE_OPEN_SYNC, REBALANCE,
              RISK_CHECK_MID, RISK_CHECK_LATE, EOD_CANCEL_ORDERS, EOD_REPORT
  <2>9. ASSUME EntryOpen PROVE GateInv'
    BY <2>9, OpenKeepsGate
  <2>10. ASSUME Rebalance PROVE GateInv'
    BY <2>10, JobKeepsGate DEF Rebalance, Jobs, ENTRY_OPEN, RISK_SWEEP, gateVars, PRE_OPEN_SYNC, REBALANCE,
              RISK_CHECK_MID, RISK_CHECK_LATE, EOD_CANCEL_ORDERS, EOD_REPORT
  <2>11. ASSUME NEW j \in {RISK_CHECK_MID, RISK_CHECK_LATE}, RiskCheck(j) PROVE GateInv'
    BY <2>11, RiskCheckKeepsGate
  <2>12. ASSUME RiskSweep PROVE GateInv'
    BY <2>12, JobKeepsGate DEF RiskSweep, SweepGate, Jobs, ENTRY_OPEN, RISK_SWEEP, gateVars, PRE_OPEN_SYNC, REBALANCE,
              RISK_CHECK_MID, RISK_CHECK_LATE, EOD_CANCEL_ORDERS, EOD_REPORT
  <2>13. ASSUME EodCancelOrders PROVE GateInv'
    BY <2>13, JobKeepsGate DEF EodCancelOrders, Jobs, ENTRY_OPEN, RISK_SWEEP, gateVars, PRE_OPEN_SYNC, REBALANCE,
              RISK_CHECK_MID, RISK_CHECK_LATE, EOD_CANCEL_ORDERS, EOD_REPORT
  <2>14. ASSUME EodReport PROVE GateInv'
    BY <2>14, JobKeepsGate DEF EodReport, Jobs, ENTRY_OPEN, RISK_SWEEP, gateVars, PRE_OPEN_SYNC, REBALANCE,
              RISK_CHECK_MID, RISK_CHECK_LATE, EOD_CANCEL_ORDERS, EOD_REPORT
  <2>15. ASSUME JobsDone PROVE GateInv'
    BY <2>15 DEF TypeOK, SchedTypeOK, WorldTypeOK, GateInv,
           SweepClosesTheGate, JobsDone, ENTRY_OPEN, RISK_SWEEP
  <2>16. ASSUME NEW e \in pending, FlushExpired(e) PROVE GateInv'
    BY <2>16 DEF TypeOK, SchedTypeOK, WorldTypeOK, GateInv,
           SweepClosesTheGate, FlushExpired, InFlush, RowDeleted, ENTRY_OPEN,
           RISK_SWEEP
  <2>17. ASSUME NEW e \in pending, FlushSubmit(e) PROVE GateInv'
    BY <2>17 DEF TypeOK, SchedTypeOK, WorldTypeOK, GateInv,
           SweepClosesTheGate, FlushSubmit, InFlush, RowDeleted, OrderOrNot,
           Abandon, ENTRY_OPEN, RISK_SWEEP
  <2>18. ASSUME FlushDone PROVE GateInv'
    BY <2>18 DEF TypeOK, SchedTypeOK, WorldTypeOK, GateInv,
           SweepClosesTheGate, FlushDone, ENTRY_OPEN, RISK_SWEEP
  <2>19. ASSUME Watch PROVE GateInv'
    BY <2>19 DEF TypeOK, SchedTypeOK, WorldTypeOK, GateInv,
           SweepClosesTheGate, Watch, LoopStep, Abandon, ENTRY_OPEN,
           RISK_SWEEP
  <2>20. ASSUME Tick PROVE GateInv'
    BY <2>20 DEF TypeOK, SchedTypeOK, WorldTypeOK, GateInv,
           SweepClosesTheGate, Tick, LoopStep, Abandon, InboxTaken,
           ENTRY_OPEN, RISK_SWEEP
  <2>21. ASSUME NEW d \in batch, RouteDrop(d) PROVE GateInv'
    BY <2>21 DEF TypeOK, SchedTypeOK, WorldTypeOK, GateInv,
           SweepClosesTheGate, RouteDrop, LoopStep, OrderOrNot, Defer,
           OtherSymbols, EntriesEnabled, ENTRY_OPEN, RISK_SWEEP
  <2>22. ASSUME NEW d \in batch, RouteRaises(d) PROVE GateInv'
    BY <2>22 DEF TypeOK, SchedTypeOK, WorldTypeOK, GateInv,
           SweepClosesTheGate, RouteRaises, LoopStep, OrderOrNot, Abandon,
           EntriesEnabled, ENTRY_OPEN, RISK_SWEEP
  <2>23. ASSUME InboxDone PROVE GateInv'
    BY <2>23 DEF TypeOK, SchedTypeOK, WorldTypeOK, GateInv,
           SweepClosesTheGate, InboxDone, LoopStep, ENTRY_OPEN, RISK_SWEEP
  <2>24. CASE UNCHANGED vars
    BY <2>24 DEF GateInv, SweepClosesTheGate
  <2>25. QED
    BY <2>1, <2>2, <2>3, <2>4, <2>5, <2>6, <2>7, <2>8, <2>9, <2>10, <2>11,
       <2>12, <2>13, <2>14, <2>15, <2>16, <2>17, <2>18, <2>19, <2>20, <2>21,
       <2>22, <2>23, <2>24
       DEF Next, World, Process, Loop, Job
<1>3. QED
  BY <1>1, <1>2, TypeCorrect, PTL DEF Spec

(* An open gate is closed by the sweep of its day, unless the sweep was    *)
(* dropped with the rest of an iteration that raised.                      *)
THEOREM GateIsClosedBySweep == Spec => []SweepClosesTheGate
<1>1. GateInv => SweepClosesTheGate
  BY DEF GateInv
<1>2. QED
  BY <1>1, GateInvariant, PTL

-----------------------------------------------------------------------------
(* The deferred entries.                                                   *)

(* The queue, the list being replayed and the stranded rows.               *)
LEMMA QueueInvariant == Spec => []QueueInv
<1>1. Init => QueueInv
  BY DEF Init, QueueInv, RowsAccountedFor
<1>2. TypeOK /\ QueueInv /\ [Next]_vars => QueueInv'
  <2> SUFFICES ASSUME TypeOK, QueueInv, [Next]_vars PROVE QueueInv'
    OBVIOUS
  <2>1. ASSUME PassTime PROVE QueueInv'
    BY <2>1 DEF TypeOK, QueueTypeOK, QueueInv, RowsAccountedFor, PassTime,
           Entry
  <2>2. ASSUME WriteDrop PROVE QueueInv'
    BY <2>2 DEF TypeOK, QueueTypeOK, QueueInv, RowsAccountedFor, WriteDrop,
           Entry
  <2>3. ASSUME StartUp PROVE QueueInv'
    BY <2>3 DEF TypeOK, QueueTypeOK, QueueInv, RowsAccountedFor, StartUp,
           Restored, Entry
  <2>4. ASSUME Crash PROVE QueueInv'
    BY <2>4 DEF TypeOK, QueueTypeOK, QueueInv, RowsAccountedFor, Crash,
           LoseMemory, Entry
  <2>5. ASSUME CrashInPoll PROVE QueueInv'
    BY <2>5 DEF TypeOK, QueueTypeOK, QueueInv, RowsAccountedFor, CrashInPoll,
           LoseMemory, Persist, Due, Last, Entry
  <2>6. ASSUME NEW e \in pending, CrashInFlush(e) PROVE QueueInv'
    BY <2>6 DEF TypeOK, QueueTypeOK, QueueInv, RowsAccountedFor, CrashInFlush,
           LoseMemory, OrderOrNot, Entry
  <2>7. ASSUME Poll PROVE QueueInv'
    BY <2>7 DEF TypeOK, QueueTypeOK, QueueInv, RowsAccountedFor, Poll,
           Persist, Due, Last, Entry
  <2>8. ASSUME PreOpenSync PROVE QueueInv'
    BY <2>8 DEF TypeOK, QueueTypeOK, QueueInv, RowsAccountedFor, PreOpenSync,
           Starts, Ends, Returns, Abandon, Entry
  <2>9. ASSUME EntryOpen PROVE QueueInv'
    BY <2>9 DEF TypeOK, QueueTypeOK, QueueInv, RowsAccountedFor, EntryOpen,
           Starts, Returns, Abandon, Entry
  <2>10. ASSUME Rebalance PROVE QueueInv'
    BY <2>10 DEF TypeOK, QueueTypeOK, QueueInv, RowsAccountedFor, Rebalance,
           Starts, Ends, Returns, Abandon, RunsOnce, Entry
  <2>11. ASSUME NEW j \in {RISK_CHECK_MID, RISK_CHECK_LATE}, RiskCheck(j) PROVE QueueInv'
    BY <2>11 DEF TypeOK, QueueTypeOK, QueueInv, RowsAccountedFor, RiskCheck,
           Starts, Ends, Returns, Abandon, Halt, Entry
  <2>12. ASSUME RiskSweep PROVE QueueInv'
    BY <2>12 DEF TypeOK, QueueTypeOK, QueueInv, RowsAccountedFor, RiskSweep,
           Starts, Ends, Returns, Abandon, SweepGate, Entry
  <2>13. ASSUME EodCancelOrders PROVE QueueInv'
    BY <2>13 DEF TypeOK, QueueTypeOK, QueueInv, RowsAccountedFor,
           EodCancelOrders, Starts, Ends, Returns, Abandon, RunsOnce, Entry
  <2>14. ASSUME EodReport PROVE QueueInv'
    BY <2>14 DEF TypeOK, QueueTypeOK, QueueInv, RowsAccountedFor, EodReport,
           Starts, Ends, Returns, Abandon, RunsOnce, Entry
  <2>15. ASSUME JobsDone PROVE QueueInv'
    BY <2>15 DEF TypeOK, QueueTypeOK, QueueInv, RowsAccountedFor, JobsDone,
           Entry
  <2>16. ASSUME NEW e \in pending, FlushExpired(e) PROVE QueueInv'
    BY <2>16 DEF TypeOK, QueueTypeOK, QueueInv, RowsAccountedFor,
           FlushExpired, InFlush, RowDeleted, Entry
  <2>17. ASSUME NEW e \in pending, FlushSubmit(e) PROVE QueueInv'
    BY <2>17 DEF TypeOK, QueueTypeOK, QueueInv, RowsAccountedFor, FlushSubmit,
           InFlush, RowDeleted, OrderOrNot, Abandon, Entry
  <2>18. ASSUME FlushDone PROVE QueueInv'
    BY <2>18 DEF TypeOK, QueueTypeOK, QueueInv, RowsAccountedFor, FlushDone,
           Entry
  <2>19. ASSUME Watch PROVE QueueInv'
    BY <2>19 DEF TypeOK, QueueTypeOK, QueueInv, RowsAccountedFor, Watch,
           LoopStep, Abandon, Entry
  <2>20. ASSUME Tick PROVE QueueInv'
    BY <2>20 DEF TypeOK, QueueTypeOK, QueueInv, RowsAccountedFor, Tick,
           LoopStep, Abandon, InboxTaken, Entry
  <2>21. ASSUME NEW d \in batch, RouteDrop(d) PROVE QueueInv'
    BY <2>21 DEF TypeOK, QueueTypeOK, QueueInv, RowsAccountedFor, RouteDrop,
           LoopStep, OrderOrNot, Defer, OtherSymbols, EntriesEnabled, Entry
  <2>22. ASSUME NEW d \in batch, RouteRaises(d) PROVE QueueInv'
    BY <2>22 DEF TypeOK, QueueTypeOK, QueueInv, RowsAccountedFor, RouteRaises,
           LoopStep, OrderOrNot, Abandon, EntriesEnabled, Entry
  <2>23. ASSUME InboxDone PROVE QueueInv'
    BY <2>23 DEF TypeOK, QueueTypeOK, QueueInv, RowsAccountedFor, InboxDone,
           LoopStep, Entry
  <2>24. CASE UNCHANGED vars
    BY <2>24 DEF QueueInv, RowsAccountedFor
  <2>25. QED
    BY <2>1, <2>2, <2>3, <2>4, <2>5, <2>6, <2>7, <2>8, <2>9, <2>10, <2>11,
       <2>12, <2>13, <2>14, <2>15, <2>16, <2>17, <2>18, <2>19, <2>20, <2>21,
       <2>22, <2>23, <2>24
       DEF Next, World, Process, Loop, Job
<1>3. QED
  BY <1>1, <1>2, TypeCorrect, PTL DEF Spec

(* No deferred entry lives in memory only, none is lost without an         *)
(* exception, and a symbol has one entry.                                  *)
THEOREM RowsAreAccountedFor == Spec => []RowsAccountedFor
<1>1. QueueInv => RowsAccountedFor
  BY DEF QueueInv
<1>2. QED
  BY <1>1, QueueInvariant, PTL

(* An order for one drop and for no other.                                 *)
LEMMA OrderCount ==
  ASSUME TypeOK, NEW x \in Drops, OrderOrNot(x)
  PROVE  \A d \in Drops :
            /\ placed[d] \in Nat /\ placed'[d] \in Nat
            /\ placed[d] <= placed'[d] /\ placed'[d] <= placed[d] + 1
            /\ d # x => placed'[d] = placed[d]
  BY DEF OrderOrNot, TypeOK, InboxTypeOK

(* The entry being replayed has not been ordered by this process.          *)
LEMMA PendingIsFresh ==
  ASSUME TypeOK, QueueInv, DropInv, NEW e \in pending, pc # "down"
  PROVE  e \in rows /\ e.drop \in Drops /\ placed[e.drop] <= crashes
<1>1. e \in rows /\ e.drop \in Drops
  BY DEF QueueInv, RowsAccountedFor, TypeOK, QueueTypeOK, Entry
<1>2. QED
  BY <1>1 DEF DropInv

LEMMA CrashInFlushKeepsDrops ==
  ASSUME TypeOK, QueueInv, DropInv, NEW e \in pending, CrashInFlush(e)
  PROVE  DropInv'
<1>1. e \in rows /\ e.drop \in Drops /\ placed[e.drop] <= crashes
  BY PendingIsFresh DEF CrashInFlush
<1>2. \A d \in Drops :
            /\ placed[d] \in Nat /\ placed'[d] \in Nat
            /\ placed[d] <= placed'[d] /\ placed'[d] <= placed[d] + 1
            /\ d # e.drop => placed'[d] = placed[d]
  BY <1>1, OrderCount DEF CrashInFlush
<1>3. crashes' = crashes + 1 /\ crashes \in Nat
  BY DEF CrashInFlush, LoseMemory, TypeOK, WorldTypeOK
<1>4. \A d \in Drops : placed'[d] <= crashes'
  BY <1>1, <1>2, <1>3 DEF DropInv
<1>5. batch' = {} /\ UNCHANGED <<inbox, rows, nextDrop>>
  BY DEF CrashInFlush, LoseMemory
<1>6. \A r \in rows : r.drop \in Drops
  BY DEF TypeOK, QueueTypeOK, Entry
<1>7. QED
  BY <1>2, <1>3, <1>4, <1>5, <1>6
     DEF DropInv, TypeOK, InboxTypeOK, WorldTypeOK, Drops

LEMMA SubmitKeepsDrops ==
  ASSUME TypeOK, QueueInv, DropInv, NEW e \in pending, FlushSubmit(e)
  PROVE  DropInv'
<1>1. e \in rows /\ e.drop \in Drops /\ placed[e.drop] <= crashes
  BY PendingIsFresh DEF FlushSubmit, InFlush
<1>2. \A d \in Drops :
            /\ placed[d] \in Nat /\ placed'[d] \in Nat
            /\ placed[d] <= placed'[d] /\ placed'[d] <= placed[d] + 1
            /\ d # e.drop => placed'[d] = placed[d]
  BY <1>1, OrderCount DEF FlushSubmit
<1>3. crashes' = crashes /\ crashes \in Nat
  BY DEF FlushSubmit, TypeOK, WorldTypeOK
<1>4. /\ UNCHANGED <<batch, inbox, nextDrop, deferred>>
      /\ rows' \subseteq rows /\ pending' \subseteq pending \ {e}
      /\ pc = "flush" /\ pc' # "down"
  BY DEF FlushSubmit, InFlush, RowDeleted, Abandon
<1>5. \A r \in rows : r.drop \in Drops
  BY DEF TypeOK, QueueTypeOK, Entry
<1>6. \A r \in rows : r.drop = e.drop => r = e
  BY <1>1 DEF QueueInv
<1>7. deferred = {}
  BY <1>4 DEF QueueInv
<1>8. \A d \in Drops : placed'[d] <= 1 + crashes
  BY <1>1, <1>2, <1>3 DEF DropInv
<1>9. \A r \in rows : r \in deferred' \cup pending' => placed'[r.drop] <= crashes
  BY <1>2, <1>4, <1>5, <1>6, <1>7 DEF DropInv
<1>10. \A d \in Drops : d \in inbox \cup batch \/ d >= nextDrop
                          => placed'[d] = placed[d]
  BY <1>1, <1>2 DEF DropInv, TypeOK, WorldTypeOK, Drops
<1>11. QED
  BY <1>3, <1>4, <1>5, <1>8, <1>9, <1>10 DEF DropInv


(* Where a drop can be, and whether it can still become an order.          *)
LEMMA DropInvariant == Spec => []DropInv
<1>1. Init => DropInv
  BY DEF Init, DropInv, Drops
<1>2. TypeOK /\ QueueInv /\ DropInv /\ [Next]_vars => DropInv'
  <2> SUFFICES ASSUME TypeOK, QueueInv, DropInv, [Next]_vars PROVE DropInv'
    OBVIOUS
  <2>1. ASSUME PassTime PROVE DropInv'
    BY <2>1 DEF TypeOK, QueueTypeOK, InboxTypeOK, WorldTypeOK, DropInv,
           PassTime, QueueInv, RowsAccountedFor, Entry, Drops
  <2>2. ASSUME WriteDrop PROVE DropInv'
    BY <2>2 DEF TypeOK, QueueTypeOK, InboxTypeOK, WorldTypeOK, DropInv,
           WriteDrop, QueueInv, RowsAccountedFor, Entry, Drops
  <2>3. ASSUME StartUp PROVE DropInv'
    BY <2>3 DEF TypeOK, QueueTypeOK, InboxTypeOK, WorldTypeOK, DropInv,
           StartUp, Restored, QueueInv, RowsAccountedFor, Entry, Drops
  <2>4. ASSUME Crash PROVE DropInv'
    BY <2>4 DEF TypeOK, QueueTypeOK, InboxTypeOK, WorldTypeOK, DropInv, Crash,
           LoseMemory, QueueInv, RowsAccountedFor, Entry, Drops
  <2>5. ASSUME CrashInPoll PROVE DropInv'
    BY <2>5 DEF TypeOK, QueueTypeOK, InboxTypeOK, WorldTypeOK, DropInv,
           CrashInPoll, LoseMemory, Persist, Due, Last, QueueInv,
           RowsAccountedFor, Entry, Drops
  <2>6. ASSUME NEW e \in pending, CrashInFlush(e) PROVE DropInv'
    BY <2>6, CrashInFlushKeepsDrops
  <2>7. ASSUME Poll PROVE DropInv'
    BY <2>7 DEF TypeOK, QueueTypeOK, InboxTypeOK, WorldTypeOK, DropInv, Poll,
           Persist, Due, Last, QueueInv, RowsAccountedFor, Entry, Drops
  <2>8. ASSUME PreOpenSync PROVE DropInv'
    BY <2>8 DEF TypeOK, QueueTypeOK, InboxTypeOK, WorldTypeOK, DropInv,
           PreOpenSync, Starts, Ends, Returns, Abandon, QueueInv,
           RowsAccountedFor, Entry, Drops
  <2>9. ASSUME EntryOpen PROVE DropInv'
    BY <2>9 DEF TypeOK, QueueTypeOK, InboxTypeOK, WorldTypeOK, DropInv,
           EntryOpen, Starts, Returns, Abandon, QueueInv, RowsAccountedFor,
           Entry, Drops
  <2>10. ASSUME Rebalance PROVE DropInv'
    BY <2>10 DEF TypeOK, QueueTypeOK, InboxTypeOK, WorldTypeOK, DropInv,
           Rebalance, Starts, Ends, Returns, Abandon, RunsOnce, QueueInv,
           RowsAccountedFor, Entry, Drops
  <2>11. ASSUME NEW j \in {RISK_CHECK_MID, RISK_CHECK_LATE}, RiskCheck(j) PROVE DropInv'
    BY <2>11 DEF TypeOK, QueueTypeOK, InboxTypeOK, WorldTypeOK, DropInv,
           RiskCheck, Starts, Ends, Returns, Abandon, Halt, QueueInv,
           RowsAccountedFor, Entry, Drops
  <2>12. ASSUME RiskSweep PROVE DropInv'
    BY <2>12 DEF TypeOK, QueueTypeOK, InboxTypeOK, WorldTypeOK, DropInv,
           RiskSweep, Starts, Ends, Returns, Abandon, SweepGate, QueueInv,
           RowsAccountedFor, Entry, Drops
  <2>13. ASSUME EodCancelOrders PROVE DropInv'
    BY <2>13 DEF TypeOK, QueueTypeOK, InboxTypeOK, WorldTypeOK, DropInv,
           EodCancelOrders, Starts, Ends, Returns, Abandon, RunsOnce,
           QueueInv, RowsAccountedFor, Entry, Drops
  <2>14. ASSUME EodReport PROVE DropInv'
    BY <2>14 DEF TypeOK, QueueTypeOK, InboxTypeOK, WorldTypeOK, DropInv,
           EodReport, Starts, Ends, Returns, Abandon, RunsOnce, QueueInv,
           RowsAccountedFor, Entry, Drops
  <2>15. ASSUME JobsDone PROVE DropInv'
    BY <2>15 DEF TypeOK, QueueTypeOK, InboxTypeOK, WorldTypeOK, DropInv,
           JobsDone, QueueInv, RowsAccountedFor, Entry, Drops
  <2>16. ASSUME NEW e \in pending, FlushExpired(e) PROVE DropInv'
    BY <2>16 DEF TypeOK, QueueTypeOK, InboxTypeOK, WorldTypeOK, DropInv,
           FlushExpired, InFlush, RowDeleted, QueueInv, RowsAccountedFor,
           Entry, Drops
  <2>17. ASSUME NEW e \in pending, FlushSubmit(e) PROVE DropInv'
    BY <2>17, SubmitKeepsDrops
  <2>18. ASSUME FlushDone PROVE DropInv'
    BY <2>18 DEF TypeOK, QueueTypeOK, InboxTypeOK, WorldTypeOK, DropInv,
           FlushDone, QueueInv, RowsAccountedFor, Entry, Drops
  <2>19. ASSUME Watch PROVE DropInv'
    BY <2>19 DEF TypeOK, QueueTypeOK, InboxTypeOK, WorldTypeOK, DropInv,
           Watch, LoopStep, Abandon, QueueInv, RowsAccountedFor, Entry, Drops
  <2>20. ASSUME Tick PROVE DropInv'
    BY <2>20 DEF TypeOK, QueueTypeOK, InboxTypeOK, WorldTypeOK, DropInv, Tick,
           LoopStep, Abandon, InboxTaken, QueueInv, RowsAccountedFor, Entry,
           Drops
  <2>21. ASSUME NEW d \in batch, RouteDrop(d) PROVE DropInv'
    BY <2>21 DEF TypeOK, QueueTypeOK, InboxTypeOK, WorldTypeOK, DropInv,
           RouteDrop, LoopStep, OrderOrNot, Defer, OtherSymbols,
           EntriesEnabled, QueueInv, RowsAccountedFor, Entry, Drops
  <2>22. ASSUME NEW d \in batch, RouteRaises(d) PROVE DropInv'
    BY <2>22 DEF TypeOK, QueueTypeOK, InboxTypeOK, WorldTypeOK, DropInv,
           RouteRaises, LoopStep, OrderOrNot, Abandon, EntriesEnabled,
           QueueInv, RowsAccountedFor, Entry, Drops
  <2>23. ASSUME InboxDone PROVE DropInv'
    BY <2>23 DEF TypeOK, QueueTypeOK, InboxTypeOK, WorldTypeOK, DropInv,
           InboxDone, LoopStep, QueueInv, RowsAccountedFor, Entry, Drops
  <2>24. CASE UNCHANGED vars
    BY <2>24 DEF DropInv
  <2>25. QED
    BY <2>1, <2>2, <2>3, <2>4, <2>5, <2>6, <2>7, <2>8, <2>9, <2>10, <2>11,
       <2>12, <2>13, <2>14, <2>15, <2>16, <2>17, <2>18, <2>19, <2>20, <2>21,
       <2>22, <2>23, <2>24
       DEF Next, World, Process, Loop, Job
<1>3. QED
  BY <1>1, <1>2, TypeCorrect, QueueInvariant, PTL DEF Spec

(* Nothing but a crash lets a drop become a second order.                  *)
THEOREM DropsOncePerProcess == Spec => []DropOncePerProcess
<1>1. DropInv => DropOncePerProcess
  BY DEF DropInv, DropOncePerProcess
<1>2. QED
  BY <1>1, DropInvariant, PTL

-----------------------------------------------------------------------------
(* The halt.                                                               *)

(* A process that recorded a halt stays halted and leaves run_once early.  *)
LEMMA HaltInvariant == Spec => []HaltInv
<1>1. Init => HaltInv
  BY DEF Init, HaltInv
<1>2. TypeOK /\ HaltInv /\ [Next]_vars => HaltInv'
  <2> SUFFICES ASSUME TypeOK, HaltInv, [Next]_vars PROVE HaltInv'
    OBVIOUS
  <2>1. ASSUME PassTime PROVE HaltInv'
    BY <2>1 DEF TypeOK, GateTypeOK, WorldTypeOK, HaltInv, PassTime
  <2>2. ASSUME WriteDrop PROVE HaltInv'
    BY <2>2 DEF TypeOK, GateTypeOK, WorldTypeOK, HaltInv, WriteDrop
  <2>3. ASSUME StartUp PROVE HaltInv'
    BY <2>3 DEF TypeOK, GateTypeOK, WorldTypeOK, HaltInv, StartUp, Restored
  <2>4. ASSUME Crash PROVE HaltInv'
    BY <2>4 DEF TypeOK, GateTypeOK, WorldTypeOK, HaltInv, Crash, LoseMemory
  <2>5. ASSUME CrashInPoll PROVE HaltInv'
    BY <2>5 DEF TypeOK, GateTypeOK, WorldTypeOK, HaltInv, CrashInPoll,
           LoseMemory, Persist, Due, Last
  <2>6. ASSUME NEW e \in pending, CrashInFlush(e) PROVE HaltInv'
    BY <2>6 DEF TypeOK, GateTypeOK, WorldTypeOK, HaltInv, CrashInFlush,
           LoseMemory, OrderOrNot
  <2>7. ASSUME Poll PROVE HaltInv'
    BY <2>7 DEF TypeOK, GateTypeOK, WorldTypeOK, HaltInv, Poll, Persist, Due,
           Last
  <2>8. ASSUME PreOpenSync PROVE HaltInv'
    BY <2>8 DEF TypeOK, GateTypeOK, WorldTypeOK, HaltInv, PreOpenSync, Starts,
           Ends, Returns, Abandon
  <2>9. ASSUME EntryOpen PROVE HaltInv'
    BY <2>9 DEF TypeOK, GateTypeOK, WorldTypeOK, HaltInv, EntryOpen, Starts,
           Returns, Abandon
  <2>10. ASSUME Rebalance PROVE HaltInv'
    BY <2>10 DEF TypeOK, GateTypeOK, WorldTypeOK, HaltInv, Rebalance, Starts,
           Ends, Returns, Abandon, RunsOnce
  <2>11. ASSUME NEW j \in {RISK_CHECK_MID, RISK_CHECK_LATE}, RiskCheck(j) PROVE HaltInv'
    BY <2>11 DEF TypeOK, GateTypeOK, WorldTypeOK, HaltInv, RiskCheck, Starts,
           Ends, Returns, Abandon, Halt
  <2>12. ASSUME RiskSweep PROVE HaltInv'
    BY <2>12 DEF TypeOK, GateTypeOK, WorldTypeOK, HaltInv, RiskSweep, Starts,
           Ends, Returns, Abandon, SweepGate
  <2>13. ASSUME EodCancelOrders PROVE HaltInv'
    BY <2>13 DEF TypeOK, GateTypeOK, WorldTypeOK, HaltInv, EodCancelOrders,
           Starts, Ends, Returns, Abandon, RunsOnce
  <2>14. ASSUME EodReport PROVE HaltInv'
    BY <2>14 DEF TypeOK, GateTypeOK, WorldTypeOK, HaltInv, EodReport, Starts,
           Ends, Returns, Abandon, RunsOnce
  <2>15. ASSUME JobsDone PROVE HaltInv'
    BY <2>15 DEF TypeOK, GateTypeOK, WorldTypeOK, HaltInv, JobsDone
  <2>16. ASSUME NEW e \in pending, FlushExpired(e) PROVE HaltInv'
    BY <2>16 DEF TypeOK, GateTypeOK, WorldTypeOK, HaltInv, FlushExpired,
           InFlush, RowDeleted
  <2>17. ASSUME NEW e \in pending, FlushSubmit(e) PROVE HaltInv'
    BY <2>17 DEF TypeOK, GateTypeOK, WorldTypeOK, HaltInv, FlushSubmit,
           InFlush, RowDeleted, OrderOrNot, Abandon
  <2>18. ASSUME FlushDone PROVE HaltInv'
    BY <2>18 DEF TypeOK, GateTypeOK, WorldTypeOK, HaltInv, FlushDone
  <2>19. ASSUME Watch PROVE HaltInv'
    BY <2>19 DEF TypeOK, GateTypeOK, WorldTypeOK, HaltInv, Watch, LoopStep,
           Abandon
  <2>20. ASSUME Tick PROVE HaltInv'
    BY <2>20 DEF TypeOK, GateTypeOK, WorldTypeOK, HaltInv, Tick, LoopStep,
           Abandon, InboxTaken
  <2>21. ASSUME NEW d \in batch, RouteDrop(d) PROVE HaltInv'
    BY <2>21 DEF TypeOK, GateTypeOK, WorldTypeOK, HaltInv, RouteDrop,
           LoopStep, OrderOrNot, Defer, OtherSymbols, EntriesEnabled
  <2>22. ASSUME NEW d \in batch, RouteRaises(d) PROVE HaltInv'
    BY <2>22 DEF TypeOK, GateTypeOK, WorldTypeOK, HaltInv, RouteRaises,
           LoopStep, OrderOrNot, Abandon, EntriesEnabled
  <2>23. ASSUME InboxDone PROVE HaltInv'
    BY <2>23 DEF TypeOK, GateTypeOK, WorldTypeOK, HaltInv, InboxDone, LoopStep
  <2>24. CASE UNCHANGED vars
    BY <2>24 DEF HaltInv
  <2>25. QED
    BY <2>1, <2>2, <2>3, <2>4, <2>5, <2>6, <2>7, <2>8, <2>9, <2>10, <2>11,
       <2>12, <2>13, <2>14, <2>15, <2>16, <2>17, <2>18, <2>19, <2>20, <2>21,
       <2>22, <2>23, <2>24
       DEF Next, World, Process, Loop, Job
<1>3. QED
  BY <1>1, <1>2, TypeCorrect, PTL DEF Spec

(* A process that recorded a halt places no BUY for the rest of its life.  *)
THEOREM HaltIsFinal == Spec => HaltedProcessNeverBuys
<1>1. HaltInv /\ [Next]_vars =>
        [placed' # placed => haltRow.day = 0 \/ haltRow.process # crashes]_vars
  <2> SUFFICES ASSUME HaltInv, Next, placed' # placed
               PROVE  haltRow.day = 0 \/ haltRow.process # crashes
    OBVIOUS
  <2>1. pc \in {"flush", "inbox"}
    BY DEF Next, World, Process, Loop, Job, PassTime, WriteDrop, StartUp,
           Crash, CrashInPoll, CrashInFlush, LoseMemory, Poll, PreOpenSync,
           EntryOpen, Rebalance, RiskCheck, RiskSweep, EodCancelOrders,
           EodReport, Starts, JobsDone, FlushExpired, FlushSubmit, InFlush,
           FlushDone, Watch, Tick, RouteDrop, RouteRaises, InboxDone
  <2>2. QED
    BY <2>1 DEF HaltInv
<1>2. QED
  BY <1>1, HaltInvariant, PTL DEF Spec, HaltedProcessNeverBuys

=============================================================================
