---------------------------- MODULE StopsProofs ----------------------------
(***************************************************************************)
(* Proofs about Stops for any quantities, orders and failures.  Every step *)
(* sends an order, fills one, or drops some: that is shown once, action by *)
(* action, and carries the types and the rows of the trades table.         *)
(***************************************************************************)
EXTENDS Stops, TLAPS

Sends == \E k \in Kinds : \E q \in Int : Acked(k, q) \/ NotAcked(k, q)

Fills == \E i \in Ids : Fill(i)

(* Orders stop working and rows are marked, but never one that works.      *)
Drops ==
    /\ working' \subseteq working /\ tracked' \subseteq tracked
    /\ \A i \in tracked \ tracked' : i \notin working'
    /\ UNCHANGED <<position, kind, left, next, known>>

Quiet == UNCHANGED <<brokerVars, rowVars>>

LEMMA QuietDrops == Quiet => Drops
  BY DEF Quiet, Drops, brokerVars, rowVars

LEMMA SendersSend ==
  ASSUME TypeOK, PlaceStop \/ Entry \/ Exit \/ Trade \/ Flatten
  PROVE  Sends \/ Quiet
  <1> USE DEF TypeOK, BrokerTypeOK, EngineTypeOK
  <1>1. "BUY" \in Kinds /\ "SELL" \in Kinds /\ "STOP" \in Kinds
    BY DEF Kinds
  <1>2. CASE PlaceStop
    BY <1>1, <1>2 DEF PlaceStop, Sends, Quiet
  <1>3. CASE Entry
    <2>1. PICK q \in 1..Lot : Acked("BUY", q) \/ NotAcked("BUY", q)
      BY <1>3 DEF Entry
    <2> QED
      BY <1>1, <2>1 DEF Sends
  <1>4. CASE Exit
    BY <1>1, <1>4 DEF Exit, Sends
  <1>5. CASE Trade
    <2> DEFINE side == IF want > held THEN "BUY" ELSE "SELL"
               qty  == IF want > held THEN want - held ELSE held - want
    <2>1. Acked(side, qty) \/ NotAcked(side, qty) \/ Refused
      BY <1>5 DEF Trade
    <2>2. side \in Kinds /\ qty \in Int
      BY <1>1
    <2> HIDE DEF side, qty
    <2> QED
      BY <2>1, <2>2 DEF Sends, Quiet, Refused
  <1>6. CASE Flatten
    BY <1>1, <1>6 DEF Flatten, Sends, Quiet, Refused
  <1> QED
    BY <1>2, <1>3, <1>4, <1>5, <1>6

LEMMA DroppersDrop ==
  ASSUME TypeOK,
         (\E i \in Ids : Lapse(i)) \/ Resize \/ Halt \/ EodCancel \/ Shutdown \/ Sync
            \/ (\E i \in todo : Sweep(i))
  PROVE  Drops
  <1> USE DEF Drops, rowVars
  <1>1. CASE \E i \in Ids : Lapse(i)
    BY <1>1 DEF Lapse
  <1>2. ASSUME NEW i, Cancelled(i) \/ CancelFails(i),
               UNCHANGED <<position, kind, left, next>>
        PROVE  Drops
    BY <1>2 DEF Cancelled, CancelFails, Marked
  <1>3. CASE Resize
    BY <1>2, <1>3 DEF Resize
  <1>4. CASE Halt \/ EodCancel \/ Shutdown
    BY <1>4 DEF Halt, EodCancel, Shutdown, CancelAll
  <1>5. CASE Sync
    BY <1>5 DEF Sync, SyncUnknown, brokerVars
  <1>6. CASE \E i \in todo : Sweep(i)
    BY <1>2, <1>6 DEF Sweep
  <1> QED
    BY <1>1, <1>3, <1>4, <1>5, <1>6

LEMMA EveryStep == TypeOK /\ [Next]_vars => Sends \/ Fills \/ Drops
  <1> SUFFICES ASSUME TypeOK, [Next]_vars PROVE Sends \/ Fills \/ Drops
    OBVIOUS
  <1>1. CASE PlaceStop \/ Entry \/ Exit \/ Trade \/ Flatten
    BY <1>1, SendersSend, QuietDrops
  <1>2. CASE (\E i \in Ids : Lapse(i)) \/ Resize \/ Halt \/ EodCancel \/ Shutdown \/ Sync
                \/ (\E i \in todo : Sweep(i))
    BY <1>2, DroppersDrop
  <1>3. CASE Abort \/ Restart \/ Look \/ Plan \/ QueryBook \/ QueryAccount \/ Protect
    <2>1. Quiet
      BY <1>3 DEF Abort, Restart, Look, Plan, QueryBook, QueryAccount, Protect, Quiet
    <2> QED
      BY <2>1, QuietDrops
  <1>4. CASE UNCHANGED vars
    BY <1>4, QuietDrops DEF vars, Quiet
  <1> QED
    BY <1>1, <1>2, <1>3, <1>4 DEF Next, Broker, Interrupt, Engine, Fills

LEMMA OrdersKeepTypes ==
  ASSUME TypeOK, Sends \/ Fills \/ Drops
  PROVE  BrokerTypeOK' /\ RowTypeOK'
  <1> USE DEF TypeOK, BrokerTypeOK, RowTypeOK
  <1>1. ASSUME NEW k \in Kinds, NEW q \in Int, Accepted(k, q)
        PROVE  BrokerTypeOK' /\ next \in Ids
    BY <1>1 DEF Accepted, Ids
  <1>2. ASSUME NEW k \in Kinds, NEW q \in Int, Acked(k, q)
        PROVE  BrokerTypeOK' /\ RowTypeOK'
    <2>1. BrokerTypeOK' /\ next \in Ids
      BY <1>1, <1>2 DEF Acked
    <2> QED
      BY <1>2, <2>1 DEF Acked
  <1>3. ASSUME NEW k \in Kinds, NEW q \in Int, NotAcked(k, q)
        PROVE  BrokerTypeOK' /\ RowTypeOK'
    <2>1. UNCHANGED rowVars /\ (Accepted(k, q) \/ UNCHANGED brokerVars)
      BY <1>3 DEF NotAcked, Refused, Lost
    <2> QED
      BY <1>1, <2>1 DEF rowVars, brokerVars
  <1>4. ASSUME NEW i \in Ids, Fill(i) PROVE BrokerTypeOK' /\ RowTypeOK'
    BY <1>4 DEF Fill, rowVars
  <1>5. CASE Drops
    BY <1>5 DEF Drops
  <1> QED
    BY <1>2, <1>3, <1>4, <1>5 DEF Sends, Fills

LEMMA EngineKeepsTypes == TypeOK /\ [Next]_vars => EngineTypeOK'
  <1> SUFFICES ASSUME TypeOK, [Next]_vars PROVE EngineTypeOK'
    OBVIOUS
  <1> USE DEF TypeOK, BrokerTypeOK, EngineTypeOK, localVars
  <1>1. ASSUME NEW i \in Ids, Fill(i) \/ Lapse(i) PROVE EngineTypeOK'
    BY <1>1 DEF Fill, Lapse
  <1>2. CASE Abort \/ Restart \/ Sync \/ Look \/ PlaceStop
    BY <1>2 DEF Abort, Restart, Sync, Look, PlaceStop
  <1>3. CASE Entry
    BY <1>3, StopsAssumption DEF Entry
  <1>4. CASE Plan
    BY <1>4 DEF Plan
  <1>5. CASE Exit \/ Trade \/ Resize
    BY <1>5 DEF Exit, Trade, Resize, Trading
  <1>6. CASE Flatten \/ Halt \/ EodCancel \/ Shutdown
    BY <1>6 DEF Flatten, Halt, EodCancel, Shutdown, Trading
  <1>7. CASE QueryBook \/ QueryAccount \/ Protect
    BY <1>7 DEF QueryBook, QueryAccount, Protect
  <1>8. ASSUME NEW i \in todo, Sweep(i) PROVE EngineTypeOK'
    BY <1>8 DEF Sweep
  <1>9. CASE UNCHANGED vars
    BY <1>9 DEF vars
  <1> QED
    BY <1>1, <1>2, <1>3, <1>4, <1>5, <1>6, <1>7, <1>8, <1>9 DEF Next, Broker, Interrupt, Engine

LEMMA HistoryKeepsTypes == TypeOK /\ [Next]_vars => HistoryTypeOK'
  <1> DEFINE CountsTyped == errors' \in Nat /\ failed' \subseteq Ids
  <1> SUFFICES ASSUME TypeOK, [Next]_vars PROVE CountsTyped
    <2>1. TypeOK /\ [Next]_vars => clean' \in BOOLEAN
      BY DEF Next, Undisturbed, vars, TypeOK, HistoryTypeOK
    <2> QED
      BY <2>1 DEF HistoryTypeOK
  <1> USE DEF TypeOK, BrokerTypeOK, RowTypeOK, EngineTypeOK, HistoryTypeOK, Fails
  <1>1. ASSUME NEW i \in Ids, Fill(i) \/ Lapse(i) PROVE CountsTyped
    BY <1>1 DEF Fill, Lapse
  <1>2. CASE Abort \/ Restart \/ Sync \/ Look \/ Plan
    BY <1>2 DEF Abort, Restart, Sync, Look, Plan
  <1>3. ASSUME NEW k, NEW q, Acked(k, q) \/ NotAcked(k, q) \/ Refused
        PROVE  errors' \in Nat
    BY <1>3 DEF Acked, NotAcked, Refused, Lost
  <1>4. CASE PlaceStop
    BY <1>3, <1>4 DEF PlaceStop
  <1>5. CASE Entry
    BY <1>3, <1>5 DEF Entry
  <1>6. CASE Exit \/ Trade \/ Flatten
    BY <1>3, <1>6 DEF Exit, Trade, Flatten
  <1>7. ASSUME NEW i \in Ids, Cancelled(i) \/ CancelFails(i)
        PROVE  CountsTyped
    BY <1>7 DEF Cancelled, CancelFails
  <1>8. CASE Resize
    BY <1>7, <1>8 DEF Resize, Newest
  <1>9. CASE Halt \/ EodCancel \/ Shutdown
    BY <1>9 DEF Halt, EodCancel, Shutdown, CancelAll
  <1>10. CASE QueryBook \/ QueryAccount \/ Protect
    BY <1>10 DEF QueryBook, QueryAccount, Protect
  <1>11. ASSUME NEW i \in todo, Sweep(i) PROVE CountsTyped
    BY <1>7, <1>11 DEF Sweep
  <1>12. CASE UNCHANGED vars
    BY <1>12 DEF vars
  <1> QED
    BY <1>1, <1>2, <1>4, <1>5, <1>6, <1>8, <1>9, <1>10, <1>11, <1>12
       DEF Next, Broker, Interrupt, Engine

LEMMA StopsTypes == Spec => []TypeOK
  <1>1. Init => TypeOK
    <2> SUFFICES ASSUME Init PROVE TypeOK
      OBVIOUS
    <2>1. BrokerTypeOK
      BY DEF Init, BrokerTypeOK, Kinds
    <2>2. RowTypeOK
      BY DEF Init, RowTypeOK
    <2>3. EngineTypeOK
      <3>1. held \in Int /\ want \in Int
        BY DEF Init
      <3> QED
        BY <3>1 DEF Init, EngineTypeOK
    <2>4. HistoryTypeOK
      BY DEF Init, HistoryTypeOK
    <2> QED
      BY <2>1, <2>2, <2>3, <2>4 DEF TypeOK
  <1>2. TypeOK /\ [Next]_vars => TypeOK'
    BY EveryStep, OrdersKeepTypes, EngineKeepsTypes, HistoryKeepsTypes DEF TypeOK
  <1> QED
    BY <1>1, <1>2, PTL DEF Spec

-----------------------------------------------------------------------------
(* The inductive invariant, one part at a time.                            *)

RowInv == IdsInOrder /\ LiveStopsAreTracked /\ StopsAreStops

LEMMA OrdersKeepRows ==
  ASSUME TypeOK, RowInv, Sends \/ Fills \/ Drops
  PROVE  RowInv'
  <1> USE DEF TypeOK, BrokerTypeOK, RowTypeOK, RowInv, IdsInOrder, LiveStopsAreTracked, StopsAreStops
  <1>1. ASSUME NEW k \in Kinds, NEW q \in Int, Acked(k, q)
        PROVE  RowInv'
    BY <1>1 DEF Acked, Accepted, Ids
  <1>2. ASSUME NEW k \in Kinds, NEW q \in Int, NotAcked(k, q)
        PROVE  RowInv'
    <2>1. UNCHANGED rowVars /\ (Accepted(k, q) \/ UNCHANGED brokerVars)
      BY <1>2 DEF NotAcked, Refused, Lost
    <2>2. CASE Accepted(k, q)
      BY <2>1, <2>2 DEF Accepted, Ids, rowVars
    <2>3. CASE UNCHANGED brokerVars
      BY <2>1, <2>3 DEF rowVars, brokerVars
    <2> QED
      BY <2>1, <2>2, <2>3
  <1>3. ASSUME NEW i \in Ids, Fill(i) PROVE RowInv'
    BY <1>3 DEF Fill, rowVars
  <1>4. CASE Drops
    BY <1>4 DEF Drops
  <1> QED
    BY <1>1, <1>2, <1>3, <1>4 DEF Sends, Fills

LEMMA RowsInv == Spec => []RowInv
  <1>1. Init => RowInv
    BY DEF Init, RowInv, IdsInOrder, LiveStopsAreTracked, StopsAreStops
  <1>2. TypeOK /\ RowInv /\ [Next]_vars => RowInv'
    BY EveryStep, OrdersKeepRows
  <1> QED
    BY <1>1, <1>2, StopsTypes, PTL DEF Spec

(* A stop that works and was recorded is never marked CANCELLED.           *)
THEOREM LiveStopsStayTracked == Spec => []LiveStopsAreTracked
  <1>1. RowInv => LiveStopsAreTracked
    BY DEF RowInv
  <1> QED
    BY <1>1, RowsInv, PTL

(* After a HALT no entry works but one whose cancel failed.                *)
THEOREM HaltsAreQuiet == Spec => []HaltCancelsEntries
  <1>1. Init => HaltInv
    BY DEF Init, HaltInv, HaltCancelsEntries
  <1>2. TypeOK /\ RowInv /\ HaltInv /\ [Next]_vars => HaltInv'
    <2> SUFFICES ASSUME TypeOK, IdsInOrder, HaltInv, [Next]_vars PROVE HaltInv'
      BY DEF RowInv
    <2> USE DEF HaltInv, HaltCancelsEntries
    <2>1. ASSUME NEW i \in Ids, Fill(i) \/ Lapse(i) PROVE HaltInv'
      BY <2>1 DEF Fill, Lapse
    <2>2. CASE Abort \/ Restart \/ Look \/ Plan
      BY <2>2 DEF Abort, Restart, Look, Plan, Trading, brokerVars
    <2>3. CASE PlaceStop
      <3>1. Acked("STOP", want) \/ NotAcked("STOP", want) \/ UNCHANGED brokerVars
        BY <2>3 DEF PlaceStop
      <3>2. Accepted("STOP", want) \/ UNCHANGED brokerVars
        BY <3>1 DEF Acked, NotAcked, Refused, Lost
      <3>3. HaltCancelsEntries'
        <4>1. CASE Accepted("STOP", want)
          BY <2>3, <4>1 DEF PlaceStop, Accepted, IdsInOrder, TypeOK, BrokerTypeOK
        <4>2. CASE UNCHANGED brokerVars
          BY <2>3, <4>2 DEF PlaceStop, brokerVars
        <4> QED
          BY <3>2, <4>1, <4>2
      <3> QED
        BY <2>3, <3>3 DEF PlaceStop
    <2>4. CASE Entry \/ Exit \/ Flatten
      BY <2>4 DEF Entry, Exit, Flatten, Trading
    <2>5. CASE Trade
      BY <2>5 DEF Trade
    <2>6. ASSUME NEW i, Cancelled(i) \/ CancelFails(i), UNCHANGED <<kind, halted>>
          PROVE  HaltCancelsEntries'
      BY <2>6 DEF Cancelled, CancelFails
    <2>7. CASE Resize
      <3>1. HaltCancelsEntries'
        BY <2>6, <2>7 DEF Resize
      <3> QED
        BY <2>7, <3>1 DEF Resize
    <2>8. CASE Halt \/ EodCancel \/ Shutdown
      BY <2>8 DEF Halt, EodCancel, Shutdown, CancelAll
    <2>9. CASE Sync \/ QueryBook \/ QueryAccount \/ Protect
      BY <2>9 DEF Sync, QueryBook, QueryAccount, Protect, brokerVars
    <2>10. ASSUME NEW i \in todo, Sweep(i) PROVE HaltInv'
      <3>1. HaltCancelsEntries'
        BY <2>6, <2>10 DEF Sweep
      <3> QED
        BY <2>10, <3>1 DEF Sweep
    <2>11. CASE UNCHANGED vars
      BY <2>11 DEF vars, brokerVars
    <2> QED
      BY <2>1, <2>2, <2>3, <2>4, <2>5, <2>7, <2>8, <2>9, <2>10, <2>11
         DEF Next, Broker, Interrupt, Engine
  <1>3. HaltInv => HaltCancelsEntries
    BY DEF HaltInv
  <1> QED
    BY <1>1, <1>2, <1>3, StopsTypes, RowsInv, PTL DEF Spec

(* After pass 1 of a reconcile nothing works but recorded stops of a       *)
(* position that was held, and orders whose cancel failed.                 *)
THEOREM OrphansAreGone == Spec => []OrphansAreSwept
  <1>1. Init => SweepInv
    BY DEF Init, SweepInv
  <1>2. TypeOK /\ SweepInv /\ [Next]_vars => SweepInv'
    <2> SUFFICES ASSUME TypeOK, SweepInv, [Next]_vars PROVE SweepInv'
      OBVIOUS
    <2> USE DEF SweepInv, Keep
    <2>1. ASSUME NEW i \in Ids, Fill(i) \/ Lapse(i) PROVE SweepInv'
      BY <2>1 DEF Fill, Lapse, rowVars, localVars
    <2>2. CASE Abort \/ Restart \/ Look \/ PlaceStop
      BY <2>2 DEF Abort, Restart, Look, PlaceStop
    <2>3. CASE Entry \/ Exit \/ Plan \/ Trade
      BY <2>3 DEF Entry, Exit, Plan, Trade, Trading
    <2>4. CASE Resize \/ Flatten \/ Halt \/ EodCancel \/ Shutdown \/ Sync \/ Protect
      BY <2>4 DEF Resize, Flatten, Halt, EodCancel, Shutdown, Sync, Protect, Trading
    <2>5. CASE QueryBook
      BY <2>5 DEF QueryBook, brokerVars
    <2>6. CASE QueryAccount
      BY <2>6 DEF QueryAccount, brokerVars
    <2>7. ASSUME NEW i \in todo, Sweep(i) PROVE SweepInv'
      <3>1. CASE Keep(i)
        BY <2>7, <3>1 DEF Sweep, rowVars
      <3>2. CASE Cancelled(i)
        BY <2>7, <3>2 DEF Sweep, Cancelled, Marked
      <3>3. CASE CancelFails(i)
        BY <2>7, <3>3 DEF Sweep, CancelFails, rowVars
      <3> QED
        BY <2>7, <3>1, <3>2, <3>3 DEF Sweep
    <2>8. CASE UNCHANGED vars
      BY <2>8 DEF vars, brokerVars, rowVars, localVars
    <2> QED
      BY <2>1, <2>2, <2>3, <2>4, <2>5, <2>6, <2>7, <2>8 DEF Next, Broker, Interrupt, Engine
  <1>3. SweepInv => OrphansAreSwept
    BY DEF SweepInv, OrphansAreSwept, Keep
  <1> QED
    BY <1>1, <1>2, <1>3, StopsTypes, PTL DEF Spec

-----------------------------------------------------------------------------
(* An undisturbed reconcile.                                               *)

(* What it keeps works until it is over, and what it sends in the end is   *)
(* the stop of the position it saw.                                        *)
LEMMA SweepKeepsClean ==
  ASSUME TypeOK, CleanInv, NEW i \in todo, Sweep(i)
  PROVE  /\ UNCHANGED <<pc, held, position, want, book>>
         /\ \A j \in book : Keep(j) => Keep(j)'
         /\ \A j \in book : Keep(j)' => Keep(j)
         /\ \A j \in working : Keep(j) => j \in working'
  <1>1. UNCHANGED <<pc, held, position, want, book, kind>>
    BY DEF Sweep
  <1>2. known' = known
    BY DEF Sweep, rowVars, Cancelled, CancelFails, Marked
  <1>3. working' = working \/ (~Keep(i) /\ working' = working \ {i})
    BY DEF Sweep, Cancelled, CancelFails
  <1> QED
    BY <1>1, <1>2, <1>3 DEF Keep

LEMMA CleanInvNext ==
  ASSUME TypeOK, RowInv, CleanInv, [Next]_vars
  PROVE  CleanInv'
  <1>1. CASE clean' = FALSE
    BY <1>1 DEF CleanInv, ReconcileProtects
  <1>2. CASE UNCHANGED vars
    BY <1>2 DEF vars, brokerVars, rowVars, localVars, CleanInv, ReconcileProtects, Keep
  <1>3. ASSUME Engine, pc = "account", pc' = "sweep", book = working PROVE CleanInv'
    <2>1. QueryAccount
      BY <1>3 DEF Engine, Look, PlaceStop, Entry, Exit, Plan, Trade, Resize, Flatten, Halt,
                  EodCancel, Sync, QueryBook, Sweep, Protect, Trading
    <2> QED
      BY <1>3, <2>1 DEF QueryAccount, brokerVars, rowVars, CleanInv, ReconcileProtects
  <1>4. ASSUME Engine, clean, pc \in {"sweep", "look", "stop"}, errors' = errors,
               pc = "stop" => next' # next
        PROVE  CleanInv'
    <2> USE DEF CleanInv
    <2>1. Look \/ PlaceStop \/ (\E i \in todo : Sweep(i)) \/ Protect
      BY <1>4 DEF Engine, Entry, Exit, Plan, Trade, Resize, Flatten, Halt,
                  EodCancel, Sync, QueryBook, QueryAccount, Trading
    <2>2. CASE Look
      <3>1. held' = position /\ pc' = "stop" /\ pc = "look" /\ UNCHANGED <<position, want>>
        BY <1>4, <2>2 DEF Look, Fails, brokerVars, TypeOK, HistoryTypeOK
      <3> QED
        BY <1>4, <3>1 DEF ReconcileProtects
    <2>3. CASE PlaceStop
      <3>1. /\ pc = "stop" /\ pc' = "idle" /\ held' = held
            /\ Acked("STOP", want) \/ NotAcked("STOP", want) \/ UNCHANGED brokerVars
        BY <2>3 DEF PlaceStop, localVars
      <3>2. Acked("STOP", want)
        BY <1>4, <3>1 DEF NotAcked, Refused, Lost, Fails, brokerVars, TypeOK, HistoryTypeOK
      <3>3. next \in Ids /\ next \in working' /\ next \in known' /\ kind'[next] = "STOP"
        BY <3>2 DEF Acked, Accepted, TypeOK, BrokerTypeOK
      <3> QED
        BY <3>1, <3>3 DEF ReconcileProtects
    <2>4. ASSUME NEW i \in todo, Sweep(i) PROVE CleanInv'
      <3>1. pc = "sweep"
        BY <2>4 DEF Sweep
      <3> QED
        BY <1>4, <2>4, <3>1, SweepKeepsClean DEF ReconcileProtects
    <2>5. CASE Protect
      <3>1. pc = "sweep" /\ UNCHANGED <<position, kind, working, known, held, book>>
        BY <2>5 DEF Protect, brokerVars, rowVars
      <3>2. CASE Covered /\ pc' = "idle"
        <4>1. ASSUME held > 0 PROVE \E i \in working \cap known : kind[i] = "STOP"
          <5>1. PICK i \in book : i \in tracked
            BY <3>2, <4>1 DEF Covered, Newest, TypeOK, EngineTypeOK
          <5>2. i \in known /\ kind[i] = "STOP"
            BY <5>1 DEF RowInv, StopsAreStops
          <5>3. i \in working
            BY <1>4, <3>1, <4>1, <5>1, <5>2 DEF Keep
          <5> QED
            BY <5>2, <5>3
        <4> QED
          BY <3>1, <3>2, <4>1 DEF ReconcileProtects
      <3>3. CASE pc' = "look" /\ want' = held
        BY <1>4, <3>1, <3>3 DEF ReconcileProtects
      <3> QED
        BY <1>4, <2>5, <3>2, <3>3 DEF Protect, Fails, TypeOK, HistoryTypeOK
    <2> QED
      BY <2>1, <2>2, <2>3, <2>4, <2>5
  <1>5. ASSUME Engine, clean' = Undisturbed PROVE CleanInv'
    BY <1>1, <1>3, <1>4, <1>5 DEF Undisturbed
  <1> QED
    BY <1>1, <1>2, <1>5 DEF Next

(* A reconcile that nothing disturbed leaves a held position with a        *)
(* recorded stop that works.                                               *)
THEOREM ReconcilesProtect == Spec => []ReconcileProtects
  <1>1. Init => CleanInv
    BY DEF Init, CleanInv, ReconcileProtects
  <1>2. TypeOK /\ RowInv /\ CleanInv /\ [Next]_vars => CleanInv'
    BY CleanInvNext
  <1>3. CleanInv => ReconcileProtects
    BY DEF CleanInv
  <1> QED
    BY <1>1, <1>2, <1>3, StopsTypes, RowsInv, PTL DEF Spec
=============================================================================
