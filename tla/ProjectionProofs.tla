-------------------------- MODULE ProjectionProofs --------------------------
(***************************************************************************)
(* Proofs about Projection for any accounts, orders, days and faults.      *)
(***************************************************************************)
EXTENDS Projection, TLAPS, FiniteSetTheorems, SequenceTheorems

USE ProjectionAssumption DEF posts

-----------------------------------------------------------------------------
(* The broker.  The deals of an order are of one day, which for an order   *)
(* that still works is the current one.                                    *)

DealRecords == [order : Orders, day : Days]

BrokerInv ==
    /\ world \in Worlds /\ day \in Days
    /\ deals \in Seq(DealRecords)
    /\ status \in [Orders -> {"new", "working", "done"}]
    /\ \A n \in DOMAIN deals :
          /\ deals[n].day <= day /\ status[deals[n].order] # "new"
          /\ status[deals[n].order] = "working" => deals[n].day = day
    /\ \A m, n \in DOMAIN deals : deals[m].order = deals[n].order => deals[m].day = deals[n].day

LEMMA DealsAreTyped ==
    BrokerInv => /\ day \in Days /\ Days \subseteq Int
                 /\ \A n \in DOMAIN deals : deals[n].order \in Orders /\ deals[n].day \in Days
  <1>1. BrokerInv => \A n \in DOMAIN deals : deals[n] \in DealRecords
    BY DEF BrokerInv
  <1> QED
    BY <1>1 DEF DealRecords, BrokerInv, Days

(* No step takes a deal back, and the account stays the same.              *)
LEMMA DealsGrow ==
    ASSUME BrokerInv, [Next]_vars
    PROVE  /\ world' = world
           /\ \/ deals' = deals
              \/ /\ \E o \in Orders : deals' = Append(deals, [order |-> o, day |-> day])
                 /\ UNCHANGED <<process, tables, syncHistory, missed, day>>
  <1>1. ASSUME NEW o \in Orders, Deal(o)
        PROVE  /\ deals' = Append(deals, [order |-> o, day |-> day])
               /\ UNCHANGED <<world, process, tables, syncHistory, missed, day>>
    BY <1>1 DEF Deal
  <1>2. ASSUME NEW o \in Orders, Lapse(o) PROVE UNCHANGED <<world, deals>>
    BY <1>2 DEF Lapse
  <1>3. CASE NextDay \/ CancelAll
    BY <1>3 DEF NextDay, CancelAll
  <1>4. ASSUME \/ \E n \in 1..4 : Poll(n)
               \/ Recover \/ Account \/ RecordFills \/ RecordPerf
               \/ Gather \/ Post \/ Raise \/ Crash \/ UNCHANGED vars
        PROVE  UNCHANGED broker
    BY <1>4 DEF Poll, Recover, Account, RecordFills, RecordPerf, Gather, Post, Raise, Crash, vars
  <1> QED
    BY <1>1, <1>2, <1>3, <1>4 DEF Next, Broker, Step, broker

LEMMA BrokerInvNext == BrokerInv /\ [Next]_vars => BrokerInv'
  <1> SUFFICES ASSUME BrokerInv, [Next]_vars PROVE BrokerInv'
    OBVIOUS
  <1> USE DEF BrokerInv, DealRecords, Orders, Days
  <1>1. ASSUME NEW o \in Orders, Deal(o) PROVE BrokerInv'
    <2>1. /\ status[o] # "done" /\ world' = world /\ day' = day
          /\ deals' = Append(deals, [order |-> o, day |-> day])
          /\ \E s \in {"done", "working"} : status' = [status EXCEPT ![o] = s]
      BY <1>1 DEF Deal
    <2>2. deals' \in Seq(DealRecords)
      BY <2>1
    <2>3. \A n \in DOMAIN deals : deals[n].order = o => deals[n].day = day
      BY <2>1
    <2>4. \A n \in DOMAIN deals' : \/ n \in DOMAIN deals /\ deals'[n] = deals[n]
                                   \/ deals'[n] = [order |-> o, day |-> day]
      BY <2>1
    <2> QED
      BY <2>1, <2>2, <2>3, <2>4
  <1>2. ASSUME NEW o \in Orders, Lapse(o) PROVE BrokerInv'
    BY <1>2 DEF Lapse, Working, Ended
  <1>3. CASE NextDay
    <2>1. /\ world' = world /\ deals' = deals /\ day' = day + 1 /\ day' \in Days
          /\ status' = [o \in Orders |-> IF status[o] = "working" THEN "done" ELSE status[o]]
      BY <1>3 DEF NextDay, Working
    <2>2. status' \in [Orders -> {"new", "working", "done"}] /\ \A o \in Orders : status'[o] # "working"
      BY <2>1
    <2>3. \A n \in DOMAIN deals : deals[n].order \in Orders /\ deals[n].day \in Int
      BY DealsAreTyped
    <2> QED
      BY <2>1, <2>2, <2>3
  <1>4. CASE CancelAll
    <2>1. /\ UNCHANGED <<world, deals, day>>
          /\ \E gone \in SUBSET Orders :
                status' = [o \in Orders |-> IF o \in gone THEN "done" ELSE status[o]]
      BY <1>4 DEF CancelAll, Working
    <2>2. /\ status' \in [Orders -> {"new", "working", "done"}]
          /\ \A o \in Orders : status'[o] \in {status[o], "done"}
      BY <2>1
    <2>3. \A n \in DOMAIN deals : deals[n].order \in Orders
      BY DealsAreTyped
    <2> QED
      BY <2>1, <2>2, <2>3
  <1>5. ASSUME UNCHANGED broker PROVE BrokerInv'
    BY <1>5 DEF broker
  <1>6. ASSUME \/ \E n \in 1..4 : Poll(n)
               \/ Recover \/ Account \/ RecordFills \/ RecordPerf
               \/ Gather \/ Post \/ Raise \/ Crash \/ UNCHANGED vars
        PROVE  UNCHANGED broker
    BY <1>6 DEF Poll, Recover, Account, RecordFills, RecordPerf, Gather, Post, Raise, Crash, vars
  <1> QED
    BY <1>1, <1>2, <1>3, <1>4, <1>5, <1>6 DEF Next, Broker, Step

LEMMA BrokerInvariant == Spec => []BrokerInv
  <1>1. Init => BrokerInv
    BY DEF Init, BrokerInv, DealRecords, Days
  <1> QED
    BY <1>1, BrokerInvNext, PTL DEF Spec

-----------------------------------------------------------------------------
(* Positions.                                                              *)

ShownInv == shown \in 0..Len(deals) /\ PositionsWereTrue

(* A new deal changes no holdings of the past.                             *)
LEMMA PastIsPast ==
    ASSUME BrokerInv, NEW o \in Orders, world' = world,
           deals' = Append(deals, [order |-> o, day |-> day]), NEW k \in 0..Len(deals)
    PROVE  Held(k)' = Held(k)
  <1>1. \A n \in 1..k : deals'[n] = deals[n]
    BY DEF BrokerInv
  <1> QED
    BY <1>1 DEF Held, Data, Orders

LEMMA ShownInvariant == Spec => []ShownInv
  <1>1. Init => ShownInv
    <2> SUFFICES ASSUME Init PROVE ShownInv
      OBVIOUS
    <2>1. Held(0) = Flat
      <3>1. \A S \in SUBSET (1..0) : S = {}
        OBVIOUS
      <3>2. Cardinality({}) = 0
        BY FS_EmptySet
      <3>3. \A S \in SUBSET (1..0) : Cardinality(S) = 0
        BY <3>1, <3>2
      <3> QED
        BY <3>3 DEF Held, Flat, Orders, Data
    <2> QED
      BY <2>1 DEF Init, ShownInv, PositionsWereTrue
  <1>2. BrokerInv /\ ShownInv /\ [Next]_vars => ShownInv'
    <2> SUFFICES ASSUME BrokerInv, ShownInv, [Next]_vars PROVE ShownInv'
      OBVIOUS
    <2>1. CASE deals' # deals
      <3>1. PICK o \in Orders : deals' = Append(deals, [order |-> o, day |-> day])
        BY <2>1, DealsGrow
      <3>2. world' = world /\ shown' = shown /\ positions' = positions
        BY <2>1, DealsGrow DEF tables, syncHistory
      <3>3. PICK k \in 0..Len(deals) : k = shown
        BY DEF ShownInv
      <3>4. Held(k)' = Held(k) /\ Len(deals') = Len(deals) + 1
        BY <3>1, <3>2, PastIsPast DEF BrokerInv
      <3>5. positions' = Held(k)' /\ shown' = k
        BY <3>2, <3>3, <3>4 DEF ShownInv, PositionsWereTrue
      <3>6. PositionsWereTrue'
        BY <3>5 DEF PositionsWereTrue, Held, Data, Orders
      <3>7. shown' \in 0..Len(deals')
        BY <3>3, <3>4, <3>5 DEF BrokerInv
      <3> QED
        BY <3>6, <3>7 DEF ShownInv
    <2>2. CASE deals' = deals
      <3>1. world' = world
        BY DealsGrow
      <3>2. CASE UNCHANGED <<positions, shown>>
        BY <2>2, <3>1, <3>2 DEF ShownInv, PositionsWereTrue, Held, Data, Orders
      <3>3. CASE positions' = Held(Now) /\ shown' = Now
        <4>1. Now \in 0..Len(deals)
          BY DEF Now, BrokerInv
        <4>2. PICK k \in 0..Len(deals) : k = Now
          BY <4>1
        <4>3. Held(k)' = Held(k)
          BY <2>2, <3>1 DEF Held, Data, Orders
        <4>4. positions' = Held(k) /\ shown' = k
          BY <3>3, <4>2
        <4>5. positions' = Held(k)'
          BY <4>3, <4>4
        <4> QED
          BY <2>2, <4>4, <4>5 DEF ShownInv, PositionsWereTrue, Held, Data, Orders
      <3>4. ASSUME Account PROVE \/ UNCHANGED <<positions, shown>>
                                 \/ positions' = Held(Now) /\ shown' = Now
        BY <3>4 DEF Account, Kept
      <3>5. ASSUME NEW o \in Orders, Deal(o) \/ Lapse(o) PROVE UNCHANGED <<positions, shown>>
        BY <3>5 DEF Deal, Lapse, tables, syncHistory
      <3>6. ASSUME \/ NextDay \/ \E n \in 1..4 : Poll(n)
                   \/ Recover \/ RecordFills \/ RecordPerf \/ CancelAll
                   \/ Gather \/ Post \/ Raise \/ Crash \/ UNCHANGED vars
            PROVE  UNCHANGED <<positions, shown>>
        BY <3>6 DEF NextDay, Poll, Recover, RecordFills, RecordPerf, CancelAll, Gather, Post, Raise,
                    Crash, vars, tables, syncHistory
      <3> QED
        BY <3>2, <3>3, <3>4, <3>5, <3>6 DEF Next, Broker, Step
    <2> QED
      BY <2>1, <2>2
  <1> QED
    BY <1>1, <1>2, BrokerInvariant, PTL DEF Spec

(* The positions are those of the last answer, of however long ago.        *)
THEOREM PositionsAreOfAnAnswer == Spec => []PositionsWereTrue
  <1>1. ShownInv => PositionsWereTrue
    BY DEF ShownInv
  <1> QED
    BY <1>1, ShownInvariant, PTL

-----------------------------------------------------------------------------
(* Performance rows.                                                       *)

PerfInv ==
    /\ DOMAIN perf = Days /\ ReportIsOfToday
    /\ \A d \in Days : \A row \in perf[d] : row.on = d

(* Only _record_perf writes a performance row.                             *)
LEMMA RowsAreRecorded ==
    ASSUME [Next]_vars
    PROVE  perf' = perf \/ (RecordPerf /\ UNCHANGED <<report, day>>)
  <1>1. ASSUME NEW o \in Orders, Deal(o) \/ Lapse(o) PROVE perf' = perf
    BY <1>1 DEF Deal, Lapse, tables
  <1>2. ASSUME \/ NextDay \/ \E n \in 1..4 : Poll(n)
               \/ Recover \/ Account \/ RecordFills \/ CancelAll
               \/ Gather \/ Post \/ Raise \/ Crash \/ UNCHANGED vars
        PROVE  perf' = perf
    BY <1>2 DEF NextDay, Poll, Recover, Account, RecordFills, CancelAll, Gather, Post, Raise,
                Crash, vars, tables
  <1>3. ASSUME RecordPerf PROVE UNCHANGED <<report, day>>
    BY <1>3 DEF RecordPerf, broker
  <1> QED
    BY <1>1, <1>2, <1>3 DEF Next, Broker, Step

(* The report is built, sent or dropped, and its day does not end before.  *)
LEMMA ReportsAreGathered ==
    ASSUME [Next]_vars
    PROVE  \/ report' \in {report, {}}
           \/ /\ UNCHANGED <<world, deals, fills, perf, day>>
              /\ report' = {[day |-> day, header |-> HeaderOfToday,
                             label |-> ClassifyStrategy(Legs(fills, day))]}
  <1>1. ASSUME NEW o \in Orders, Deal(o) \/ Lapse(o) PROVE report' = report
    BY <1>1 DEF Deal, Lapse, process
  <1>2. ASSUME \/ NextDay \/ \E n \in 1..4 : Poll(n)
               \/ Recover \/ Account \/ RecordFills \/ RecordPerf \/ CancelAll
               \/ Post \/ Raise \/ Crash \/ UNCHANGED vars
        PROVE  report' \in {report, {}}
    BY <1>2 DEF NextDay, Poll, Recover, Account, RecordFills, RecordPerf, CancelAll, Post, Posted,
                GivesUp, NextTry, Raise, Crash, vars, process
  <1>3. ASSUME Gather
        PROVE  \/ report' = report
               \/ /\ UNCHANGED <<world, deals, fills, perf, day>>
                  /\ report' = {[day |-> day, header |-> HeaderOfToday,
                                 label |-> ClassifyStrategy(Legs(fills, day))]}
    BY <1>3 DEF Gather, broker, tables
  <1> QED
    BY <1>1, <1>2, <1>3 DEF Next, Broker, Step

LEMMA PerfInvariant == Spec => []PerfInv
  <1>1. Init => PerfInv
    BY DEF Init, PerfInv, ReportIsOfToday
  <1>2. BrokerInv /\ PerfInv /\ [Next]_vars => PerfInv'
    <2> SUFFICES ASSUME BrokerInv, PerfInv, [Next]_vars PROVE PerfInv'
      OBVIOUS
    <2>1. day \in Days
      BY DEF BrokerInv
    <2>2. ASSUME perf' # perf PROVE PerfInv'
      <3>1. PICK gross : perf' = [perf EXCEPT ![day] = {Row(gross)}]
        BY <2>2, RowsAreRecorded DEF RecordPerf
      <3>2. Row(gross).on = day /\ report' = report
        BY <2>2, RowsAreRecorded DEF Row
      <3> QED
        BY <2>1, <3>1, <3>2 DEF PerfInv, ReportIsOfToday
    <2>3. CASE perf' = perf
      <3>1. CASE report' \in {report, {}}
        BY <2>3, <3>1 DEF PerfInv, ReportIsOfToday
      <3>2. CASE report' = {[day |-> day, header |-> HeaderOfToday,
                             label |-> ClassifyStrategy(Legs(fills, day))]}
        BY <2>1, <2>3, <3>2 DEF PerfInv, ReportIsOfToday, HeaderOfToday
      <3> QED
        BY <3>1, <3>2, ReportsAreGathered
    <2> QED
      BY <2>2, <2>3
  <1> QED
    BY <1>1, <1>2, BrokerInvariant, PTL DEF Spec

(* What a report says of the performance is of its own day.                *)
THEOREM ReportsAreOfToday == Spec => []ReportIsOfToday
  <1>1. PerfInv => ReportIsOfToday
    BY DEF PerfInv
  <1> QED
    BY <1>1, PerfInvariant, PTL

(* A performance row never shows an exposure that the account did not have *)
(* since its positions were last read.                                     *)
THEOREM GrossIsNeverInvented == Spec => GrossWasTrue
  <1> DEFINE Claim ==
        perf' # perf => \A row \in perf'[day] : \A g \in row.gross :
            \E k \in shown..Now : g = Held(k)
  <1>1. PerfInv /\ BrokerInv /\ ShownInv /\ [Next]_vars => Claim
    <2> SUFFICES ASSUME PerfInv, BrokerInv, ShownInv, [Next]_vars, perf' # perf,
                        NEW row \in perf'[day], NEW g \in row.gross
                 PROVE  \E k \in shown..Now : g = Held(k)
      OBVIOUS
    <2>1. \/ perf' = [perf EXCEPT ![day] = {Row({Held(Now)})}]
          \/ perf' = [perf EXCEPT ![day] = {Row({})}]
      BY RowsAreRecorded DEF RecordPerf
    <2>2. day \in DOMAIN perf
      BY DEF PerfInv, BrokerInv
    <2>3. g = Held(Now)
      BY <2>1, <2>2 DEF Row, Exposure
    <2>4. Now \in shown..Now
      BY DEF ShownInv, Now, BrokerInv
    <2> QED
      BY <2>3, <2>4
  <1> QED
    BY <1>1, BrokerInvariant, ShownInvariant, PerfInvariant, PTL DEF GrossWasTrue, Spec

-----------------------------------------------------------------------------
(* Fills.  Each one is of a deal, under an id that says which.             *)

FillOf(f, n) ==
    /\ f.day = deals[n].day /\ f.item = Data(deals[n].order).item
    /\ f.side = Data(deals[n].order).side /\ f.id[1] = deals[n].order
    /\ ~world.paper => f.id[2] = n

FillInv == \A f \in fills : \E n \in DOMAIN deals : FillOf(f, n)

LEMMA DealsStay ==
    ASSUME BrokerInv, [Next]_vars, NEW n \in DOMAIN deals
    PROVE  n \in DOMAIN deals' /\ deals'[n] = deals[n] /\ world' = world
  <1>1. world' = world
    BY DealsGrow
  <1>2. CASE deals' = deals
    BY <1>1, <1>2
  <1>3. CASE \E o \in Orders : deals' = Append(deals, [order |-> o, day |-> day])
    BY <1>1, <1>3 DEF BrokerInv
  <1> QED
    BY <1>2, <1>3, DealsGrow

(* Only a sync adds fills, those of the answer that it does not know yet.  *)
LEMMA FillsAreRecorded ==
    ASSUME [Next]_vars
    PROVE  \/ UNCHANGED <<fills, synced>>
           \/ /\ fills' = fills \cup Unknown(ReconcileFills) /\ synced' = Now
              /\ UNCHANGED <<world, deals, day, missed>>
  <1>1. ASSUME NEW o \in Orders, Deal(o) \/ Lapse(o) PROVE UNCHANGED <<fills, synced>>
    BY <1>1 DEF Deal, Lapse, tables, syncHistory
  <1>2. ASSUME \/ NextDay \/ \E n \in 1..4 : Poll(n)
               \/ Recover \/ Account \/ RecordPerf \/ CancelAll
               \/ Gather \/ Post \/ Raise \/ Crash \/ UNCHANGED vars
        PROVE  UNCHANGED <<fills, synced>>
    BY <1>2 DEF NextDay, Poll, Recover, Account, RecordPerf, CancelAll, Gather, Post, Raise,
                Crash, vars, tables, syncHistory
  <1>3. ASSUME RecordFills
        PROVE  \/ UNCHANGED <<fills, synced>>
               \/ /\ fills' = fills \cup Unknown(ReconcileFills) /\ synced' = Now
                  /\ UNCHANGED <<world, deals, day, missed>>
    BY <1>3 DEF RecordFills, Inserted, broker, brokerHistory
  <1> QED
    BY <1>1, <1>2, <1>3 DEF Next, Broker, Step

(* A row of an answer is the fill of a deal of the day.                    *)
LEMMA AnswersAreFills ==
    ASSUME BrokerInv, NEW f \in ReconcileFills
    PROVE  \E n \in DOMAIN deals : FillOf(f, n)
  <1>1. CASE world.paper
    <2>1. PICK o \in Executed : f = OrderFill(o)
      BY <1>1 DEF ReconcileFills
    <2>2. PICK n \in DOMAIN deals : deals[n].order = o /\ deals[n].day = day
      BY <2>1 DEF Executed, DealsOf
    <2> QED
      BY <1>1, <2>1, <2>2 DEF FillOf, OrderFill, FillId
  <1>2. CASE ~world.paper
    <2>1. PICK n \in DOMAIN deals : deals[n].day = day /\ f = DealFill(n)
      BY <1>2 DEF ReconcileFills
    <2> QED
      BY <2>1 DEF FillOf, DealFill
  <1> QED
    BY <1>1, <1>2

LEMMA FillsInvariant == Spec => []FillInv
  <1>1. Init => FillInv
    BY DEF Init, FillInv
  <1>2. BrokerInv /\ FillInv /\ [Next]_vars => FillInv'
    <2> SUFFICES ASSUME BrokerInv, FillInv, [Next]_vars, NEW f \in fills'
                 PROVE  \E n \in DOMAIN deals' : FillOf(f, n)'
      BY DEF FillInv
    <2>1. PICK n \in DOMAIN deals : FillOf(f, n)
      BY FillsAreRecorded, AnswersAreFills DEF FillInv, Unknown
    <2>2. n \in DOMAIN deals' /\ deals'[n] = deals[n] /\ world' = world
      BY DealsStay
    <2> QED
      BY <2>1, <2>2 DEF FillOf, Data
  <1> QED
    BY <1>1, <1>2, BrokerInvariant, PTL DEF Spec

(* What a sync recorded stays recorded, by a row of the deal or, on paper, *)
(* of its order: days begin with the deals that no query will list any     *)
(* more.                                                                   *)
Recorded(n) ==
    \E f \in fills : /\ f.id[1] = deals[n].order /\ f.day = deals[n].day
                     /\ world.paper \/ f.id[2] = n

SyncedAreRecorded == \A n \in (1..synced) \ missed : Recorded(n)

SyncInv ==
    /\ synced \in 0..Len(deals) /\ SyncedAreRecorded
    /\ \A n \in DOMAIN deals : deals[n].day < day => n <= synced \/ n \in missed

LEMMA AnsweredDealsAreRecorded ==
    ASSUME BrokerInv, FillInv, fills' = fills \cup Unknown(ReconcileFills),
           UNCHANGED <<world, deals>>, NEW n \in DOMAIN deals, deals[n].day = day
    PROVE  Recorded(n)'
  <1> DEFINE o == deals[n].order
             f == IF world.paper THEN OrderFill(o) ELSE DealFill(n)
  <1>1. o \in Orders
    BY DealsAreTyped
  <1>2. f \in ReconcileFills
    BY <1>1 DEF ReconcileFills, Executed, DealsOf
  <1>3. f.id = (IF world.paper THEN <<o, 0>> ELSE <<o, n>>) /\ f.day = day
    BY DEF OrderFill, DealFill, FillId
  <1>4. PICK g \in fills' : g.id = f.id /\ (g = f \/ g \in fills)
    BY <1>2 DEF Unknown
  <1>5. g.id[1] = o /\ (world.paper \/ g.id[2] = n)
    BY <1>3, <1>4
  <1>6. g.day = day
    <2>1. CASE g = f
      BY <1>3, <2>1
    <2>2. CASE g \in fills
      <3>1. PICK m \in DOMAIN deals : FillOf(g, m)
        BY <2>2 DEF FillInv
      <3>2. deals[m].order = o /\ g.day = deals[m].day
        BY <1>5, <3>1 DEF FillOf
      <3> QED
        BY <3>2 DEF BrokerInv
    <2> QED
      BY <1>4, <2>1, <2>2
  <1> QED
    BY <1>4, <1>5, <1>6 DEF Recorded

LEMMA SyncInvariant == Spec => []SyncInv
  <1>1. Init => SyncInv
    BY DEF Init, SyncInv, SyncedAreRecorded
  <1>2. BrokerInv /\ FillInv /\ SyncInv /\ [Next]_vars => SyncInv'
    <2> SUFFICES ASSUME BrokerInv, FillInv, SyncInv, [Next]_vars PROVE SyncInv'
      OBVIOUS
    <2>1. ASSUME NEW n \in DOMAIN deals, Recorded(n) PROVE Recorded(n)'
      <3>1. deals'[n] = deals[n] /\ world' = world /\ fills \subseteq fills'
        BY DealsStay, FillsAreRecorded
      <3> QED
        BY <2>1, <3>1 DEF Recorded
    <2>2. missed \subseteq missed'
      <3>1. ASSUME NEW o \in Orders, Deal(o) \/ Lapse(o) PROVE missed' = missed
        BY <3>1 DEF Deal, Lapse, brokerHistory
      <3>2. ASSUME \/ \E n \in 1..4 : Poll(n)
                   \/ Recover \/ Account \/ RecordFills \/ RecordPerf \/ CancelAll
                   \/ Gather \/ Post \/ Raise \/ Crash \/ UNCHANGED vars
            PROVE  missed' = missed
        BY <3>2 DEF Poll, Recover, Account, RecordFills, RecordPerf, CancelAll, Gather, Post, Raise,
                    Crash, vars, brokerHistory
      <3>3. ASSUME NextDay PROVE missed \subseteq missed'
        BY <3>3 DEF NextDay
      <3> QED
        BY <3>1, <3>2, <3>3 DEF Next, Broker, Step
    <2>3. CASE deals' # deals
      <3>1. PICK o \in Orders : deals' = Append(deals, [order |-> o, day |-> day])
        BY <2>3, DealsGrow
      <3>2. UNCHANGED <<synced, missed, day>>
        BY <2>3, DealsGrow DEF syncHistory
      <3>3. Len(deals') = Len(deals) + 1 /\ deals'[Len(deals) + 1].day = day
        BY <3>1 DEF BrokerInv
      <3>4. \A n \in DOMAIN deals : deals'[n] = deals[n]
        BY DealsStay
      <3>5. DOMAIN deals' = DOMAIN deals \cup {Len(deals) + 1} /\ 1..synced \subseteq DOMAIN deals
        BY <3>1, <3>3 DEF BrokerInv, SyncInv
      <3>6. day \in Int
        BY DealsAreTyped
      <3>7. SyncedAreRecorded'
        BY <2>1, <3>2, <3>5 DEF SyncInv, SyncedAreRecorded
      <3>8. \A n \in DOMAIN deals' : deals'[n].day < day' => n <= synced' \/ n \in missed'
        BY <3>2, <3>3, <3>4, <3>5, <3>6 DEF SyncInv
      <3>9. synced' \in 0..Len(deals')
        BY <3>2, <3>3 DEF SyncInv, BrokerInv
      <3> QED
        BY <3>7, <3>8, <3>9 DEF SyncInv
    <2>4. CASE deals' = deals /\ UNCHANGED <<fills, synced>>
      <3>1. \A n \in DOMAIN deals : deals[n].day < day' => n <= synced \/ n \in missed'
        <4>1. CASE NextDay
          BY <4>1, DealsAreTyped DEF NextDay, SyncInv, BrokerInv
        <4>2. CASE day' = day
          BY <2>2, <4>2 DEF SyncInv
        <4>3. ASSUME NEW o \in Orders, Deal(o) \/ Lapse(o) PROVE day' = day
          BY <4>3 DEF Deal, Lapse
        <4>4. ASSUME \/ \E n \in 1..4 : Poll(n)
                     \/ Recover \/ Account \/ RecordFills \/ RecordPerf \/ CancelAll
                     \/ Gather \/ Post \/ Raise \/ Crash \/ UNCHANGED vars
              PROVE  day' = day
          BY <4>4 DEF Poll, Recover, Account, RecordFills, RecordPerf, CancelAll, Gather, Post,
                      Raise, Crash, vars, broker
        <4> QED
          BY <4>1, <4>2, <4>3, <4>4 DEF Next, Broker, Step
      <3>2. 1..synced \subseteq DOMAIN deals
        BY DEF SyncInv, BrokerInv
      <3>3. SyncedAreRecorded'
        BY <2>1, <2>2, <2>4, <3>2 DEF SyncInv, SyncedAreRecorded
      <3> QED
        BY <2>4, <3>1, <3>3 DEF SyncInv
    <2>5. CASE /\ fills' = fills \cup Unknown(ReconcileFills) /\ synced' = Now
               /\ UNCHANGED <<world, deals, day, missed>>
      <3>1. synced' = Len(deals) /\ DOMAIN deals = 1..Len(deals) /\ Len(deals) \in Nat
        BY <2>5 DEF Now, BrokerInv
      <3>2. ASSUME NEW n \in DOMAIN deals, n \notin missed PROVE Recorded(n)'
        <4>1. CASE deals[n].day = day
          BY <2>5, <4>1, AnsweredDealsAreRecorded
        <4>2. CASE deals[n].day # day
          <5>1. deals[n].day < day
            BY <4>2, DealsAreTyped DEF BrokerInv
          <5>2. Recorded(n)
            BY <3>1, <3>2, <5>1 DEF SyncInv, SyncedAreRecorded
          <5> QED
            BY <2>1, <5>2
        <4> QED
          BY <4>1, <4>2
      <3> QED
        BY <2>5, <3>1, <3>2 DEF SyncInv, SyncedAreRecorded
    <2> QED
      BY <2>3, <2>4, <2>5, FillsAreRecorded
  <1> QED
    BY <1>1, <1>2, BrokerInvariant, FillsInvariant, PTL DEF Spec

-----------------------------------------------------------------------------
(* The steps that a poll leaves to be done: the fills follow the account,  *)
(* and the report comes last.                                              *)
Jobs == {"account", "fills", "perf", "cancel", "gather", "post"}

Reporting(s) == \E i \in 1..Len(s) : s[i] \in {"gather", "post"}

WellFormed(s) ==
    /\ s \in Seq(Jobs)
    /\ \A i \in 1..Len(s) :
          /\ s[i] = "account" => i < Len(s) /\ s[i + 1] = "fills"
          /\ s[i] \in {"gather", "post"} => i = Len(s)

LEMMA JoinedIsWellFormed ==
    ASSUME NEW s, WellFormed(s), ~Reporting(s), NEW t, WellFormed(t)
    PROVE  WellFormed(s \o t) /\ (Reporting(s \o t) => Reporting(t))
  <1>1. s \o t \in Seq(Jobs) /\ Len(s \o t) = Len(s) + Len(t) /\ Len(s) \in Nat /\ Len(t) \in Nat
    BY DEF WellFormed
  <1>2. \A i \in 1..Len(s) : (s \o t)[i] = s[i]
    BY DEF WellFormed
  <1>3. \A i \in 1..Len(t) : (s \o t)[Len(s) + i] = t[i]
    BY DEF WellFormed
  <1>4. ASSUME NEW i \in 1..Len(s \o t)
        PROVE  /\ (s \o t)[i] = "account" => i < Len(s \o t) /\ (s \o t)[i + 1] = "fills"
               /\ (s \o t)[i] \in {"gather", "post"} => i = Len(s \o t) /\ Reporting(t)
    <2>1. CASE i \in 1..Len(s)
      BY <1>1, <1>2, <2>1 DEF WellFormed, Reporting
    <2>2. CASE i \notin 1..Len(s)
      <3>1. i - Len(s) \in 1..Len(t) /\ (s \o t)[i] = t[i - Len(s)]
        BY <1>1, <1>3, <2>2
      <3>2. i < Len(s \o t) => (s \o t)[i + 1] = t[i - Len(s) + 1]
        BY <1>1, <1>3, <3>1
      <3> QED
        BY <1>1, <3>1, <3>2 DEF WellFormed, Reporting
    <2> QED
      BY <2>1, <2>2
  <1> QED
    BY <1>1, <1>4 DEF WellFormed, Reporting

LEMMA RestIsWellFormed ==
    ASSUME NEW s, WellFormed(s), s # <<>>
    PROVE  /\ WellFormed(Tail(s)) /\ (Reporting(Tail(s)) => Reporting(s))
           /\ Head(s) = "account" => Tail(s) # <<>> /\ Head(Tail(s)) = "fills"
           /\ Head(s) \in {"gather", "post"} => Tail(s) = <<>> /\ Reporting(s)
  <1>1. s \in Seq(Jobs)
    BY DEF WellFormed
  <1>2. /\ Tail(s) \in Seq(Jobs) /\ Len(Tail(s)) = Len(s) - 1
        /\ \A i \in 1..Len(Tail(s)) : Tail(s)[i] = s[i + 1]
    BY <1>1, HeadTailProperties
  <1>3. Len(s) \in Nat \ {0}
    BY <1>1, EmptySeq
  <1>4. Head(s) = s[1]
    BY <1>1
  <1>5. WellFormed(Tail(s)) /\ (Reporting(Tail(s)) => Reporting(s))
    <2>1. ASSUME NEW i \in 1..Len(Tail(s))
          PROVE  /\ i + 1 \in 1..Len(s) /\ Tail(s)[i] = s[i + 1]
                 /\ i < Len(Tail(s)) <=> i + 1 < Len(s)
                 /\ i + 1 < Len(s) => Tail(s)[i + 1] = s[(i + 1) + 1]
                 /\ i = Len(Tail(s)) <=> i + 1 = Len(s)
      BY <1>2, <1>3
    <2> QED
      BY <1>2, <2>1 DEF WellFormed, Reporting
  <1>6. CASE Len(s) = 1
    <2>1. Len(Tail(s)) = 0
      BY <1>2, <1>6
    <2>2. Tail(s) = <<>>
      BY <1>2, <2>1, EmptySeq
    <2> QED
      BY <1>3, <1>4, <1>5, <1>6, <2>2 DEF WellFormed, Reporting
  <1>7. CASE Len(s) # 1
    <2>1. Len(Tail(s)) \in Nat \ {0} /\ 1 < Len(s)
      BY <1>2, <1>3, <1>7
    <2>2. Tail(s) # <<>> /\ Head(Tail(s)) = Tail(s)[1]
      BY <1>2, <2>1, EmptySeq
    <2>3. Tail(s)[1] = s[2]
      BY <1>2, <2>1
    <2> QED
      BY <1>3, <1>4, <1>5, <2>1, <2>2, <2>3 DEF WellFormed
  <1> QED
    BY <1>6, <1>7

LEMMA JobsAreWellFormed ==
    /\ WellFormed(<<>>) /\ ~Reporting(<<>>)
    /\ WellFormed(Sync) /\ ~Reporting(Sync)
    /\ \A k \in 1..4 : WellFormed(StepsOf(k)) /\ (Reporting(StepsOf(k)) => k = 4)
    /\ WellFormed(<<"post">>)
  <1>1. WellFormed(<<>>) /\ ~Reporting(<<>>)
    BY DEF WellFormed, Reporting
  <1>2. WellFormed(Sync) /\ ~Reporting(Sync)
    BY DEF Sync, WellFormed, Reporting, Jobs
  <1>3. WellFormed(<<"perf">>) /\ ~Reporting(<<"perf">>)
    BY DEF WellFormed, Reporting, Jobs
  <1>4. WellFormed(StepsOf(3)) /\ ~Reporting(StepsOf(3))
    BY DEF WellFormed, Reporting, Jobs, StepsOf
  <1>5. WellFormed(<<"gather">>) /\ WellFormed(<<"post">>)
    BY DEF WellFormed, Jobs
  <1>6. StepsOf(2) = Sync \o <<"perf">>
    <2>1. Sync \in Seq(Jobs) /\ "perf" \in Jobs
      BY DEF Sync, Jobs
    <2> QED
      BY <2>1, AppendIsConcat DEF StepsOf
  <1>7. WellFormed(StepsOf(2)) /\ ~Reporting(StepsOf(2))
    BY <1>2, <1>3, <1>6, JoinedIsWellFormed
  <1>8. StepsOf(1) = Sync /\ StepsOf(4) = <<"gather">>
    BY DEF StepsOf
  <1>9. \A k \in 1..4 : k = 1 \/ k = 2 \/ k = 3 \/ k = 4
    OBVIOUS
  <1> QED
    BY <1>1, <1>2, <1>4, <1>5, <1>7, <1>8, <1>9

(* A poll fires the report only when it is not marked yet.                 *)
LEMMA PolledIsWellFormed ==
    ASSUME NEW n \in 1..4, Poll(n)
    PROVE  /\ WellFormed(todo')
           /\ Reporting(todo') => 4 \notin marked /\ 4 \in marked'
  <1> DEFINE F(k) == Fired(k, n)
  <1>1. ASSUME NEW k \in 1..4
        PROVE  WellFormed(F(k)) /\ (Reporting(F(k)) => k = 4 /\ 4 \notin marked /\ 4 <= n)
    BY JobsAreWellFormed DEF Fired
  <1>2. todo' = ((F(1) \o F(2)) \o F(3)) \o F(4)
    BY DEF Poll
  <1> HIDE DEF F
  <1>3. WellFormed(F(1) \o F(2)) /\ ~Reporting(F(1) \o F(2))
    BY <1>1, JoinedIsWellFormed
  <1>4. WellFormed((F(1) \o F(2)) \o F(3)) /\ ~Reporting((F(1) \o F(2)) \o F(3))
    BY <1>1, <1>3, JoinedIsWellFormed
  <1>5. WellFormed(todo') /\ (Reporting(todo') => Reporting(F(4)))
    BY <1>1, <1>2, <1>4, JoinedIsWellFormed
  <1> QED
    BY <1>1, <1>5 DEF Poll, AtMostOnce

(* What is left to be done stays well-formed, and only a poll adds the     *)
(* report to it.                                                           *)
LEMMA JobsAreDone ==
    ASSUME WellFormed(todo), [Next]_vars
    PROVE  /\ WellFormed(todo')
           /\ \/ Reporting(todo') => Reporting(todo)
              \/ (\E n \in 1..4 : Poll(n)) /\ (Reporting(todo') => 4 \notin marked /\ 4 \in marked')
  <1>1. CASE todo' = todo
    BY <1>1
  <1>2. CASE todo # <<>> /\ todo' = Tail(todo)
    BY <1>2, RestIsWellFormed
  <1>3. CASE todo' = <<>> \/ todo' = Sync
    BY <1>3, JobsAreWellFormed
  <1>4. ASSUME NEW n \in 1..4, Poll(n)
        PROVE  WellFormed(todo') /\ (Reporting(todo') => 4 \notin marked /\ 4 \in marked')
    BY <1>4, PolledIsWellFormed
  <1>5. ASSUME Gather PROVE todo' = Tail(todo) \/ (todo' = <<"post">> /\ Reporting(todo))
    <2>1. Tail(todo) = <<>> /\ Reporting(todo)
      BY <1>5, RestIsWellFormed DEF Gather, At
    <2>2. <<"post">> \o <<>> = <<"post">>
      <3>1. <<"post">> \in Seq(Jobs)
        BY JobsAreWellFormed DEF WellFormed
      <3> QED
        BY <3>1, ConcatEmptySeq
    <2> QED
      BY <1>5, <2>1, <2>2 DEF Gather, Done
  <1>6. ASSUME Account \/ RecordFills \/ RecordPerf \/ CancelAll \/ Post
        PROVE  todo # <<>> /\ (todo' = todo \/ todo' = Tail(todo))
    BY <1>6 DEF Account, RecordFills, RecordPerf, CancelAll, Post, Posted, GivesUp, NextTry, Done, At
  <1>7. ASSUME Raise \/ Crash \/ Recover PROVE todo' = <<>> \/ todo' = Sync
    BY <1>7 DEF Raise, Crash, Recover
  <1>8. ASSUME NEW o \in Orders, Deal(o) \/ Lapse(o) PROVE todo' = todo
    BY <1>8 DEF Deal, Lapse, process
  <1>9. ASSUME NextDay \/ UNCHANGED vars PROVE todo' = todo
    BY <1>9 DEF NextDay, vars, process
  <1>10. ASSUME Gather PROVE todo # <<>>
    BY <1>10 DEF Gather, At
  <1>11. CASE todo' = <<"post">> /\ Reporting(todo)
    BY <1>11, JobsAreWellFormed
  <1> QED
    BY <1>1, <1>2, <1>3, <1>4, <1>5, <1>6, <1>7, <1>8, <1>9, <1>10, <1>11 DEF Next, Broker, Step

LEMMA JobsInvariant == Spec => []WellFormed(todo)
  <1>1. Init => WellFormed(todo)
    BY JobsAreWellFormed DEF Init
  <1>2. WellFormed(todo) /\ [Next]_vars => WellFormed(todo)'
    BY JobsAreDone DEF WellFormed
  <1> QED
    BY <1>1, <1>2, PTL DEF Spec

(* After the account is read, complete means that its fills are still to   *)
(* come next, or cover what it showed.                                     *)
ExplainedInv == complete /\ ~At("fills") => shown <= synced

LEMMA ExplainedInvNext ==
    ASSUME WellFormed(todo), BrokerInv, ShownInv, ExplainedInv, [Next]_vars
    PROVE  ExplainedInv'
  <1>1. CASE UNCHANGED <<todo, complete, shown, synced>>
    BY <1>1 DEF ExplainedInv, At
  <1>2. CASE ~At("fills") /\ UNCHANGED <<complete, shown, synced>>
    BY <1>2 DEF ExplainedInv
  <1>3. CASE complete' = FALSE
    BY <1>3 DEF ExplainedInv
  <1>4. ASSUME Account, complete' PROVE At("fills")'
    <2>1. At("account") /\ todo' = Tail(todo)
      BY <1>4 DEF Account, Done
    <2> QED
      BY <2>1, RestIsWellFormed DEF At
  <1>5. ASSUME Account PROVE complete' \in BOOLEAN /\ (complete' = FALSE \/ complete' = TRUE)
    BY <1>5 DEF Account
  <1>6. ASSUME RecordFills, complete' # FALSE PROVE shown' <= synced'
    <2>1. shown' = shown /\ synced' = Now
      BY <1>6 DEF RecordFills
    <2> QED
      BY <2>1 DEF ShownInv, Now, BrokerInv
  <1>7. ASSUME NEW o \in Orders, Deal(o) \/ Lapse(o) PROVE UNCHANGED <<todo, complete, shown, synced>>
    BY <1>7 DEF Deal, Lapse, process, syncHistory
  <1>8. ASSUME UNCHANGED vars PROVE UNCHANGED <<todo, complete, shown, synced>>
    BY <1>8 DEF vars, process, syncHistory
  <1>9. ASSUME (\E n \in 1..4 : Poll(n)) \/ Recover \/ RecordPerf \/ CancelAll \/ Gather \/ Post
        PROVE  ~At("fills") /\ UNCHANGED <<complete, shown, synced>>
    BY <1>9 DEF Poll, Recover, RecordPerf, CancelAll, Gather, Post, At, syncHistory
  <1>10. ASSUME NextDay \/ Raise \/ Crash PROVE complete' = FALSE
    BY <1>10 DEF NextDay, Raise, Crash
  <1> QED
    BY <1>1, <1>2, <1>3, <1>4, <1>5, <1>6, <1>7, <1>8, <1>9, <1>10
       DEF Next, Broker, Step, ExplainedInv

LEMMA ExplainedInvariant == Spec => []ExplainedInv
  <1>1. Init => ExplainedInv
    BY DEF Init, ExplainedInv
  <1>2. WellFormed(todo) /\ BrokerInv /\ ShownInv /\ ExplainedInv /\ [Next]_vars => ExplainedInv'
    BY ExplainedInvNext
  <1> QED
    BY <1>1, <1>2, JobsInvariant, BrokerInvariant, ShownInvariant, PTL DEF Spec

-----------------------------------------------------------------------------
(* Posts.  The report is fired once a day, and is to be posted again only  *)
(* when each post before was one whose answer was lost.                    *)

OnceInv ==
    /\ delivered \in [Days -> Nat] /\ lost \in [Days -> Nat]
    /\ \A d \in Days : delivered[d] <= 1 + lost[d] /\ (d > day => delivered[d] = 0)
    /\ Reporting(todo) => 4 \in marked /\ delivered[day] <= lost[day]
    /\ 4 \notin marked => delivered[day] = 0

LEMMA PostOnce ==
    ASSUME WellFormed(todo), BrokerInv, OnceInv, Post
    PROVE  OnceInv'
  <1>1. Reporting(todo) /\ Tail(todo) = <<>> /\ ~Reporting(<<>>)
    BY RestIsWellFormed, JobsAreWellFormed DEF Post, At
  <1>2. UNCHANGED <<day, marked>> /\ day \in Days /\ Days \subseteq Int
    BY DEF Post, broker, BrokerInv, Days
  <1>3. delivered[day] <= lost[day] /\ \A d \in Days : delivered[d] \in Nat /\ lost[d] \in Nat
    BY <1>1 DEF OnceInv
  <1>4. CASE delivered' = [delivered EXCEPT ![day] = @ + 1] /\ todo' = Tail(todo) /\ lost' = lost
    <2>1. delivered'[day] = delivered[day] + 1 /\ \A d \in Days \ {day} : delivered'[d] = delivered[d]
      BY <1>2, <1>4 DEF OnceInv
    <2>2. delivered' \in [Days -> Nat]
      BY <1>2, <1>4 DEF OnceInv
    <2>3. \A d \in Days : delivered'[d] <= 1 + lost'[d] /\ (d > day' => delivered'[d] = 0)
      BY <1>2, <1>3, <1>4, <2>1 DEF OnceInv
    <2> QED
      BY <1>1, <1>2, <1>4, <2>2, <2>3 DEF OnceInv
  <1>5. CASE /\ delivered' = [delivered EXCEPT ![day] = @ + 1] /\ lost' = [lost EXCEPT ![day] = @ + 1]
             /\ todo' = todo \/ todo' = Tail(todo)
    <2>1. /\ delivered'[day] = delivered[day] + 1 /\ lost'[day] = lost[day] + 1
          /\ \A d \in Days \ {day} : delivered'[d] = delivered[d] /\ lost'[d] = lost[d]
      BY <1>2, <1>5 DEF OnceInv
    <2>2. delivered' \in [Days -> Nat] /\ lost' \in [Days -> Nat]
      BY <1>2, <1>5 DEF OnceInv
    <2>3. \A d \in Days : delivered'[d] <= 1 + lost'[d] /\ (d > day' => delivered'[d] = 0)
      BY <1>2, <1>3, <2>1 DEF OnceInv
    <2>4. 4 \in marked /\ delivered'[day] <= lost'[day]
      BY <1>1, <1>2, <1>3, <2>1 DEF OnceInv
    <2> QED
      BY <1>1, <1>2, <1>5, <2>2, <2>3, <2>4 DEF OnceInv
  <1>6. CASE UNCHANGED posts /\ (todo' = todo \/ todo' = Tail(todo))
    BY <1>1, <1>2, <1>6 DEF OnceInv
  <1> QED
    BY <1>4, <1>5, <1>6 DEF Post, Posted, GivesUp, NextTry, Done

LEMMA OnceInvNext ==
    ASSUME WellFormed(todo), BrokerInv, OnceInv, [Next]_vars
    PROVE  OnceInv'
  <1>1. day \in Days /\ Days \subseteq Int
    BY DEF BrokerInv, Days
  <1>2. CASE /\ UNCHANGED <<day, marked, posts>>
             /\ Reporting(todo') => Reporting(todo)
    BY <1>1, <1>2 DEF OnceInv
  <1>3. ASSUME NEW n \in 1..4, Poll(n) PROVE OnceInv'
    <2>1. UNCHANGED <<day, posts>> /\ marked \subseteq marked'
      BY <1>3 DEF Poll, broker
    <2> QED
      BY <1>1, <1>3, <2>1, PolledIsWellFormed DEF OnceInv
  <1>4. ASSUME NextDay PROVE OnceInv'
    <2>1. todo' = <<>> /\ ~Reporting(<<>>)
      BY <1>4, JobsAreWellFormed DEF NextDay
    <2>2. day' = day + 1 /\ day' \in Days /\ UNCHANGED posts
      BY <1>1, <1>4 DEF NextDay, Days
    <2> QED
      BY <1>1, <2>1, <2>2 DEF OnceInv
  <1>5. ASSUME NEW o \in Orders, Deal(o) \/ Lapse(o)
        PROVE  UNCHANGED <<day, marked, posts, todo>>
    BY <1>5 DEF Deal, Lapse, process, tables
  <1>6. ASSUME UNCHANGED vars PROVE UNCHANGED <<day, marked, posts, todo>>
    BY <1>6 DEF vars, broker, process, tables
  <1>7. ASSUME Recover \/ Account \/ RecordFills \/ RecordPerf \/ CancelAll \/ Gather \/ Raise \/ Crash
        PROVE  UNCHANGED <<day, marked, posts>>
    BY <1>7 DEF Recover, Account, RecordFills, RecordPerf, CancelAll, Gather, Raise, Crash,
                broker, tables
  <1>8. ASSUME Recover \/ Account \/ RecordFills \/ RecordPerf \/ CancelAll \/ Gather \/ Raise \/ Crash
        PROVE  Reporting(todo') => Reporting(todo)
    <2>1. ASSUME NEW n \in 1..4, Poll(n) PROVE Reporting(todo') => 4 \notin marked /\ 4 \in marked'
      BY <2>1, PolledIsWellFormed
    <2>2. marked' = marked
      BY <1>7, <1>8
    <2> QED
      BY <2>2, JobsAreDone
  <1>9. ASSUME Post PROVE OnceInv'
    BY <1>9, PostOnce
  <1> QED
    BY <1>2, <1>3, <1>4, <1>5, <1>6, <1>7, <1>8, <1>9 DEF Next, Broker, Step

LEMMA OnceInvariant == Spec => []OnceInv
  <1>1. Init => OnceInv
    <2>1. 1 \in Days /\ ~Reporting(<<>>)
      BY JobsAreWellFormed DEF Days
    <2> QED
      BY <2>1 DEF Init, OnceInv
  <1>2. WellFormed(todo) /\ BrokerInv /\ OnceInv /\ [Next]_vars => OnceInv'
    BY OnceInvNext
  <1> QED
    BY <1>1, <1>2, JobsInvariant, BrokerInvariant, PTL DEF Spec

(* The report of a day is delivered once, or a lost answer explains every  *)
(* post after the first, through any crash and fault.                      *)
THEOREM ReportsArePostedOnce == Spec => []OneReportUnlessLost
  <1>1. OnceInv => OneReportUnlessLost
    BY DEF OnceInv, OneReportUnlessLost
  <1> QED
    BY <1>1, OnceInvariant, PTL

-----------------------------------------------------------------------------
(* The report.                                                             *)

(* The labels that prove an overlay are given to legs that have its option *)
(* legs, those of a call diagonal excepted.                                *)
LEMMA LabelsProveLegs ==
    ASSUME NEW legs, \A l \in legs : l[2] \in Sides,
           NEW intent, intent # "CALL_DIAGONAL", ClassifyStrategy(legs) \in IntentProof(intent),
           NEW leg \in HedgeLegs(intent)
    PROVE  \E l \in legs : l[1].right = leg[1] /\ l[2] = leg[2]
  <1> DEFINE Of(right)       == {l \in legs : l[1].right = right}
             Has(right, side) == \E l \in Of(right) : l[2] = side
             label == ClassifyStrategy(legs)
  <1>1. Cardinality({}) = 0
    BY FS_EmptySet
  <1>2. /\ label = "COLLAR" => Has("CALL", "SELL") /\ Has("PUT", "BUY")
        /\ label = "COVERED_CALL" => Has("CALL", "SELL")
        /\ label = "PROTECTIVE_PUT" => Has("PUT", "BUY")
        /\ label = "BEAR_PUT_SPREAD" => Has("PUT", "BUY") /\ Has("PUT", "SELL")
        /\ label = "LEAP" => Has("CALL", "BUY")
    BY DEF ClassifyStrategy
  <1>3. label = "COVERED_CALL_EXISTING" => Of("CALL") # {} /\ ~Has("CALL", "BUY")
    <2>1. label = "COVERED_CALL_EXISTING" => Cardinality(Of("CALL")) = 1 /\ ~Has("CALL", "BUY")
      BY DEF ClassifyStrategy
    <2>2. Cardinality(Of("CALL")) = 1 => Of("CALL") # {}
      BY <1>1
    <2> QED
      BY <2>1, <2>2
  <1>4. label = "COVERED_CALL_EXISTING" => Has("CALL", "SELL")
    BY <1>3 DEF Sides
  <1>5. Has(leg[1], leg[2])
    BY <1>2, <1>4 DEF IntentProof, HedgeLegs
  <1> QED
    BY <1>5

(* A report that does not flag a missing hedge has seen its option legs    *)
(* dealt that day.                                                         *)
THEOREM HedgeClaimsHold == Spec => []HedgeClaimsAreProven
  <1>1. Init => HedgeClaimsAreProven
    BY DEF Init, HedgeClaimsAreProven
  <1>2. BrokerInv /\ FillInv /\ HedgeClaimsAreProven /\ [Next]_vars => HedgeClaimsAreProven'
    <2> SUFFICES ASSUME BrokerInv, FillInv, HedgeClaimsAreProven, [Next]_vars,
                        world'.intent # "CALL_DIAGONAL", NEW r \in report',
                        r.label \in IntentProof(world'.intent), NEW leg \in HedgeLegs(world'.intent)
                 PROVE  \E n \in DOMAIN deals' :
                           /\ deals'[n].day = r.day /\ Data(deals[n].order)'.item.right = leg[1]
                           /\ Data(deals[n].order)'.side = leg[2]
      BY DEF HedgeClaimsAreProven
    <2>1. world' = world
      BY DealsGrow
    <2>2. \E n \in DOMAIN deals : /\ deals[n].day = r.day /\ Data(deals[n].order).item.right = leg[1]
                                  /\ Data(deals[n].order).side = leg[2]
      <3>1. CASE report' \in {report, {}}
        BY <2>1, <3>1 DEF HedgeClaimsAreProven
      <3>2. CASE report' = {[day |-> day, header |-> HeaderOfToday,
                             label |-> ClassifyStrategy(Legs(fills, day))]}
        <4>1. r.day = day /\ ClassifyStrategy(Legs(fills, day)) \in IntentProof(world.intent)
          BY <2>1, <3>2
        <4>2. \A l \in Legs(fills, day) : \E n \in DOMAIN deals :
                  /\ deals[n].day = day /\ l[1] = Data(deals[n].order).item
                  /\ l[2] = Data(deals[n].order).side
          BY DEF Legs, OfTheDay, FillInv, FillOf
        <4>3. \A n \in DOMAIN deals : Data(deals[n].order).side \in Sides
          BY DealsAreTyped DEF BrokerInv, Data, Orders, OrderData
        <4>4. PICK l \in Legs(fills, day) : l[1].right = leg[1] /\ l[2] = leg[2]
          BY <2>1, <4>1, <4>2, <4>3, LabelsProveLegs
        <4> QED
          BY <4>1, <4>2, <4>4
      <3> QED
        BY <3>1, <3>2, ReportsAreGathered
    <2> QED
      BY <2>1, <2>2, DealsStay DEF Data
  <1> QED
    BY <1>1, <1>2, BrokerInvariant, FillsInvariant, PTL DEF Spec

(* Reports are true of their day and come once, for any orders and faults. *)
THEOREM ReportsTellTheTruth == Spec => []ReportsAreTrue
  <1>1. ReportIsOfToday /\ HedgeClaimsAreProven /\ OneReportUnlessLost => ReportsAreTrue
    BY DEF ReportsAreTrue
  <1> QED
    BY <1>1, ReportsAreOfToday, HedgeClaimsHold, ReportsArePostedOnce, PTL
-----------------------------------------------------------------------------
(* The sum of the rows of an order.                                        *)

LEMMA Induction ==
    ASSUME NEW S, 0 \in S, \A n \in Nat : n \in S => n + 1 \in S
    PROVE  \A n \in Nat : n \in S
  <1> DEFINE Missing == Nat \ S
  <1> SUFFICES ASSUME Missing # {} PROVE FALSE
    OBVIOUS
  <1>1. PICK m \in Missing : \A k \in Missing : <<k, m>> \notin OpToRel(<, Nat)
    BY WFMin, NatLessThanWellFounded, Missing \subseteq Nat, Zenon
  <1>2. m \in Missing /\ m \in Nat /\ m # 0 /\ m - 1 \in Nat /\ m - 1 < m
    <2>1. m \in Nat /\ m \notin S
      OBVIOUS
    <2> QED
      BY <2>1
  <1>3. m - 1 \notin Missing
    BY <1>1, <1>2, Zenon DEF OpToRel
  <1>4. m - 1 + 1 \in S
    BY <1>2, <1>3
  <1> QED
    BY <1>2, <1>4

One(T) == CHOOSE x \in T : TRUE

(* The recursion that the sum is folded by.                                *)
SumsTo(rows, g) == \A T \in SUBSET rows : g[T] = IF T = {} THEN 0 ELSE One(T).qty + g[T \ {One(T)}]
Iterates(rows, g) ==
    g = [T \in SUBSET rows |-> IF T = {} THEN 0 ELSE One(T).qty + g[T \ {One(T)}]]

LEMMA SumsAgree ==
    ASSUME NEW rows, IsFiniteSet(rows), NEW g, SumsTo(rows, g), NEW h, SumsTo(rows, h)
    PROVE  g[rows] = h[rows]
  <1> DEFINE Agree == {n \in Nat : \A T \in SUBSET rows : Cardinality(T) <= n => g[T] = h[T]}
  <1>0. \A T \in SUBSET rows : IsFiniteSet(T) /\ Cardinality(T) \in Nat
    BY FS_Subset, FS_CardinalityType
  <1>1. 0 \in Agree
    <2> SUFFICES ASSUME NEW T \in SUBSET rows, Cardinality(T) <= 0 PROVE g[T] = h[T]
      OBVIOUS
    <2>1. T = {}
      BY <1>0, FS_EmptySet
    <2> QED
      BY <2>1 DEF SumsTo
  <1>2. ASSUME NEW n \in Nat, n \in Agree PROVE n + 1 \in Agree
    <2> SUFFICES ASSUME NEW T \in SUBSET rows, Cardinality(T) <= n + 1 PROVE g[T] = h[T]
      OBVIOUS
    <2>0. CASE T = {}
      BY <2>0 DEF SumsTo
    <2> SUFFICES ASSUME T # {} PROVE g[T] = h[T]
      BY <2>0
    <2> DEFINE U == T \ {One(T)}
    <2>1. One(T) \in T
      BY DEF One
    <2>2. U \in SUBSET rows /\ Cardinality(U) = Cardinality(T) - 1
      BY <1>0, <2>1, FS_RemoveElement
    <2>3. Cardinality(U) <= n
      BY <1>0, <2>2
    <2>4. g[U] = h[U]
      BY <1>2, <2>2, <2>3
    <2>5. g[T] = One(T).qty + g[U] /\ h[T] = One(T).qty + h[U]
      BY DEF SumsTo
    <2> QED
      BY <2>4, <2>5, Zenon
  <1>3. Cardinality(rows) \in Agree
    <2> HIDE DEF Agree
    <2> QED
      BY <1>0, <1>1, <1>2, Induction
  <1> QED
    BY <1>0, <1>3

LEMMA FilledInIs ==
    ASSUME NEW o, NEW g, IsFiniteSet({f \in fills : f.id[1] = o}),
           SumsTo({f \in fills : f.id[1] = o}, g)
    PROVE  FilledIn(o) = g[{f \in fills : f.id[1] = o}]
  <1> DEFINE rows == {f \in fills : f.id[1] = o}
             h    == CHOOSE x : Iterates(rows, x)
  <1>1. FilledIn(o) = h[rows]
    BY DEF FilledIn, FoldSet, MapThenFoldSet, Iterates, One
  <1> HIDE DEF rows
  <1>2. Iterates(rows, [T \in SUBSET rows |-> g[T]])
    <2> DEFINE G == [T \in SUBSET rows |-> g[T]]
    <2>1. ASSUME NEW T \in SUBSET rows
          PROVE  G[T] = IF T = {} THEN 0 ELSE One(T).qty + G[T \ {One(T)}]
      BY DEF SumsTo, rows
    <2> QED
      BY <2>1 DEF Iterates
  <1>3. Iterates(rows, h)
    BY <1>2
  <1> HIDE DEF h
  <1>4. SumsTo(rows, h)
    BY <1>3 DEF Iterates, SumsTo
  <1>5. SumsTo(rows, g) /\ IsFiniteSet(rows)
    BY DEF rows
  <1>6. g[rows] = h[rows]
    BY <1>4, <1>5, SumsAgree
  <1> QED
    BY <1>1, <1>6 DEF rows

(* On a live account a row is of one deal; on paper there is one row to an *)
(* order, which is of all it dealt unless it was projected early.          *)
LiveRow(f)  == f.qty = 1 /\ f.id[2] \in DealsOf(f.id[1]) /\ f.id = <<f.id[1], f.id[2]>>
PaperRow(f) == /\ f.id = <<f.id[1], 0>> /\ f.qty \in 1..Dealt(f.id[1])
               /\ f.id[1] \in early \/ (f.qty = Dealt(f.id[1]) /\ status[f.id[1]] = "done")

RowsInv ==
    /\ \A f, g \in fills : f.id = g.id => f = g
    /\ \A f \in fills : f.id[1] \in Orders /\ IF world.paper THEN PaperRow(f) ELSE LiveRow(f)

LEMMA PlacesAreFinite ==
    ASSUME NEW R, NEW s \in Seq(R), NEW S \in SUBSET (DOMAIN s)
    PROVE  IsFiniteSet(S)
  <1>1. DOMAIN s = 1..Len(s) /\ Len(s) \in Nat
    OBVIOUS
  <1>2. IsFiniteSet(1..Len(s))
    BY <1>1, FS_Interval
  <1> QED
    BY <1>1, <1>2, FS_Subset

LEMMA DealsAreFinite ==
    ASSUME BrokerInv, NEW o
    PROVE  /\ DealsOf(o) \in SUBSET (DOMAIN deals) /\ IsFiniteSet(DealsOf(o)) /\ Dealt(o) \in Nat
           /\ DealsOf(o) # {} => Dealt(o) > 0
  <1>1. DealsOf(o) \in SUBSET (DOMAIN deals)
    BY DEF DealsOf
  <1>2. IsFiniteSet(DealsOf(o))
    BY <1>1, PlacesAreFinite DEF BrokerInv
  <1>3. Dealt(o) \in Nat
    BY <1>2, FS_CardinalityType DEF Dealt
  <1>4. DealsOf(o) # {} => Dealt(o) # 0
    BY <1>2, FS_EmptySet DEF Dealt
  <1> QED
    BY <1>1, <1>2, <1>3, <1>4

(* What a row says of an order stays true: an order that is done deals no  *)
(* more.                                                                   *)
LEMMA RowsStay ==
    ASSUME BrokerInv, [Next]_vars, NEW f \in fills, f.id[1] \in Orders,
           IF world.paper THEN PaperRow(f) ELSE LiveRow(f)
    PROVE  f.id[1] \in Orders' /\ IF world'.paper THEN PaperRow(f)' ELSE LiveRow(f)'
  <1> DEFINE o == f.id[1]
  <1>1. world' = world /\ Orders' = Orders
    BY DealsGrow DEF Orders
  <1>2. DealsOf(o) \subseteq DealsOf(o)'
    <2>1. \A n \in DOMAIN deals : n \in DOMAIN deals' /\ deals'[n] = deals[n]
      BY DealsStay
    <2> QED
      BY <2>1 DEF DealsOf
  <1>3. early \subseteq early'
    <2>1. ASSUME RecordFills PROVE early \subseteq early'
      BY <2>1 DEF RecordFills
    <2>2. ASSUME NEW p \in Orders, Deal(p) \/ Lapse(p) PROVE early' = early
      BY <2>2 DEF Deal, Lapse, syncHistory
    <2>3. ASSUME \/ NextDay \/ \E n \in 1..4 : Poll(n)
                 \/ Recover \/ Account \/ RecordPerf \/ CancelAll
                 \/ Gather \/ Post \/ Raise \/ Crash \/ UNCHANGED vars
          PROVE  early' = early
      BY <2>3 DEF NextDay, Poll, Recover, Account, RecordPerf, CancelAll, Gather, Post, Raise,
                  Crash, vars, syncHistory
    <2> QED
      BY <2>1, <2>2, <2>3 DEF Next, Broker, Step
  <1>4. status[o] = "done" => status'[o] = "done" /\ DealsOf(o)' = DealsOf(o)
    <2> SUFFICES ASSUME status[o] = "done" PROVE status'[o] = "done" /\ DealsOf(o)' = DealsOf(o)
      OBVIOUS
    <2>0. status \in [Orders -> {"new", "working", "done"}] /\ deals \in Seq(DealRecords)
      BY DEF BrokerInv
    <2>1. ASSUME NEW p \in Orders, Deal(p) PROVE status'[o] = "done" /\ DealsOf(o)' = DealsOf(o)
      <3>1. /\ p # o /\ deals' = Append(deals, [order |-> p, day |-> day])
            /\ \E s \in {"done", "working"} : status' = [status EXCEPT ![p] = s]
        BY <2>1 DEF Deal
      <3>2. /\ DOMAIN deals' = DOMAIN deals \cup {Len(deals) + 1} /\ Len(deals) + 1 \notin DOMAIN deals
            /\ deals'[Len(deals) + 1].order = p
            /\ \A n \in DOMAIN deals : deals'[n] = deals[n]
        BY <2>0, <3>1
      <3>3. DealsOf(o)' = DealsOf(o)
        BY <3>1, <3>2 DEF DealsOf
      <3> QED
        BY <2>0, <3>1, <3>3
    <2>2. ASSUME NEW p \in Orders, Lapse(p) PROVE status'[o] = "done" /\ DealsOf(o)' = DealsOf(o)
      BY <2>0, <2>2 DEF Lapse, Ended, Working, DealsOf
    <2>3. CASE NextDay \/ CancelAll
      <3>1. /\ deals' = deals
            /\ \E gone \in SUBSET Orders :
                  status' = [p \in Orders |-> IF p \in gone THEN "done" ELSE status[p]]
        BY <2>3 DEF NextDay, CancelAll, Working
      <3> QED
        BY <3>1 DEF DealsOf
    <2>4. ASSUME \/ \E n \in 1..4 : Poll(n)
                 \/ Recover \/ Account \/ RecordFills \/ RecordPerf
                 \/ Gather \/ Post \/ Raise \/ Crash \/ UNCHANGED vars
          PROVE  status'[o] = "done" /\ DealsOf(o)' = DealsOf(o)
      <3>1. UNCHANGED broker
        BY <2>4 DEF Poll, Recover, Account, RecordFills, RecordPerf, Gather, Post, Raise, Crash, vars
      <3> QED
        BY <3>1 DEF broker, DealsOf
    <2> QED
      BY <2>1, <2>2, <2>3, <2>4 DEF Next, Broker, Step
  <1>5. Dealt(o) \in Nat /\ Dealt(o)' \in Nat /\ Dealt(o) <= Dealt(o)'
    <2>1. BrokerInv'
      BY BrokerInvNext
    <2>2. DealsOf(o)' \in SUBSET (DOMAIN deals')
      BY DEF DealsOf
    <2>3. IsFiniteSet(DealsOf(o)')
      BY <2>1, <2>2, PlacesAreFinite DEF BrokerInv
    <2> QED
      BY <1>2, <2>3, FS_Subset, FS_CardinalityType DEF Dealt
  <1>6. CASE world.paper
    <2>1. /\ f.id = <<o, 0>> /\ f.qty \in 1..Dealt(o)
          /\ o \in early \/ (f.qty = Dealt(o) /\ status[o] = "done")
      BY <1>6 DEF PaperRow
    <2>2. f.qty \in 1..Dealt(o)'
      BY <1>5, <2>1
    <2>3. status[o] = "done" => Dealt(o)' = Dealt(o)
      BY <1>4 DEF Dealt
    <2> QED
      BY <1>1, <1>3, <1>4, <1>6, <2>1, <2>2, <2>3 DEF PaperRow
  <1>7. CASE ~world.paper
    BY <1>1, <1>2, <1>7 DEF LiveRow
  <1> QED
    BY <1>6, <1>7

(* A row that a sync adds is of an order it did not know.                  *)
LEMMA NewRows ==
    ASSUME BrokerInv, RecordFills, fills' = fills \cup Unknown(ReconcileFills),
           NEW f \in Unknown(ReconcileFills)
    PROVE  /\ f.id[1] \in Orders' /\ IF world'.paper THEN PaperRow(f)' ELSE LiveRow(f)'
           /\ \A g \in fills : g.id # f.id
           /\ \A g \in Unknown(ReconcileFills) : g.id = f.id => g = f
  <1>1. /\ world' = world /\ deals' = deals /\ status' = status
        /\ early' = early \cup {o \in Working : \E g \in Unknown(ReconcileFills) : g.id[1] = o}
    <2>1. CASE fills' = fills \cup Inserted(ReconcileFills) /\ early' = early \cup {o \in Working : \E g \in Unknown(ReconcileFills) : g.id[1] = o}
      BY <2>1 DEF RecordFills, broker
    <2>2. CASE UNCHANGED fills
      <3>1. f \in fills
        BY <2>2
      <3> QED
        BY <3>1 DEF Unknown
    <2> QED
      BY <2>1, <2>2 DEF RecordFills
  <1>2. f \in ReconcileFills /\ \A g \in fills : g.id # f.id
    BY DEF Unknown
  <1>3. Orders' = Orders /\ \A o : DealsOf(o)' = DealsOf(o) /\ Dealt(o)' = Dealt(o)
    BY <1>1 DEF Orders, DealsOf, Dealt
  <1>4. CASE world.paper
    <2>1. PICK o \in Executed : f = OrderFill(o)
      BY <1>2, <1>4 DEF ReconcileFills
    <2>2. f.id = <<o, 0>> /\ f.qty = Dealt(o) /\ f.id[1] = o /\ o \in Orders
      BY <2>1 DEF OrderFill, FillId, Executed
    <2>3. DealsOf(o) # {} /\ status[o] # "new" /\ status[o] \in {"new", "working", "done"}
      <3>1. PICK n \in DealsOf(o) : TRUE
        BY <2>1 DEF Executed
      <3>2. n \in DOMAIN deals /\ deals[n].order = o
        BY DEF DealsOf
      <3> QED
        BY <2>2, <3>1, <3>2 DEF BrokerInv
    <2>4. Dealt(o) \in 1..Dealt(o)
      BY <2>3, DealsAreFinite
    <2>5. o \in early' \/ status[o] = "done"
      BY <1>1, <2>2, <2>3 DEF Working
    <2>6. PaperRow(f)'
      BY <1>1, <1>3, <2>2, <2>4, <2>5 DEF PaperRow
    <2>7. ASSUME NEW g \in Unknown(ReconcileFills), g.id = f.id PROVE g = f
      <3>1. PICK p \in Executed : g = OrderFill(p)
        BY <1>4 DEF ReconcileFills, Unknown
      <3>2. g.id = <<p, 0>>
        BY <3>1 DEF OrderFill, FillId
      <3>3. p = o
        BY <2>2, <2>7, <3>2
      <3> QED
        BY <2>1, <3>1, <3>3
    <2> QED
      BY <1>1, <1>2, <1>3, <1>4, <2>2, <2>6, <2>7
  <1>5. CASE ~world.paper
    <2>1. PICK n \in DOMAIN deals : deals[n].day = day /\ f = DealFill(n)
      BY <1>2, <1>5 DEF ReconcileFills
    <2>2. /\ f.id = <<deals[n].order, n>> /\ f.qty = 1 /\ f.id[1] = deals[n].order /\ f.id[2] = n
          /\ deals[n].order \in Orders
      BY <2>1, DealsAreTyped DEF DealFill
    <2>3. LiveRow(f)'
      BY <1>3, <2>2 DEF LiveRow, DealsOf
    <2>4. ASSUME NEW g \in Unknown(ReconcileFills), g.id = f.id PROVE g = f
      <3>1. PICK m \in DOMAIN deals : g = DealFill(m)
        BY <1>5 DEF ReconcileFills, Unknown
      <3>2. g.id[2] = m
        BY <3>1 DEF DealFill
      <3>3. m = n
        BY <2>2, <2>4, <3>2
      <3> QED
        BY <2>1, <3>1, <3>3
    <2> QED
      BY <1>1, <1>2, <1>3, <1>5, <2>2, <2>3, <2>4
  <1> QED
    BY <1>4, <1>5

LEMMA RowsInvariant == Spec => []RowsInv
  <1>1. Init => RowsInv
    BY DEF Init, RowsInv
  <1>2. BrokerInv /\ RowsInv /\ [Next]_vars => RowsInv'
    <2> SUFFICES ASSUME BrokerInv, RowsInv, [Next]_vars PROVE RowsInv'
      OBVIOUS
    <2>1. \A f \in fills : f.id[1] \in Orders' /\ IF world'.paper THEN PaperRow(f)' ELSE LiveRow(f)'
      <3> SUFFICES ASSUME NEW f \in fills
                   PROVE  f.id[1] \in Orders' /\ IF world'.paper THEN PaperRow(f)' ELSE LiveRow(f)'
        OBVIOUS
      <3>1. f.id[1] \in Orders /\ IF world.paper THEN PaperRow(f) ELSE LiveRow(f)
        BY DEF RowsInv
      <3> QED
        BY <3>1, RowsStay
    <2>2. CASE fills' = fills
      BY <2>1, <2>2 DEF RowsInv
    <2>3. CASE RecordFills /\ fills' = fills \cup Unknown(ReconcileFills)
      <3>1. ASSUME NEW f \in Unknown(ReconcileFills)
            PROVE  /\ f.id[1] \in Orders' /\ IF world'.paper THEN PaperRow(f)' ELSE LiveRow(f)'
                   /\ \A g \in fills : g.id # f.id
                   /\ \A g \in Unknown(ReconcileFills) : g.id = f.id => g = f
        BY <2>3, NewRows
      <3>2. \A f, g \in fills' : f.id = g.id => f = g
        BY <2>3, <3>1 DEF RowsInv
      <3>3. \A f \in fills' : f.id[1] \in Orders' /\ IF world'.paper THEN PaperRow(f)' ELSE LiveRow(f)'
        BY <2>1, <2>3, <3>1
      <3> QED
        BY <3>2, <3>3 DEF RowsInv
    <2>4. fills' = fills \/ (RecordFills /\ fills' = fills \cup Unknown(ReconcileFills))
      <3>1. ASSUME NEW o \in Orders, Deal(o) \/ Lapse(o) PROVE fills' = fills
        BY <3>1 DEF Deal, Lapse, tables
      <3>2. ASSUME \/ NextDay \/ \E n \in 1..4 : Poll(n)
                   \/ Recover \/ Account \/ RecordPerf \/ CancelAll
                   \/ Gather \/ Post \/ Raise \/ Crash \/ UNCHANGED vars
            PROVE  fills' = fills
        BY <3>2 DEF NextDay, Poll, Recover, Account, RecordPerf, CancelAll, Gather, Post, Raise,
                    Crash, vars, tables
      <3>3. RecordFills => fills' = fills \/ fills' = fills \cup Unknown(ReconcileFills)
        BY DEF RecordFills, Inserted
      <3> QED
        BY <3>1, <3>2, <3>3 DEF Next, Broker, Step
    <2> QED
      BY <2>2, <2>3, <2>4
  <1> QED
    BY <1>1, <1>2, BrokerInvariant, PTL DEF Spec

LEMMA RowsAddUp ==
    ASSUME BrokerInv, RowsInv, NEW o \in Orders
    PROVE  /\ FilledIn(o) <= Dealt(o)
           /\ world.paper /\ FilledIn(o) > 0 /\ o \notin early => FilledIn(o) = Dealt(o)
  <1> DEFINE rows == {f \in fills : f.id[1] = o}
  <1>1. DealsOf(o) \in SUBSET (DOMAIN deals) /\ IsFiniteSet(DealsOf(o)) /\ Dealt(o) \in Nat
    BY DealsAreFinite
  <1>2. CASE rows = {}
    <2> DEFINE g == [T \in SUBSET rows |-> 0]
    <2>1. IsFiniteSet(rows)
      BY <1>2, FS_EmptySet
    <2>2. SumsTo(rows, g) /\ g[rows] = 0
      BY <1>2 DEF SumsTo
    <2> HIDE DEF g
    <2>3. FilledIn(o) = 0
      BY <2>1, <2>2, FilledInIs
    <2> QED
      BY <1>1, <2>3
  <1>3. CASE rows # {} /\ world.paper
    <2>1. PICK f \in rows : TRUE
      BY <1>3
    <2>2. PaperRow(f) /\ \A h \in rows : PaperRow(h)
      BY <1>3, <2>1 DEF RowsInv
    <2>3. \A h \in rows : h = f
      BY <2>1, <2>2 DEF RowsInv, PaperRow
    <2>4. rows = {f}
      BY <2>1, <2>3
    <2> DEFINE g == [T \in SUBSET rows |-> IF T = {} THEN 0 ELSE f.qty]
    <2>5. f.qty \in 1..Dealt(o) /\ (o \in early \/ f.qty = Dealt(o))
      BY <2>1, <2>2 DEF PaperRow
    <2> HIDE DEF rows
    <2>6. IsFiniteSet(rows)
      BY <2>4, FS_Singleton
    <2>7. g[rows] = f.qty
      BY <2>4
    <2>8. SumsTo(rows, g)
      <3> SUFFICES ASSUME NEW T \in SUBSET rows
                   PROVE  g[T] = IF T = {} THEN 0 ELSE One(T).qty + g[T \ {One(T)}]
        BY DEF SumsTo
      <3>1. CASE T = {}
        BY <3>1
      <3>2. CASE T # {}
        <4>1. T = {f}
          BY <2>4, <3>2
        <4>2. One(T) = f
          BY <4>1 DEF One
        <4>3. T \ {One(T)} = {}
          BY <4>1, <4>2
        <4>4. g[{}] = 0 /\ g[T] = f.qty
          BY <3>2
        <4>5. f.qty \in Nat
          BY <1>1, <2>5
        <4> QED
          BY <3>2, <4>2, <4>3, <4>4, <4>5
      <3> QED
        BY <3>1, <3>2
    <2> HIDE DEF g
    <2>9. FilledIn(o) = f.qty
      BY <2>6, <2>7, <2>8, FilledInIs DEF rows
    <2> QED
      BY <1>1, <2>5, <2>9
  <1>4. CASE ~world.paper
    <2> DEFINE place == [f \in rows |-> f.id[2]]
               g     == [T \in SUBSET rows |-> Cardinality(T)]
    <2>1. \A f \in rows : f.qty = 1 /\ f.id[2] \in DealsOf(o) /\ f.id = <<o, f.id[2]>>
      BY <1>4 DEF RowsInv, LiveRow
    <2>2. \A f, h \in rows : f.id[2] = h.id[2] => f = h
      BY <2>1 DEF RowsInv
    <2> HIDE DEF rows
    <2>3. place \in Injection(rows, DealsOf(o))
      <3>1. place \in [rows -> DealsOf(o)]
        BY <2>1
      <3>2. \A f, h \in rows : place[f] = place[h] => f = h
        BY <2>2
      <3> HIDE DEF place
      <3> QED
        BY <3>1, <3>2 DEF Injection, IsInjective
    <2>4. IsFiniteSet(rows) /\ Cardinality(rows) <= Dealt(o)
      BY <1>1, <2>3, FS_Injection DEF Dealt
    <2>5. SumsTo(rows, g)
      <3> SUFFICES ASSUME NEW T \in SUBSET rows
                   PROVE  g[T] = IF T = {} THEN 0 ELSE One(T).qty + g[T \ {One(T)}]
        BY DEF SumsTo
      <3>1. CASE T = {}
        BY <3>1, FS_EmptySet
      <3>2. CASE T # {}
        <4>1. One(T) \in T /\ One(T).qty = 1
          BY <2>1, <3>2 DEF One
        <4>2. IsFiniteSet(T) /\ Cardinality(T) \in Nat
          BY <2>4, FS_Subset, FS_CardinalityType
        <4>3. Cardinality(T \ {One(T)}) = Cardinality(T) - 1
          BY <4>1, <4>2, FS_RemoveElement
        <4> QED
          BY <3>2, <4>1, <4>2, <4>3
      <3> QED
        BY <3>1, <3>2
    <2>6. g[rows] = Cardinality(rows)
      OBVIOUS
    <2> HIDE DEF g
    <2>7. FilledIn(o) = Cardinality(rows)
      BY <2>4, <2>5, <2>6, FilledInIs DEF rows
    <2> QED
      BY <1>4, <2>4, <2>7
  <1> QED
    BY <1>2, <1>3, <1>4

(* The fills of an order never add up to more than it dealt, and on paper  *)
(* to all of it unless it was projected while it worked, for any accounts, *)
(* days and faults: a row is of one deal, or of an order that deals no     *)
(* more (ReconcileFills and the insert that ignores known ids).            *)
THEOREM FillsAddUp == Spec => []FillsAreTrue
  <1>1. BrokerInv /\ RowsInv => FillsAreTrue
    BY RowsAddUp DEF FillsAreTrue
  <1> QED
    BY <1>1, BrokerInvariant, RowsInvariant, PTL

(* A row of an order covers its deals: on paper it has the quantity of all *)
(* of them, unless it was projected early.                                 *)
LEMMA RecordedIsProjected ==
    ASSUME BrokerInv, RowsInv, NEW n \in DOMAIN deals, Recorded(n)
    PROVE  Projected(n) \/ Frozen(n)
  <1> DEFINE o == deals[n].order
  <1>1. PICK f \in fills : /\ f.id[1] = o /\ f.day = deals[n].day
                           /\ world.paper \/ f.id[2] = n
    BY DEF Recorded
  <1>2. CASE ~world.paper
    BY <1>1, <1>2 DEF Projected
  <1>3. CASE world.paper /\ o \notin early
    <2>1. f.qty = Dealt(o)
      BY <1>1, <1>3 DEF RowsInv, PaperRow
    <2>2. IsFiniteSet(DealsOf(o)) /\ Upto(n) \subseteq DealsOf(o)
      BY DealsAreFinite DEF Upto
    <2>3. Cardinality(Upto(n)) <= Dealt(o)
      BY <2>2, FS_Subset DEF Dealt
    <2> QED
      BY <1>1, <1>3, <2>1, <2>3 DEF Projected
  <1>4. CASE world.paper /\ o \in early
    BY <1>4 DEF Frozen
  <1> QED
    BY <1>2, <1>3, <1>4

(* The fills that a sync recorded survive every crash, exception and later *)
(* sync, each with the quantity of its deals, but for paper orders that    *)
(* were projected before they were done.                                   *)
THEOREM SyncedDealsAreKept == Spec => []SyncedIsKept
  <1>1. BrokerInv /\ RowsInv /\ SyncInv => SyncedIsKept
    <2> SUFFICES ASSUME BrokerInv, RowsInv, SyncInv, NEW n \in (1..synced) \ missed
                 PROVE  Projected(n) \/ Frozen(n)
      BY DEF SyncedIsKept
    <2>1. n \in DOMAIN deals
      BY DEF SyncInv, BrokerInv
    <2>2. Recorded(n)
      BY DEF SyncInv, SyncedAreRecorded
    <2> QED
      BY <2>1, <2>2, RecordedIsProjected
  <1> QED
    BY <1>1, BrokerInvariant, RowsInvariant, SyncInvariant, PTL

(* Reading the positions before the fills leaves no position without the   *)
(* deals that explain it, once a sync was complete, but for paper orders   *)
(* that were projected before they were done.                              *)
THEOREM PositionsHaveTheirFills == Spec => []PositionsAreExplained
  <1>1. ExplainedInv /\ SyncInv /\ ShownInv /\ SyncedIsKept => PositionsAreExplained
    <2> SUFFICES ASSUME ExplainedInv, SyncInv, ShownInv, SyncedIsKept, complete, todo = <<>>,
                        NEW n \in (1..shown) \ missed
                 PROVE  Projected(n) \/ Frozen(n)
      BY DEF PositionsAreExplained
    <2>1. shown <= synced
      BY DEF ExplainedInv, At
    <2>2. n \in (1..synced) \ missed
      BY <2>1 DEF ShownInv, SyncInv
    <2> QED
      BY <2>2 DEF SyncedIsKept
  <1> QED
    BY <1>1, ExplainedInvariant, ShownInvariant, SyncInvariant, SyncedDealsAreKept, PTL

-----------------------------------------------------------------------------
(* Quantities.  An order that works has dealt less than its quantity.      *)

QtyInv ==
    \A o \in Orders : /\ Dealt(o) <= Data(o).qty
                      /\ status[o] = "new" => Dealt(o) = 0
                      /\ status[o] = "working" => Dealt(o) < Data(o).qty

LEMMA QuantitiesAre ==
    ASSUME BrokerInv, NEW o \in Orders
    PROVE  Data(o).qty \in Nat \ {0}
  <1>1. world.order[o] \in OrderData
    BY DEF BrokerInv, Orders
  <1> QED
    BY <1>1 DEF OrderData, Data

LEMMA DealAdds ==
    ASSUME BrokerInv, NEW o \in Orders, Deal(o), NEW p \in Orders
    PROVE  Dealt(p)' = IF p = o THEN Dealt(p) + 1 ELSE Dealt(p)
  <1>1. deals' = Append(deals, [order |-> o, day |-> day]) /\ deals \in Seq(DealRecords)
    BY DEF Deal, BrokerInv
  <1>2. /\ DOMAIN deals' = DOMAIN deals \cup {Len(deals) + 1} /\ Len(deals) + 1 \notin DOMAIN deals
        /\ deals'[Len(deals) + 1].order = o
        /\ \A n \in DOMAIN deals : deals'[n] = deals[n]
    BY <1>1
  <1>3. CASE p = o
    <2>1. DealsOf(p)' = DealsOf(p) \cup {Len(deals) + 1} /\ Len(deals) + 1 \notin DealsOf(p)
      BY <1>2, <1>3 DEF DealsOf
    <2>2. IsFiniteSet(DealsOf(p))
      BY DealsAreFinite
    <2> QED
      BY <1>3, <2>1, <2>2, FS_AddElement DEF Dealt
  <1>4. CASE p # o
    <2>1. DealsOf(p)' = DealsOf(p)
      BY <1>2, <1>4 DEF DealsOf
    <2> QED
      BY <1>4, <2>1 DEF Dealt
  <1> QED
    BY <1>3, <1>4

LEMMA QtyInvariant == Spec => []QtyInv
  <1>1. Init => QtyInv
    <2> SUFFICES ASSUME Init, NEW o \in Orders
                 PROVE  /\ Dealt(o) = 0 /\ status[o] = "new" /\ Data(o).qty \in Nat \ {0}
      BY DEF QtyInv
    <2>1. DealsOf(o) = {}
      BY DEF Init, DealsOf
    <2>2. Dealt(o) = 0
      BY <2>1, FS_EmptySet DEF Dealt
    <2>3. world.order[o] \in OrderData
      BY DEF Init, Orders
    <2> QED
      BY <2>2, <2>3 DEF Init, OrderData, Data
  <1>2. BrokerInv /\ QtyInv /\ [Next]_vars => QtyInv'
    <2> SUFFICES ASSUME BrokerInv, QtyInv, [Next]_vars, NEW p \in Orders
                 PROVE  /\ Dealt(p)' <= Data(p).qty
                        /\ status'[p] = "new" => Dealt(p)' = 0
                        /\ status'[p] = "working" => Dealt(p)' < Data(p).qty
      BY DealsGrow DEF QtyInv, Orders, Data
    <2>1. /\ Dealt(p) \in Nat /\ Data(p).qty \in Nat \ {0}
          /\ status \in [Orders -> {"new", "working", "done"}]
          /\ Dealt(p) <= Data(p).qty /\ (status[p] = "new" => Dealt(p) = 0)
          /\ status[p] = "working" => Dealt(p) < Data(p).qty
      BY DealsAreFinite, QuantitiesAre DEF QtyInv, BrokerInv
    <2>2. ASSUME NEW o \in Orders, Deal(o)
          PROVE  /\ Dealt(p)' <= Data(p).qty
                 /\ status'[p] = "new" => Dealt(p)' = 0
                 /\ status'[p] = "working" => Dealt(p)' < Data(p).qty
      <3>1. /\ status[o] # "done"
            /\ status' = [status EXCEPT ![o] = IF Dealt(o) + 1 = Data(o).qty THEN "done" ELSE "working"]
        BY <2>2 DEF Deal
      <3>2. Dealt(p)' = IF p = o THEN Dealt(p) + 1 ELSE Dealt(p)
        BY <2>2, DealAdds
      <3>3. CASE p = o
        <4>1. /\ status[p] # "done" /\ Dealt(p)' = Dealt(p) + 1
              /\ status'[p] = IF Dealt(p) + 1 = Data(p).qty THEN "done" ELSE "working"
          BY <2>1, <3>1, <3>2, <3>3
        <4>2. status[p] = "new" \/ status[p] = "working"
          BY <2>1, <4>1
        <4>3. Dealt(p) < Data(p).qty
          BY <2>1, <4>2
        <4> QED
          BY <2>1, <4>1, <4>3
      <3>4. CASE p # o
        BY <2>1, <3>1, <3>2, <3>4
      <3> QED
        BY <3>3, <3>4
    <2>3. ASSUME deals' = deals, status'[p] \in {status[p], "done"}
          PROVE  /\ Dealt(p)' <= Data(p).qty
                 /\ status'[p] = "new" => Dealt(p)' = 0
                 /\ status'[p] = "working" => Dealt(p)' < Data(p).qty
      <3>1. Dealt(p)' = Dealt(p)
        BY <2>3 DEF Dealt, DealsOf
      <3> QED
        BY <2>1, <2>3, <3>1
    <2>4. ASSUME NEW o \in Orders, Lapse(o) PROVE deals' = deals /\ status'[p] \in {status[p], "done"}
      BY <2>1, <2>4 DEF Lapse, Ended
    <2>5. CASE NextDay \/ CancelAll
      <3>1. deals' = deals /\ status'[p] \in {status[p], "done"}
        BY <2>5 DEF NextDay, CancelAll
      <3> QED
        BY <2>3, <3>1
    <2>6. ASSUME \/ \E n \in 1..4 : Poll(n)
                 \/ Recover \/ Account \/ RecordFills \/ RecordPerf
                 \/ Gather \/ Post \/ Raise \/ Crash \/ UNCHANGED vars
          PROVE  UNCHANGED broker
      BY <2>6 DEF Poll, Recover, Account, RecordFills, RecordPerf, Gather, Post, Raise, Crash, vars
    <2>7. CASE UNCHANGED broker
      <3>1. deals' = deals /\ status'[p] \in {status[p], "done"}
        BY <2>7 DEF broker
      <3> QED
        BY <2>3, <3>1
    <2> QED
      BY <2>2, <2>3, <2>4, <2>5, <2>6, <2>7 DEF Next, Broker, Step
  <1> QED
    BY <1>1, <1>2, BrokerInvariant, PTL DEF Spec

-----------------------------------------------------------------------------
(* Attempts.  Only a snapshot and a post are tried again; and the posts of *)
(* a day are no more than the attempts, for its report is gathered once.   *)

TriesInv ==
    /\ slot \in 0..4 /\ faults \in 0..MaxFaults /\ tries \in Nat
    /\ tries > 0 => \/ At("perf") /\ tries < MaxTries
                    \/ At("post") /\ tries < Retries

PostsInv ==
    /\ delivered \in [Days -> 0..Retries]
    /\ \A d \in Days : d > day => delivered[d] = 0
    /\ 4 \notin marked => delivered[day] = 0
    /\ Reporting(todo) => /\ 4 \in marked
                          /\ delivered[day] <= (IF At("post") THEN tries ELSE 0)

LEMMA TriesInvariant == Spec => []TriesInv
  <1>1. Init => TriesInv
    BY DEF Init, TriesInv
  <1>2. TriesInv /\ [Next]_vars => TriesInv'
    <2> SUFFICES ASSUME TriesInv, [Next]_vars PROVE TriesInv'
      OBVIOUS
    <2> USE DEF TriesInv, At
    <2>1. ASSUME NEW o \in Orders, Deal(o) \/ Lapse(o) PROVE TriesInv'
      BY <2>1 DEF Deal, Lapse, process
    <2>2. CASE NextDay
      BY <2>2 DEF NextDay
    <2>3. ASSUME NEW n \in 1..4, Poll(n) PROVE TriesInv'
      BY <2>3 DEF Poll
    <2>4. CASE Recover
      BY <2>4 DEF Recover
    <2>5. CASE Account
      BY <2>5 DEF Account, Fails
    <2>6. CASE RecordFills
      BY <2>6 DEF RecordFills, Fails
    <2>7. CASE RecordPerf
      BY <2>7 DEF RecordPerf
    <2>8. CASE CancelAll
      BY <2>8 DEF CancelAll, Fails
    <2>9. CASE Gather
      BY <2>9 DEF Gather, Fails
    <2>10. CASE Post
      BY <2>10 DEF Post, Posted, GivesUp, NextTry, TryAgain, Fails
    <2>11. CASE Raise \/ Crash
      BY <2>11 DEF Raise, Crash, Fails
    <2>12. CASE UNCHANGED vars
      BY <2>12 DEF vars, process
    <2> QED
      BY <2>1, <2>2, <2>3, <2>4, <2>5, <2>6, <2>7, <2>8, <2>9, <2>10, <2>11, <2>12
         DEF Next, Broker, Step
  <1> QED
    BY <1>1, <1>2, PTL DEF Spec

(* A post leaves one attempt less, or was the last one.                    *)
LEMMA PostsAreTried ==
    ASSUME WellFormed(todo), BrokerInv, TriesInv, PostsInv, Post
    PROVE  PostsInv'
  <1>1. At("post") /\ Reporting(todo) /\ Tail(todo) = <<>> /\ ~Reporting(<<>>)
    BY RestIsWellFormed, JobsAreWellFormed DEF Post, At
  <1>2. UNCHANGED <<day, marked>> /\ day \in Days /\ Days \subseteq Int
    BY DEF Post, broker, BrokerInv, Days
  <1>3. 4 \in marked /\ delivered[day] <= tries /\ tries \in Nat /\ tries < Retries
    <2>1. 4 \in marked /\ delivered[day] <= tries
      BY <1>1 DEF PostsInv
    <2>2. ~At("perf")
      BY <1>1 DEF At
    <2> QED
      BY <2>1, <2>2 DEF TriesInv
  <1>4. /\ delivered' \in [Days -> 0..Retries]
        /\ delivered'[day] <= tries + 1
        /\ \A d \in Days : d > day => delivered'[d] = 0
    <2>1. delivered' = delivered \/ delivered' = [delivered EXCEPT ![day] = @ + 1]
      BY DEF Post
    <2>2. delivered[day] + 1 \in 0..Retries
      BY <1>2, <1>3 DEF PostsInv
    <2> QED
      BY <1>2, <1>3, <2>1, <2>2 DEF PostsInv
  <1>5. \/ todo' = todo /\ tries' = tries + 1
        \/ todo' = <<>>
    BY <1>1 DEF Post, Posted, GivesUp, NextTry, Done
  <1>6. CASE todo' = todo /\ tries' = tries + 1
    <2>1. At("post")'
      BY <1>1, <1>6 DEF At
    <2> QED
      BY <1>2, <1>3, <1>4, <1>6, <2>1 DEF PostsInv
  <1>7. CASE todo' = <<>>
    BY <1>1, <1>2, <1>3, <1>4, <1>7 DEF PostsInv
  <1> QED
    BY <1>5, <1>6, <1>7

LEMMA PostsInvNext ==
    ASSUME WellFormed(todo), BrokerInv, TriesInv, PostsInv, [Next]_vars
    PROVE  PostsInv'
  <1>1. day \in Days /\ Days \subseteq Int
    BY DEF BrokerInv, Days
  <1>2. ASSUME UNCHANGED <<day, marked, delivered, todo, tries>> PROVE PostsInv'
    BY <1>2 DEF PostsInv, At, Reporting
  <1>3. ASSUME UNCHANGED <<day, marked, delivered>>, ~At("post"), Reporting(todo') => Reporting(todo),
               tries' \in Nat
        PROVE  PostsInv'
    <2>1. Reporting(todo') => 4 \in marked /\ delivered[day] <= 0
      BY <1>3 DEF PostsInv
    <2>2. delivered[day] \in Nat
      BY <1>1 DEF PostsInv
    <2> QED
      BY <1>3, <2>1, <2>2 DEF PostsInv, Reporting
  <1>4. ASSUME NEW n \in 1..4, Poll(n) PROVE PostsInv'
    <2>1. UNCHANGED <<day, delivered, tries>> /\ marked \subseteq marked' /\ tries \in Nat
      BY <1>4 DEF Poll, broker, TriesInv
    <2>2. Reporting(todo') => 4 \notin marked /\ 4 \in marked'
      BY <1>4, PolledIsWellFormed
    <2>3. Reporting(todo') => 4 \in marked' /\ delivered[day] = 0
      BY <2>2 DEF PostsInv
    <2> QED
      BY <2>1, <2>3 DEF PostsInv, Reporting
  <1>5. CASE NextDay
    <2>1. todo' = <<>> /\ ~Reporting(<<>>)
      BY <1>5, JobsAreWellFormed DEF NextDay
    <2>2. day' = day + 1 /\ day' \in Days /\ UNCHANGED delivered
      BY <1>1, <1>5 DEF NextDay, Days
    <2> QED
      BY <1>1, <2>1, <2>2 DEF PostsInv
  <1>6. ASSUME NEW o \in Orders, Deal(o) \/ Lapse(o)
        PROVE  UNCHANGED <<day, marked, delivered, todo, tries>>
    BY <1>6 DEF Deal, Lapse, process, tables
  <1>7. ASSUME UNCHANGED vars PROVE UNCHANGED <<day, marked, delivered, todo, tries>>
    BY <1>7 DEF vars, broker, process, tables
  <1>8. ASSUME Recover \/ Account \/ RecordFills \/ RecordPerf \/ CancelAll \/ Gather
        PROVE  UNCHANGED <<day, marked, delivered>> /\ ~At("post") /\ tries' \in Nat
    BY <1>8 DEF Recover, Account, RecordFills, RecordPerf, CancelAll, Gather, At, TriesInv, broker, tables
  <1>9. ASSUME Recover \/ Account \/ RecordFills \/ RecordPerf \/ CancelAll \/ Gather
        PROVE  Reporting(todo') => Reporting(todo)
    <2>1. ASSUME NEW n \in 1..4, Poll(n) PROVE Reporting(todo') => 4 \notin marked /\ 4 \in marked'
      BY <2>1, PolledIsWellFormed
    <2>2. marked' = marked
      BY <1>8, <1>9
    <2> QED
      BY <2>2, JobsAreDone
  <1>10. CASE Raise \/ Crash
    <2>1. UNCHANGED <<day, marked, delivered>> /\ todo' = <<>> /\ ~Reporting(<<>>)
      BY <1>10, JobsAreWellFormed DEF Raise, Crash, broker, tables
    <2> QED
      BY <1>1, <2>1 DEF PostsInv
  <1>11. CASE Post
    BY <1>11, PostsAreTried
  <1> QED
    BY <1>2, <1>3, <1>4, <1>5, <1>6, <1>7, <1>8, <1>9, <1>10, <1>11 DEF Next, Broker, Step

LEMMA PostsInvariant == Spec => []PostsInv
  <1>1. Init => PostsInv
    <2>1. 1 \in Days /\ ~Reporting(<<>>)
      BY JobsAreWellFormed DEF Days
    <2> QED
      BY <2>1 DEF Init, PostsInv
  <1>2. WellFormed(todo) /\ BrokerInv /\ TriesInv /\ PostsInv /\ [Next]_vars => PostsInv'
    BY PostsInvNext
  <1> QED
    BY <1>1, <1>2, JobsInvariant, BrokerInvariant, TriesInvariant, PTL DEF Spec

(* A day has one performance row at most.                                  *)
OneRowInv == DOMAIN perf = Days /\ \A d \in Days : perf[d] = {} \/ \E row : perf[d] = {row}

LEMMA OneRowInvariant == Spec => []OneRowInv
  <1>1. Init => OneRowInv
    BY DEF Init, OneRowInv
  <1>2. OneRowInv /\ [Next]_vars => OneRowInv'
    <2> SUFFICES ASSUME OneRowInv, RecordPerf PROVE OneRowInv'
      BY RowsAreRecorded DEF OneRowInv
    <2>1. perf' = perf \/ \E row : perf' = [perf EXCEPT ![day] = {row}]
      BY DEF RecordPerf
    <2> QED
      BY <2>1 DEF OneRowInv
  <1> QED
    BY <1>1, <1>2, PTL DEF Spec

(* The variables keep their types: no order deals more than its quantity,  *)
(* a day has one performance row, and its report is posted no more often   *)
(* than there are attempts (_post_with_retry), whatever fails.             *)
THEOREM ProjectionTypes == Spec => []TypeOK
  <1>1. BrokerInv /\ QtyInv /\ FillInv /\ RowsInv /\ ShownInv /\ SyncInv /\ TriesInv /\ PostsInv
            /\ OnceInv /\ OneRowInv => TypeOK
    <2> SUFFICES ASSUME BrokerInv, QtyInv, FillInv, RowsInv, ShownInv, SyncInv, TriesInv,
                        PostsInv, OnceInv, OneRowInv
                 PROVE  TypeOK
      OBVIOUS
    <2>1. world \in Worlds /\ day \in Days /\ status \in [Orders -> {"new", "working", "done"}]
      BY DEF BrokerInv
    <2>2. \A o \in Orders : Dealt(o) <= Data(o).qty /\ (status[o] = "new" => Dealt(o) = 0)
      BY DEF QtyInv
    <2>3. slot \in 0..4 /\ faults \in 0..MaxFaults /\ tries \in Nat /\ (tries < MaxTries \/ tries < Retries)
      BY DEF TriesInv
    <2>4. ASSUME NEW f \in fills PROVE f.day \in Days /\ f.qty \in 1..Data(f.id[1]).qty
      <3>1. PICK n \in DOMAIN deals : f.day = deals[n].day
        BY DEF FillInv, FillOf
      <3>2. f.day \in Days
        BY <3>1, DealsAreTyped
      <3> DEFINE o == f.id[1]
      <3>3. o \in Orders /\ Dealt(o) \in Nat /\ Data(o).qty \in Nat \ {0} /\ Dealt(o) <= Data(o).qty
        BY <2>2, DealsAreFinite, QuantitiesAre DEF RowsInv
      <3>4. f.qty \in 1..Data(o).qty
        <4>1. CASE world.paper
          <5>1. f.qty \in 1..Dealt(o)
            BY <4>1 DEF RowsInv, PaperRow
          <5> QED
            BY <3>3, <5>1
        <4>2. CASE ~world.paper
          <5>1. f.qty = 1
            BY <4>2 DEF RowsInv, LiveRow
          <5> QED
            BY <3>3, <5>1
        <4> QED
          BY <4>1, <4>2
      <3> QED
        BY <3>2, <3>4
    <2>5. ASSUME NEW d \in Days PROVE Cardinality(perf[d]) <= 1
      <3>1. CASE perf[d] = {}
        BY <3>1, FS_EmptySet
      <3>2. CASE \E row : perf[d] = {row}
        <4>1. PICK row : perf[d] = {row}
          BY <3>2
        <4>2. Cardinality({row}) = 1
          BY FS_Singleton
        <4> QED
          BY <4>1, <4>2
      <3> QED
        BY <3>1, <3>2 DEF OneRowInv
    <2>6. shown <= Now /\ synced <= Now
      BY DEF ShownInv, SyncInv, Now, BrokerInv
    <2> QED
      BY <2>1, <2>2, <2>3, <2>4, <2>5, <2>6 DEF TypeOK, PostsInv, OnceInv, OneRowInv
  <1> QED
    BY <1>1, BrokerInvariant, QtyInvariant, FillsInvariant, RowsInvariant, ShownInvariant,
       SyncInvariant, TriesInvariant, PostsInvariant, OnceInvariant, OneRowInvariant, PTL
=============================================================================
