----------------------------- MODULE Projection -----------------------------
(***************************************************************************)
(* The read-through projection of one underlying: what ground_truth_sync   *)
(* (lifecycle.py) and _record_perf (runner.py) write into SQLite (db.py)   *)
(* from the answers of the broker (moomoo_broker.py), in the order of the  *)
(* jobs of a day, and what the end-of-day report reads from it             *)
(* (eod_reporter.py).  Orders deal, lapse and end between any two calls.   *)
(*                                                                         *)
(* A live account has a feed of deals.  A paper account has none: its      *)
(* fills are made of its orders, as they are when the query is answered.   *)
(* Both queries know the current day only.  Orders deal unit by unit.      *)
(***************************************************************************)
EXTENDS Report

CONSTANTS
    Worlds,         \* accounts: paper or not, their orders, and the overlay
                    \* that the signal of the underlying means, if any
    MaxDay,         \* bound: trading days
    MaxTries,       \* attempts to read a snapshot with its positions
    Retries,        \* attempts to post the report
    MaxFaults       \* bound: failed syncs, exceptions, failed posts and crashes

OrderData == [item : Items, side : Sides, qty : Nat \ {0}, price : Nat]

ASSUME ProjectionAssumption ==
    /\ \A w \in Worlds : w.paper \in BOOLEAN /\ \A o \in DOMAIN w.order : w.order[o] \in OrderData
    /\ MaxDay \in Nat \ {0} /\ MaxTries \in Nat \ {0} /\ Retries \in Nat \ {0}
    /\ MaxFaults \in Nat

Days == 1..MaxDay

(* The broker, with its deals in the order of their times and the average  *)
(* cost of each position.                                                  *)
VARIABLES world, day, status, deals, updated, cost

(* The process: the last slot of the schedule it fired, the steps it still *)
(* has to take, the attempts of the current one, and the report it sends.  *)
VARIABLES slot, todo, tries, report

VARIABLES
    fills, positions, perf, \* the tables
    marked,                 \* the jobs of the day whose firing is durable
    delivered               \* the posts of each day that reached Slack

(* History: how many deals the positions show and the fills cover; those   *)
(* that no query will list any more; whether the last sync was complete;   *)
(* orders first projected while they worked; whether one order at a time   *)
(* was executed, and no item was sold short; what was earned on each day;  *)
(* the posts of each day that arrived and whose answer did not.            *)
VARIABLES shown, synced, missed, complete, early, orderly, earned, lost

VARIABLE faults

broker  == <<world, day, status, deals, updated, cost>>
process == <<slot, todo, tries, report>>
posts   == <<delivered, lost>>
tables  == <<fills, positions, perf, marked, posts>>
syncHistory   == <<shown, synced, complete, early>>
brokerHistory == <<missed, orderly, earned>>
vars == <<broker, process, tables, syncHistory, brokerHistory, faults>>

-----------------------------------------------------------------------------
Orders  == DOMAIN world.order
Data(o) == world.order[o]
Held(k) ==
    LET Of(i, side) == {n \in 1..k : Data(deals[n].order).item = i /\ Data(deals[n].order).side = side}
    IN  [i \in {Data(o).item : o \in Orders} |-> Cardinality(Of(i, "BUY")) - Cardinality(Of(i, "SELL"))]

DealsOf(o) == {n \in DOMAIN deals : deals[n].order = o}
Dealt(o)   == Cardinality(DealsOf(o))
Now        == Len(deals)     \* time is told by the deals
Working    == {o \in Orders : status[o] = "working"}
Flat       == [i \in {Data(o).item : o \in Orders} |-> 0]

TypeOK ==
    /\ world \in Worlds /\ day \in Days
    /\ status \in [Orders -> {"new", "working", "done"}]
    /\ \A o \in Orders : Dealt(o) <= Data(o).qty /\ (status[o] = "new" => Dealt(o) = 0)
    /\ slot \in 0..4 /\ tries \in Nat /\ (tries < MaxTries \/ tries < Retries)
    /\ \A f \in fills : f.day \in Days /\ f.qty \in 1..Data(f.id[1]).qty
    /\ DOMAIN perf = Days /\ \A d \in Days : Cardinality(perf[d]) <= 1
    /\ delivered \in [Days -> 0..Retries] /\ lost \in [Days -> Nat]
    /\ shown <= Now /\ synced <= Now
    /\ faults \in 0..MaxFaults

Init ==
    /\ world \in Worlds /\ day = 1
    /\ status = [o \in Orders |-> "new"] /\ deals = <<>>
    /\ updated = [o \in Orders |-> 0] /\ cost = Flat
    /\ slot = 0 /\ todo = <<>> /\ tries = 0 /\ report = {}
    /\ fills = {} /\ positions = Flat /\ perf = [d \in Days |-> {}]
    /\ marked = {} /\ delivered = [d \in Days |-> 0]
    /\ lost = [d \in Days |-> 0]
    /\ shown = 0 /\ synced = 0 /\ missed = {} /\ complete = FALSE /\ early = {}
    /\ orderly = TRUE /\ earned = [d \in Days |-> 0]
    /\ faults = 0

-----------------------------------------------------------------------------
(* The broker.  An order works from its first deal on: before, it leaves   *)
(* no trace in the projection.                                             *)

(* Another order is half executed, or the item is sold short.              *)
Disorderly(o) ==
    \/ Working \ {o} # {}
    \/ Data(o).side = "SELL" /\ Held(Now)[Data(o).item] <= 0

Deal(o) ==
    LET i == Data(o).item
        h == Held(Now)[i]
    IN  /\ status[o] # "done"
        /\ i.right = "" /\ Data(o).side = "SELL" => h > 0
        /\ deals' = Append(deals, [order |-> o, day |-> day])
        /\ status' = [status EXCEPT ![o] = IF Dealt(o) + 1 = Data(o).qty THEN "done" ELSE "working"]
        /\ updated' = [updated EXCEPT ![o] = 2 * Now + 2]
        /\ orderly' = (orderly /\ ~Disorderly(o))
        /\ IF Data(o).side = "BUY"
           THEN /\ cost' = [cost EXCEPT ![i] =
                       IF h + 1 = 0 THEN 0 ELSE (@ * h + Data(o).price) \div (h + 1)]
                /\ UNCHANGED earned
           ELSE /\ earned' = [earned EXCEPT ![day] = @ + Data(o).price - cost[i]]
                /\ UNCHANGED cost
        /\ UNCHANGED <<world, day, missed, process, tables, syncHistory, faults>>

(* The exchange, or a cancel, ends an order.                               *)
Ended(o) ==
    /\ status' = [status EXCEPT ![o] = "done"]
    /\ updated' = [updated EXCEPT ![o] = 2 * Now + 1]

Lapse(o) ==
    /\ o \in Working /\ Ended(o)
    /\ UNCHANGED <<world, day, deals, cost, process, tables, syncHistory,
                   brokerHistory, faults>>

(* DAY orders end with the day, and the next one begins without its deals. *)
NextDay ==
    /\ day < MaxDay /\ todo = <<>> /\ slot = 4
    /\ day' = day + 1 /\ slot' = 0 /\ marked' = {}
    /\ status' = [o \in Orders |-> IF o \in Working THEN "done" ELSE status[o]]
    /\ missed' = missed \cup {n \in DOMAIN deals : n > synced}
    /\ complete' = FALSE
    /\ UNCHANGED <<world, deals, updated, cost, todo, tries, report, fills, positions,
                   perf, posts, shown, synced, early, orderly, earned, faults>>

-----------------------------------------------------------------------------
(* The jobs of a day that touch the projection, in the order of _SCHEDULE, *)
(* and their steps.  The risk checks and the sweep do the same, and one    *)
(* stands for them.                                                        *)

SyncFillsFirst == <<"fills", "account">>
Sync           == <<"account", "fills">>

StepsOf(n) ==
    CASE n = 1 -> Sync              \* PRE_OPEN_SYNC
      [] n = 2 -> Append(Sync, "perf")      \* RISK_CHECK_MID, RISK_CHECK_LATE, RISK_SWEEP
      [] n = 3 -> <<"cancel", "perf">>   \* EOD_CANCEL_ORDERS
      [] n = 4 -> <<"gather">>      \* EOD_REPORT

CancelOnce == {3}
AtMostOnce == {3, 4}

(* A poll fires every job that became due; the durable ones once a day.    *)
Fired(k, n) == IF slot < k /\ k <= n /\ k \notin marked THEN StepsOf(k) ELSE <<>>

Poll(n) ==
    /\ todo = <<>> /\ slot < n
    /\ todo' = Fired(1, n) \o Fired(2, n) \o Fired(3, n) \o Fired(4, n)
    /\ slot' = n /\ marked' = marked \cup {k \in AtMostOnce : k <= n}
    /\ UNCHANGED <<broker, tries, report, fills, positions, perf, posts,
                   syncHistory, brokerHistory, faults>>

(* The watchdog reconciles after an outage.                                *)
Recover ==
    /\ todo = <<>> /\ todo' = Sync
    /\ UNCHANGED <<broker, slot, tries, report, tables, syncHistory, brokerHistory,
                   faults>>

At(step) == todo # <<>> /\ Head(todo) = step
Done     == todo' = Tail(todo)

Fails  == faults < MaxFaults /\ faults' = faults + 1

-----------------------------------------------------------------------------
(* ground_truth_sync.                                                      *)

Kept == positions

Account ==
    /\ At("account") /\ Done
    /\ \/ /\ positions' = Held(Now) /\ shown' = Now /\ complete' = TRUE
          /\ UNCHANGED faults
       \/ /\ Fails /\ positions' = Kept /\ complete' = FALSE /\ UNCHANGED shown
    /\ UNCHANGED <<broker, slot, tries, report, fills, perf, marked, posts,
                   synced, early, brokerHistory>>

DealFill(n) ==
    LET o == deals[n].order
    IN  [id |-> <<o, n>>, ts |-> 2 * n, day |-> deals[n].day,
         item |-> Data(o).item, side |-> Data(o).side, qty |-> 1, price |-> Data(o).price]

FillIdOfQty(o) == <<o, -Dealt(o)>>
FillId(o)      == <<o, 0>>

OrderFill(o) ==
    [id |-> FillId(o), ts |-> updated[o], day |-> day,
     item |-> Data(o).item, side |-> Data(o).side, qty |-> Dealt(o), price |-> Data(o).price]

Executed == {o \in Orders : \E n \in DealsOf(o) : deals[n].day = day}

(* deal_list_query, or order_list_query on a paper account.                *)
ReconcileFills ==
    IF world.paper
    THEN {OrderFill(o) : o \in Executed}
    ELSE {DealFill(n) : n \in {x \in DOMAIN deals : deals[x].day = day}}

Unknown(rows) == {f \in rows : \A g \in fills : g.id # f.id}

InsertedAllOrNone(rows) == IF Unknown(rows) = rows THEN rows ELSE {}
Inserted(rows)          == Unknown(rows)

(* The answer is recorded, unless there was none.                          *)
RecordFills ==
    /\ At("fills") /\ Done
    /\ \/ /\ fills' = fills \cup Inserted(ReconcileFills) /\ synced' = Now
          /\ early' = early \cup {o \in Working : \E f \in Unknown(ReconcileFills) : f.id[1] = o}
          /\ UNCHANGED <<faults, complete>>
       \/ Fails /\ complete' = FALSE /\ UNCHANGED <<fills, synced, early>>
    /\ UNCHANGED <<broker, slot, tries, report, positions, perf, marked, posts, shown,
                   brokerHistory>>

-----------------------------------------------------------------------------
(* _record_perf.                                                           *)

FlatOr(gross)   == IF gross = {} THEN {Flat} ELSE gross
Exposure(gross) == gross

Row(gross) == [realized |-> RealizedFromFills(fills, day), gross |-> Exposure(gross), on |-> day]

(* A snapshot without positions is asked for again, MaxTries in all, and   *)
(* leaves the exposure unknown in the end.                                 *)
RecordPerf ==
    /\ At("perf")
    /\ \/ Done /\ tries' = 0 /\ perf' = [perf EXCEPT ![day] = {Row({Held(Now)})}]
       \/ IF tries + 1 < MaxTries
          THEN tries' = tries + 1 /\ UNCHANGED <<perf, todo>>
          ELSE Done /\ tries' = 0 /\ perf' = [perf EXCEPT ![day] = {Row({})}]
    /\ UNCHANGED <<broker, slot, report, fills, positions, marked, posts,
                   syncHistory, brokerHistory, faults>>

(* cancel_all ends what works, as far as its query and cancels succeed.    *)
CancelAll ==
    /\ At("cancel") /\ Done
    /\ \E gone \in SUBSET Working :
          /\ status' = [o \in Orders |-> IF o \in gone THEN "done" ELSE status[o]]
          /\ updated' = [o \in Orders |-> IF o \in gone THEN 2 * Now + 1 ELSE updated[o]]
          /\ IF gone = Working THEN UNCHANGED faults ELSE Fails
    /\ UNCHANGED <<world, day, deals, cost, slot, tries, report, tables, syncHistory,
                   brokerHistory>>

-----------------------------------------------------------------------------
(* EODReporter.                                                            *)

HeaderOfLatest == UNION {perf[d] : d \in {x \in Days : /\ perf[x] # {}
                                                       /\ \A y \in Days : perf[y] # {} => y <= x}}
HeaderOfToday  == perf[day]

(* What raises while the report is built is logged, and nothing is sent.   *)
Gather ==
    /\ At("gather")
    /\ \/ /\ todo' = <<"post">> \o Tail(todo)
          /\ report' = {[day |-> day, header |-> HeaderOfToday,
                         label |-> ClassifyStrategy(Legs(fills, day))]}
          /\ UNCHANGED faults
       \/ Fails /\ Done /\ UNCHANGED report
    /\ UNCHANGED <<broker, slot, tries, tables, syncHistory, brokerHistory>>

TryAgain == tries + 1 < Retries
NextTry  == tries' = tries + 1 /\ UNCHANGED <<todo, report>>
GivesUp  == tries' = 0 /\ report' = {} /\ Done

PostedAgain == IF TryAgain THEN NextTry ELSE GivesUp
Posted      == GivesUp

(* A post arrives or not; its answer may be an error, or lost, either way. *)
Post ==
    /\ At("post")
    /\ \/ /\ delivered' = [delivered EXCEPT ![day] = @ + 1]
          /\ Posted /\ UNCHANGED <<faults, lost>>
       \/ /\ Fails
          /\ \/ UNCHANGED posts
             \/ /\ delivered' = [delivered EXCEPT ![day] = @ + 1]
                /\ lost' = [lost EXCEPT ![day] = @ + 1]
          /\ IF TryAgain THEN NextTry ELSE GivesUp
    /\ UNCHANGED <<broker, slot, fills, positions, perf, marked, syncHistory,
                   brokerHistory>>

-----------------------------------------------------------------------------
(* A call of the broker or the DB raises: the rest of the poll is dropped. *)
Raise ==
    /\ todo # <<>> /\ Head(todo) \notin {"gather", "post", "cancel"}
    /\ Fails /\ todo' = <<>> /\ tries' = 0
    /\ complete' = FALSE
    /\ UNCHANGED <<broker, slot, report, tables, shown, synced, early, brokerHistory>>

(* A crash, and the restart that catches up.                               *)
Crash ==
    /\ Fails
    /\ slot' = 0 /\ todo' = <<>> /\ tries' = 0 /\ report' = {}
    /\ complete' = FALSE
    /\ UNCHANGED <<broker, tables, shown, synced, early, brokerHistory>>

-----------------------------------------------------------------------------
Broker == NextDay \/ \E o \in Orders : Deal(o) \/ Lapse(o)

Step == Account \/ RecordFills \/ RecordPerf \/ CancelAll \/ Gather \/ Post

Next == Broker \/ (\E n \in 1..4 : Poll(n)) \/ Recover \/ Step \/ Raise \/ Crash

Spec == Init /\ [][Next]_vars

-----------------------------------------------------------------------------
(* Properties of the tables.                                               *)

(* A row of fills covers a deal: the row of the deal itself, or on paper   *)
(* one of its order, of all that was dealt up to it.                       *)
Upto(n) == {m \in DealsOf(deals[n].order) : m <= n}

Projected(n) ==
    \E f \in fills : /\ f.id[1] = deals[n].order /\ f.day = deals[n].day
                     /\ IF world.paper THEN Cardinality(Upto(n)) <= f.qty ELSE f.id[2] = n

(* On paper the row of an order that still worked when it was projected    *)
(* keeps the quantity of that moment.                                      *)
Frozen(n) == world.paper /\ deals[n].order \in early

FilledIn(o) == FoldSet(LAMBDA f, sum : f.qty + sum, 0, {f \in fills : f.id[1] = o})

(* The fills of an order never exceed what it dealt, whatever is synced    *)
(* again, and are all of it on a paper account unless it still worked when *)
(* it was first projected (moomoo_broker.py: idempotent across a day's     *)
(* reconciles; in practice this matches the real executed quantity).       *)
FillsAreTrue ==
    \A o \in Orders :
        /\ FilledIn(o) <= Dealt(o)
        /\ world.paper /\ FilledIn(o) > 0 /\ o \notin early => FilledIn(o) = Dealt(o)

(* What a sync recorded stays recorded through crashes and exceptions; a   *)
(* deal is only missing when no sync of its day came after it, or when it  *)
(* is one of a paper order that was projected before it was done.          *)
SyncedIsKept == \A n \in (1..synced) \ missed : Projected(n) \/ Frozen(n)

(* The positions are those the broker had when it was last asked with      *)
(* success (lifecycle.py: replacing would wipe the projection).            *)
PositionsWereTrue == positions = Held(shown)

(* After a complete sync every deal of the day that the positions show is  *)
(* in the fills too, but for those of paper orders that were projected     *)
(* before they were done.                                                  *)
PositionsAreExplained ==
    complete /\ todo = <<>> => \A n \in (1..shown) \ missed : Projected(n) \/ Frozen(n)

(* The exposure of a performance row is unknown, or the one the account    *)
(* had at a moment not before the positions of that time (db.py: never     *)
(* persist a fabricated gross_exposure).                                   *)
GrossWasTrue ==
    [][perf' # perf => \A row \in perf'[day] : \A g \in row.gross :
          \E k \in shown..Now : g = Held(k)]_vars

(* The realized P&L of a row is what the sales of the day earned over the  *)
(* average cost the broker itself keeps, when no deal was missed, no order *)
(* was projected too early, and orders were executed one at a time         *)
(* (pnl.py: matches Position.avg_price).                                   *)
RealizedIsTrue ==
    [][perf' # perf /\ missed = {} /\ synced = Now /\ orderly /\ (world.paper => early = {})
       => \A row \in perf'[day] :
          row.realized = IF \E n \in DOMAIN deals : /\ deals[n].day = day
                                                   /\ Data(deals[n].order).side = "SELL"
                         THEN {earned[day]} ELSE {}]_vars

(* Properties of the report.                                               *)

(* The figures of a report are of its day, or none at all, however many    *)
(* jobs of the day failed.                                                 *)
ReportIsOfToday == \A r \in report : \A row \in r.header : row.on = r.day

(* A report that does not say that the hedge is missing has seen each      *)
(* option leg of the overlay executed on its day (classify.py: the labels  *)
(* that PROVE the intended option hedge actually filled), but for a call   *)
(* diagonal: any two calls pass for one.                                   *)
HedgeClaimsAreProven ==
    world.intent # "CALL_DIAGONAL" => \A r \in report : r.label \in IntentProof(world.intent) =>
        \A leg \in HedgeLegs(world.intent) : \E n \in DOMAIN deals :
            /\ deals[n].day = r.day /\ Data(deals[n].order).item.right = leg[1]
            /\ Data(deals[n].order).side = leg[2]

(* Only a post whose answer was lost is sent again, whatever else failed:  *)
(* a crash or another sync does not repeat the report of a day.            *)
OneReportUnlessLost == \A d \in Days : delivered[d] <= 1 + lost[d]

(* The report of a day is true: its figures are of that day, the hedges it *)
(* does not call missing were bought, and it comes once.                   *)
ReportsAreTrue ==
    /\ ReportIsOfToday
    /\ HedgeClaimsAreProven
    /\ OneReportUnlessLost
=============================================================================
