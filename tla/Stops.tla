-------------------------------- MODULE Stops --------------------------------
(***************************************************************************)
(* The protective stop of one symbol: entries and exits, the rebalance and *)
(* its consolidate_stop, the halt, the EOD cancel, the morning reconcile   *)
(* of StopManager and the sync of the trades projection, over a broker     *)
(* that fills, ends and loses orders between any two calls.                *)
(*                                                                         *)
(* The engine is one thread: pc is the call it makes next.  Every call may *)
(* fail; an exception, like a crash, leaves the activity where it is.  An  *)
(* order is lost when its ack is UNKNOWN, or the process dies before the   *)
(* trades row is written: the broker may have it, no row has its id.       *)
(* Prices, caps other than long-only, and escalation are left out.         *)
(***************************************************************************)
EXTENDS Integers, FiniteSets

CONSTANTS
    Lot,          \* the largest quantity of an entry or a trade
    MaxOrders,    \* bound: orders sent
    MaxErrors     \* bound: queries, cancels and quotes that fail

ASSUME StopsAssumption ==
    /\ Lot \in Nat \ {0}
    /\ MaxOrders \in Nat /\ MaxErrors \in Nat

Ids    == 1..MaxOrders
Kinds  == {"BUY", "SELL", "STOP"}      \* STOP is a TRAILING_STOP SELL

(* The broker: the position, the kind of each order, what is left of it    *)
(* and whether it works.                                                   *)
VARIABLES position, kind, left, working, next

(* The trades table: the orders with a row that has their id, and the      *)
(* stops whose row says SUBMITTED.                                         *)
VARIABLES known, tracked

VARIABLES
    pc,         \* the next call of the engine
    want,       \* the quantity of the stop to place, or the total to reach
    held,       \* the position in the snapshot that is in use
    book, todo, \* the orders reconcile saw working, and those it has to cancel
    halted,     \* EntryGate._halted
    errors

(* History: the orders whose cancel failed at least once; whether nothing  *)
(* failed or changed at the broker since the reconcile under way, or just  *)
(* over, looked at the account.                                            *)
VARIABLES failed, clean

brokerVars == <<position, kind, left, working, next>>
rowVars    == <<known, tracked>>
localVars  == <<want, held, book, todo>>
vars == <<brokerVars, rowVars, pc, localVars, halted, errors, failed, clean>>

BrokerTypeOK ==
    /\ position \in Int /\ next \in Nat
    /\ kind \in [Ids -> Kinds] /\ left \in [Ids -> Int]
    /\ working \subseteq Ids

RowTypeOK == known \subseteq Ids /\ tracked \subseteq Ids

EngineTypeOK ==
    /\ pc \in {"idle", "look", "stop", "trade", "resize", "halt",
               "account", "sweep"}
    /\ held \in Int /\ want \in Int
    /\ book \subseteq Ids /\ todo \subseteq Ids
    /\ halted \in BOOLEAN

HistoryTypeOK == errors \in Nat /\ failed \subseteq Ids /\ clean \in BOOLEAN

TypeOK ==
    /\ BrokerTypeOK
    /\ RowTypeOK
    /\ EngineTypeOK
    /\ HistoryTypeOK

Init ==
    /\ position = 0 /\ held = 0 /\ want = 0
    /\ kind = [i \in Ids |-> "BUY"] /\ left = [i \in Ids |-> 0]
    /\ next = 1 /\ working = {} /\ known = {} /\ tracked = {}
    /\ book = {} /\ todo = {} /\ failed = {}
    /\ pc = "idle" /\ halted = FALSE /\ errors = 0 /\ clean = FALSE

-----------------------------------------------------------------------------
(* The broker.                                                             *)

Fill(i) ==
    /\ i \in working
    /\ \E q \in 1..left[i] :
          /\ position' = position + (IF kind[i] = "BUY" THEN q ELSE -q)
          /\ left' = [left EXCEPT ![i] = @ - q]
          /\ working' = IF q = left[i] THEN working \ {i} ELSE working
    /\ UNCHANGED <<kind, next, rowVars, pc, localVars, halted, errors, failed>>

(* The end of a DAY order, or any other end the engine did not ask for.    *)
Lapse(i) ==
    /\ i \in working /\ working' = working \ {i}
    /\ UNCHANGED <<position, kind, left, next, rowVars, pc, localVars, halted,
                   errors, failed>>

-----------------------------------------------------------------------------
(* What the activities of the engine are made of.                          *)

Fails == errors < MaxErrors /\ errors' = errors + 1

(* get_open_trailing_stop: the newest row, if there is one.                *)
Newest == {i \in tracked : \A j \in tracked : j <= i}

Accepted(k, q) ==
    /\ next \in Ids /\ next' = next + 1
    /\ kind' = [kind EXCEPT ![next] = k] /\ left' = [left EXCEPT ![next] = q]
    /\ working' = working \cup {next}
    /\ UNCHANGED position

(* router.submit and record_trade: acked and on record, refused, or lost.  *)
Acked(k, q) ==
    /\ Accepted(k, q)
    /\ known' = known \cup {next}
    /\ tracked' = IF k = "STOP" THEN tracked \cup {next} ELSE tracked
    /\ UNCHANGED errors

Refused == UNCHANGED <<brokerVars, rowVars, errors>>

Lost(k, q) ==
    /\ Fails /\ UNCHANGED rowVars
    /\ Accepted(k, q) \/ UNCHANGED brokerVars

NotAcked(k, q) == Refused \/ Lost(k, q)

Marked(ids) == tracked' = tracked \ ids /\ UNCHANGED known

(* cancel_order, and the row is marked when it succeeded.                  *)
Cancelled(i) ==
    /\ i \in working /\ working' = working \ {i}
    /\ Marked({i})
    /\ UNCHANGED <<errors, failed>>

CancelFails(i) ==
    /\ UNCHANGED <<working, rowVars>>
    /\ \/ i \notin working /\ UNCHANGED <<errors, failed>>
       \/ i \in working /\ Fails /\ failed' = failed \cup {i}

(* An exception or a crash in the middle of an activity.                   *)
Abort ==
    /\ pc # "idle" /\ pc' = "idle"
    /\ UNCHANGED <<brokerVars, rowVars, localVars, halted, errors, failed>>

Restart ==
    /\ pc' = "idle" /\ halted' = FALSE
    /\ UNCHANGED <<brokerVars, rowVars, localVars, errors, failed>>

-----------------------------------------------------------------------------
(* A stop is placed after a fresh snapshot, through the risk core, which   *)
(* asks that the position covers it.                                       *)

Look ==
    /\ pc = "look"
    /\ \/ held' = position /\ pc' = "stop" /\ UNCHANGED errors
       \/ Fails /\ pc' = "idle" /\ UNCHANGED held
    /\ UNCHANGED <<brokerVars, rowVars, want, book, todo, halted, failed>>

(* No alert when the ack is a refusal: attach answers True for any ack.    *)
PlaceStop ==
    /\ pc = "stop" /\ pc' = "idle"
    /\ \/ held < want /\ UNCHANGED <<brokerVars, rowVars, errors>>
       \/ held >= want /\ (Acked("STOP", want) \/ NotAcked("STOP", want))
    /\ UNCHANGED <<localVars, halted, failed>>

-----------------------------------------------------------------------------
(* Entries and exits.                                                      *)

TradingAnyhow == pc = "idle"
Trading       == pc = "idle" /\ ~halted

(* A BUY, and its stop once it is acked, filled or not.                    *)
Entry ==
    /\ Trading
    /\ \E q \in 1..Lot :
          \/ Acked("BUY", q) /\ pc' = "look" /\ want' = q
          \/ NotAcked("BUY", q) /\ UNCHANGED <<pc, want>>
    /\ UNCHANGED <<held, book, todo, halted, failed>>

(* A SELL of the whole position; its stop is left as it is.                *)
Exit ==
    /\ Trading /\ position > 0
    /\ Acked("SELL", position) \/ NotAcked("SELL", position)
    /\ UNCHANGED <<pc, localVars, halted, failed>>

-----------------------------------------------------------------------------
(* The rebalance: a trade of the plan, then the stop for the new total.    *)

Plan ==
    /\ Trading
    /\ held' = position
    /\ \E q \in 1..Lot :
          want' \in {position + q} \cup {t \in {position - q} : t >= 0}
    /\ pc' = "trade"
    /\ UNCHANGED <<brokerVars, rowVars, book, todo, halted, errors, failed>>

(* The risk core looks at a snapshot of its own.                           *)
Trade ==
    /\ pc = "trade"
    /\ LET side == IF want > held THEN "BUY" ELSE "SELL"
           qty  == IF want > held THEN want - held ELSE held - want
       IN  \/ side = "SELL" /\ position < qty /\ pc' = "idle" /\ Refused
           \/ /\ side = "SELL" => position >= qty
              /\ \/ Acked(side, qty) /\ pc' = "resize"
                 \/ NotAcked(side, qty) /\ pc' = "idle"
    /\ UNCHANGED <<localVars, halted, failed>>

(* consolidate_stop: a failed cancel raises.                               *)
Resize ==
    /\ pc = "resize"
    /\ \/ /\ tracked = {}
          /\ pc' = IF want > 0 THEN "look" ELSE "idle"
          /\ UNCHANGED <<working, rowVars, errors, failed>>
       \/ \E i \in Newest :
             \/ Cancelled(i) /\ pc' = IF want > 0 THEN "look" ELSE "idle"
             \/ CancelFails(i) /\ pc' = "idle"
    /\ UNCHANGED <<position, kind, left, next, localVars, halted>>

-----------------------------------------------------------------------------
(* The halt and the EOD cancel.                                            *)

(* Some cancels may fail; when the book is unknown, none is tried.         *)
CancelAll ==
    \E F \in SUBSET working :
        /\ working' = F /\ failed' = failed \cup F
        /\ IF F = {} THEN UNCHANGED errors ELSE Fails
        /\ UNCHANGED <<position, kind, left, next, rowVars>>

(* _flatten_all: the position is sold, as far as an order can be placed.   *)
Flatten ==
    /\ Trading /\ pc' = "halt"
    /\ \/ position > 0 /\ (Acked("SELL", position) \/ NotAcked("SELL", position))
       \/ position <= 0 /\ Refused
    /\ UNCHANGED <<localVars, halted, failed>>

Halt ==
    /\ pc = "halt" /\ pc' = "idle"
    /\ CancelAll
    /\ halted' = TRUE
    /\ UNCHANGED <<localVars>>

EodCancel ==
    /\ pc = "idle" /\ CancelAll
    /\ UNCHANGED <<pc, localVars, halted>>

(* An interrupt at any point: the finally clause cancels what works, the   *)
(* stops too, and the next process starts over.                            *)
Shutdown ==
    /\ CancelAll
    /\ pc' = "idle" /\ halted' = FALSE
    /\ UNCHANGED localVars

-----------------------------------------------------------------------------
(* reconcile_open_orders: the rows of stops that are off the book.         *)

SyncUnknownAsNone == tracked' = {}
SyncUnknown       == UNCHANGED tracked

Sync ==
    /\ pc = "idle"
    /\ \/ tracked' = tracked \cap working /\ UNCHANGED errors
       \/ Fails /\ SyncUnknown
    /\ UNCHANGED <<brokerVars, known, pc, localVars, halted, failed>>

-----------------------------------------------------------------------------
(* StopManager.reconcile, at ENTRY_OPEN.                                   *)

KeepAnyStop(i) == i \in known /\ kind[i] = "STOP"
Keep(i) == i \in known /\ kind[i] = "STOP" /\ held > 0

QueryBook ==
    /\ pc = "idle"
    /\ \/ pc' = "account" /\ book' = working /\ UNCHANGED errors
       \/ Fails /\ UNCHANGED <<pc, book>>
    /\ UNCHANGED <<brokerVars, rowVars, want, held, todo, halted, failed>>

QueryAccount ==
    /\ pc = "account"
    /\ \/ pc' = "sweep" /\ held' = position /\ todo' = book /\ UNCHANGED errors
       \/ Fails /\ pc' = "idle" /\ UNCHANGED <<held, todo>>
    /\ UNCHANGED <<brokerVars, rowVars, want, book, halted, failed>>

(* Pass 1, one order of the book at a time.                                *)
Sweep(i) ==
    /\ pc = "sweep" /\ i \in todo /\ todo' = todo \ {i}
    /\ \/ Keep(i) /\ UNCHANGED <<working, rowVars, errors, failed>>
       \/ ~Keep(i) /\ (Cancelled(i) \/ CancelFails(i))
    /\ UNCHANGED <<position, kind, left, next, pc, want, held, book, halted>>

(* Pass 2: what is held has a working stop, or gets one; without a quote   *)
(* it is only reported.                                                    *)
CoveredByRow == held <= 0 \/ Newest # {}
Covered      == held <= 0 \/ Newest \cap book # {}

Protect ==
    /\ pc = "sweep" /\ todo = {}
    /\ \/ Covered /\ pc' = "idle" /\ UNCHANGED <<want, errors>>
       \/ ~Covered /\ pc' = "look" /\ want' = held /\ UNCHANGED errors
       \/ ~Covered /\ Fails /\ pc' = "idle" /\ UNCHANGED want
    /\ UNCHANGED <<brokerVars, rowVars, held, book, todo, halted, failed>>

-----------------------------------------------------------------------------
Broker == \E i \in Ids : Fill(i) \/ Lapse(i)

Interrupt == Abort \/ Restart \/ Shutdown

Engine ==
    \/ Look \/ PlaceStop
    \/ Entry \/ Exit
    \/ Plan \/ Trade \/ Resize
    \/ Flatten \/ Halt \/ EodCancel
    \/ Sync
    \/ QueryBook \/ QueryAccount
    \/ \E i \in todo : Sweep(i)
    \/ Protect

(* A reconcile that met nothing but what it was told.                      *)
Undisturbed ==
    \/ pc = "account" /\ pc' = "sweep" /\ book = working
    \/ /\ clean /\ pc \in {"sweep", "look", "stop"}
       /\ errors' = errors /\ (pc = "stop" => next' # next)

Next ==
    \/ (Broker \/ Interrupt) /\ clean' = FALSE
    \/ Engine /\ clean' = Undisturbed

Spec == Init /\ [][Next]_vars

-----------------------------------------------------------------------------
(* Properties.                                                             *)

(* A stop that works and was recorded is never marked CANCELLED: not by a  *)
(* query that failed, not by a cancel that did (lifecycle.py: a None book  *)
(* is UNKNOWN; stops.py, main.py: the row is marked after the cancel).     *)
LiveStopsAreTracked ==
    \A i \in working \cap known : kind[i] = "STOP" => i \in tracked

(* After pass 1 nothing works but recorded stops of a position that was    *)
(* held, unless its cancel failed: lost orders, stops of a closed position *)
(* and forgotten entries are gone (stops.py: the orphan sweep).            *)
OrphansAreSwept ==
    pc = "sweep" /\ todo = {} =>
        \A i \in working \ failed :
            i \in known /\ kind[i] = "STOP" /\ held > 0

(* A morning reconcile that met no failure and no change at the broker     *)
(* leaves a held position with a recorded stop that works: neither a row   *)
(* of a dead stop nor its own sweep leaves it without (stops.py: every     *)
(* held equity long gets one working stop).                                *)
ReconcileProtects ==
    clean /\ pc = "idle" /\ held > 0 => \E i \in working \cap known : kind[i] = "STOP"

(* After a HALT no entry works, unless its cancel failed, and none is sent *)
(* any more (main.py: flatten, cancel all, then the halt flag).            *)
HaltCancelsEntries ==
    halted => \A i \in working \ failed : kind[i] # "BUY"

(* RUNBOOK.md, of trailing stops: "a short can never open".                *)
ShortNeverOpens ==
    [][\A i \in Ids : kind[i] = "STOP" /\ left'[i] < left[i] /\ i \in working
          => position' >= 0]_vars

-----------------------------------------------------------------------------
(* The parts of the inductive invariant (StopsProofs.tla), beside the rows *)
(* themselves (LiveStopsAreTracked): ids are used in order; no trade of a  *)
(* plan is under way in a halted session; what works during a sweep is     *)
(* still to be swept, or was kept, or its cancel failed; rows of stops are *)
(* of stops; and what an undisturbed reconcile keeps goes on working.      *)
IdsInOrder == \A i \in working \cup known \cup tracked : i < next

HaltInv == HaltCancelsEntries /\ (halted => pc # "trade")

SweepInv ==
    /\ pc = "account" => working \subseteq book
    /\ pc = "sweep" => \A i \in working \ (failed \cup todo) : Keep(i)

StopsAreStops == \A i \in tracked : i \in known /\ kind[i] = "STOP"

CleanInv ==
    /\ ReconcileProtects
    /\ clean => /\ pc \in {"sweep", "look", "stop", "idle"}
                /\ pc # "idle" => held = position
                /\ pc = "sweep" => \A i \in book : Keep(i) => i \in working
                /\ pc \in {"look", "stop"} => want = held
=============================================================================
