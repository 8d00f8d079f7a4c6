----------------------------- MODULE Rebalance ------------------------------
(***************************************************************************)
(* The midday rebalance: compute_plan against one snapshot, then its trims *)
(* and top-ups one by one, each through the risk core with a snapshot of   *)
(* its own, while the broker fills what was sent; around it the signals of *)
(* the day, whose BUYs are sized by size_position.  A snapshot whose query *)
(* of the positions failed shows an empty book: the risk core refuses it,  *)
(* compute_plan does not look.                                             *)
(*                                                                         *)
(* Prices are fixed and the average cost is the price, so total assets are *)
(* constant.  Fractions are kept exact: a weight is a numerator over       *)
(* Scale.  Orders are DAY orders and the rebalance runs once a day.        *)
(***************************************************************************)
EXTENDS RiskCore, FiniteSetsExt

CONSTANTS
    NumSymbols,    \* the allow-list, in sorted order
    Price,         \* the quote of each symbol
    Total,         \* total assets
    Band,          \* rebalance_band_pct
    Buffer,        \* rebalance_cash_buffer_pct
    MinNotional,   \* rebalance_min_notional
    Lot,           \* SHARES_PER_CONTRACT
    MaxScore,      \* bound: the scores of the targets
    MaxSignals     \* bound: entries and exits

Symbols == 1..NumSymbols
None    == [s \in Symbols |-> 0]

ASSUME RebalanceAssumption ==
    /\ NumSymbols \in Nat \ {0} /\ Lot \in Nat \ {0} /\ Total \in Nat \ {0}
    /\ Price \in [Symbols -> Nat \ {0}]
    /\ Band \in Nat /\ Buffer \in 0..100 /\ MinNotional \in Nat
    /\ MaxScore \in Nat /\ MaxSignals \in Nat

VARIABLES
    position, buy, sell,   \* held, and in flight at the broker
    score,                 \* the target weights, 0 for a symbol without one
    short,                 \* open short calls, in contracts
    breached,              \* day_pnl is below the daily loss limit
    pc,                    \* before the rebalance, in it, or after it
    trims, topups,         \* what is left of the plan
    signals

(* History: the plan was computed on the true book, with the positions     *)
(* long and nothing in flight, and the exposure then; and for each symbol  *)
(* the last trade of a plan since a signal touched it.                     *)
VARIABLES clean, gross0, last

orderVars == <<position, buy, sell>>
planVars  == <<pc, trims, topups, clean, gross0>>
vars == <<orderVars, score, short, breached, planVars, signals, last>>

TypeOK ==
    /\ position \in [Symbols -> Int]
    /\ buy \in [Symbols -> Nat] /\ sell \in [Symbols -> Nat]
    /\ score \in [Symbols -> 0..MaxScore] /\ short \in [Symbols -> Nat]
    /\ pc \in {"before", "send", "after"}
    /\ trims \in [Symbols -> Nat] /\ topups \in [Symbols -> Nat]
    /\ breached \in BOOLEAN /\ clean \in BOOLEAN
    /\ signals \in 0..MaxSignals /\ gross0 \in Nat
    /\ last \in [Symbols -> {"none", "trim", "topup"}]

(* Every short call is covered to begin with.                              *)
Init ==
    /\ position \in [Symbols -> 0..MaxPositionQty]
    /\ score \in [Symbols -> 0..MaxScore]
    /\ short \in [Symbols -> 0..(MaxPositionQty \div Lot)]
    /\ \A s \in Symbols : short[s] * Lot <= position[s]
    /\ buy = None /\ sell = None /\ trims = None /\ topups = None
    /\ pc = "before" /\ clean = FALSE /\ gross0 = 0 /\ breached = FALSE
    /\ signals = 0 /\ last = [s \in Symbols |-> "none"]

-----------------------------------------------------------------------------
(* compute_plan, on the book of its snapshot.                              *)

SumOf(f) ==
    LET sum[n \in 0..NumSymbols] == IF n = 0 THEN 0 ELSE sum[n - 1] + f[n]
    IN  sum[NumSymbols]

Value(p)    == [s \in Symbols |-> (IF p[s] < 0 THEN -p[s] ELSE p[s]) * Price[s]]
Exposure(p) == SumOf(Value(p))

(* target_fractions: the scored symbols share the investable equity of     *)
(* their part of the allow-list, in proportion to their scores.            *)
Scored    == {s \in Symbols : score[s] > 0}
Scale     == SumOf(score) * 100 * NumSymbols
Weight(s) == score[s] * (100 - Buffer) * Cardinality(Scored)

(* The value above the target, and the band, in units of 1/Scale.          *)
Drift(s, book) == book[s] * Price[s] * Scale - Weight(s) * Total
Overweight(s, book)  == 100 * Drift(s, book) > Band * Total * Scale
Underweight(s, book) == 100 * (-Drift(s, book)) > Band * Total * Scale

WholeSharesUp(s, excess) == (excess \div (Scale * Price[s])) + 1
WholeShares(s, excess)   == excess \div (Scale * Price[s])

Sizeable(s, q) == IF q > 0 /\ q * Price[s] >= MinNotional THEN q ELSE 0

(* Shares that cover a short call are never trimmed.                       *)
TrimmableAll(s, book) == book[s]
Trimmable(s, book)    == Max({0, book[s] - short[s] * Lot})

Trim(s, book) ==
    IF Overweight(s, book)
    THEN Sizeable(s, Min({WholeShares(s, Drift(s, book)), book[s], Trimmable(s, book)}))
    ELSE 0

OrderRoom(s)          == MaxOrderNotional \div Price[s]
PositionRoom(s, book) == Max({0, MaxPositionQty - book[s]})
GrossRoom(s, running) == Max({0, MaxGross - running}) \div Price[s]

Topup(s, running, book) ==
    IF Underweight(s, book)
    THEN Sizeable(s, Min({WholeShares(s, -Drift(s, book)), OrderRoom(s),
                          PositionRoom(s, book), GrossRoom(s, running)}))
    ELSE 0

(* running_gross after the first n symbols: the top-ups of the plan count, *)
(* its trims do not.                                                       *)
NotRunning(Q, book) == [n \in 0..NumSymbols |-> Exposure(book)]
RunningGross(Q, book) ==
    LET running[n \in 0..NumSymbols] ==
            IF n = 0 THEN Exposure(book)
            ELSE LET before == running[n - 1]
                 IN  before + (IF n \in Q THEN Topup(n, before, book) * Price[n] ELSE 0)
    IN  running

-----------------------------------------------------------------------------
(* The engine.                                                             *)

Flat == \A s \in Symbols : position[s] >= 0 /\ buy[s] = 0 /\ sell[s] = 0

(* Q is the scored symbols that have a quote.  The book is empty when the  *)
(* query of the positions failed; the total assets are there all the same. *)
Plan ==
    /\ pc = "before" /\ pc' = "send"
    /\ \E book \in {position, None}, Q \in SUBSET Scored :
          /\ trims'  = [s \in Symbols |-> IF s \in Q THEN Trim(s, book) ELSE 0]
          /\ topups' = [s \in Symbols |->
                           IF s \in Q THEN Topup(s, RunningGross(Q, book)[s - 1], book)
                           ELSE 0]
          /\ clean' = (Flat /\ book = position)
    /\ gross0' = Exposure(position)
    /\ last' = IF clean' THEN last ELSE [s \in Symbols |-> "none"]
    /\ UNCHANGED <<orderVars, score, short, breached, signals>>

Passes(side, s, qty) ==
    Approved(side, qty, qty * Price[s], position[s], Exposure(position), breached)

Remember(s, trade) == last' = IF clean THEN [last EXCEPT ![s] = trade] ELSE last

(* An approved order is in flight; it is not when the gate or the risk     *)
(* core turns it down (always, on a snapshot without its positions), or    *)
(* the broker does.                                                        *)
SendTrim(s) ==
    /\ pc = "send" /\ trims[s] > 0 /\ \A u \in Symbols : u < s => trims[u] = 0
    /\ trims' = [trims EXCEPT ![s] = 0]
    /\ \/ /\ Passes("SELL", s, trims[s])
          /\ sell' = [sell EXCEPT ![s] = @ + trims[s]] /\ Remember(s, "trim")
       \/ UNCHANGED <<sell, last>>
    /\ UNCHANGED <<position, buy, score, short, breached, pc, topups, clean,
                   gross0, signals>>

SendTopup(s) ==
    /\ pc = "send" /\ trims = None
    /\ topups[s] > 0 /\ \A u \in Symbols : u < s => topups[u] = 0
    /\ topups' = [topups EXCEPT ![s] = 0]
    /\ \/ /\ Passes("BUY", s, topups[s])
          /\ buy' = [buy EXCEPT ![s] = @ + topups[s]] /\ Remember(s, "topup")
       \/ UNCHANGED <<buy, last>>
    /\ UNCHANGED <<position, sell, score, short, breached, pc, trims, clean,
                   gross0, signals>>

(* The plan is done, or an exception or a crash drops the rest of it.      *)
Finish ==
    /\ pc = "send" /\ pc' = "after" /\ trims' = None /\ topups' = None
    /\ UNCHANGED <<orderVars, score, short, breached, clean, gross0, signals, last>>

(* size_position: what the stop distance and the confidence give, clamped. *)
Sized(s, base) ==
    LET qty == Min({base, MaxPositionQty - position[s], OrderRoom(s),
                    (MaxGross - Exposure(position)) \div Price[s]})
    IN  Max({0, qty})

Signal(s) ==
    /\ pc # "send" /\ signals < MaxSignals /\ signals' = signals + 1
    /\ last' = [last EXCEPT ![s] = "none"]
    /\ UNCHANGED <<position, score, short, breached, planVars>>

Entry(s) ==
    /\ Signal(s)
    /\ \E base \in 1..(MaxPositionQty + 1) :
          /\ Sized(s, base) > 0 /\ Passes("BUY", s, Sized(s, base))
          /\ buy' = [buy EXCEPT ![s] = @ + Sized(s, base)]
    /\ UNCHANGED sell

Exit(s) ==
    /\ Signal(s)
    /\ position[s] > 0 /\ Passes("SELL", s, position[s])
    /\ sell' = [sell EXCEPT ![s] = @ + position[s]]
    /\ UNCHANGED buy

-----------------------------------------------------------------------------
(* The broker and the market.                                              *)

Fill(s) ==
    /\ \/ \E q \in 1..buy[s] :
             /\ position' = [position EXCEPT ![s] = @ + q]
             /\ buy' = [buy EXCEPT ![s] = @ - q] /\ UNCHANGED sell
       \/ \E q \in 1..sell[s] :
             /\ position' = [position EXCEPT ![s] = @ - q]
             /\ sell' = [sell EXCEPT ![s] = @ - q] /\ UNCHANGED buy
    /\ UNCHANGED <<score, short, breached, planVars, signals, last>>

PnlMoves ==
    /\ breached' = ~breached
    /\ UNCHANGED <<orderVars, score, short, planVars, signals, last>>

EndOfDay ==
    /\ pc = "after" /\ pc' = "before"
    /\ buy' = None /\ sell' = None /\ breached' = FALSE
    /\ UNCHANGED <<position, score, short, trims, topups, clean, gross0,
                   signals, last>>

-----------------------------------------------------------------------------
Next ==
    \/ Plan
    \/ \E s \in Symbols : SendTrim(s) \/ SendTopup(s)
    \/ Finish
    \/ \E s \in Symbols : Entry(s) \/ Exit(s)
    \/ \E s \in Symbols : Fill(s)
    \/ PnlMoves
    \/ EndOfDay

Spec == Init /\ [][Next]_vars

-----------------------------------------------------------------------------
(* Properties.                                                             *)

(* A top-up of a plan that saw the positions passes the risk core when its *)
(* turn comes, whatever of the plan is filled by then, unless the day's    *)
(* loss limit is breached: the planner knows all the caps (rebalance.py:   *)
(* clamped "so the order places instead of being rejected").               *)
TopupsPass ==
    pc = "send" /\ clean /\ ~breached =>
        \A s \in Symbols : topups[s] > 0 => Passes("BUY", s, topups[s])

(* The top-ups of such a plan together stay within the gross exposure cap  *)
(* in every order of fills, although the core sees only what is filled     *)
(* (rebalance.py: running_gross).  A plan on an empty book knows neither   *)
(* the positions nor the exposure, and keeps neither promise.              *)
PlanWithinGross ==
    pc = "send" /\ clean =>
        Exposure([s \in Symbols |-> position[s] + buy[s]]) <= Max({MaxGross, gross0})

(* A trim of a plan made on the true book with nothing in flight never     *)
(* sells shares that cover a short call, whatever else of the plan is      *)
(* filled (rebalance.py: never trim below the covered floor).              *)
TrimsKeepCover ==
    [][\A s \in Symbols : pc = "send" /\ clean /\ sell'[s] > sell[s]
          => position[s] - sell'[s] >= short[s] * Lot]_vars

(* With unchanged targets no plan made on the true book undoes an earlier  *)
(* one: what was trimmed is not topped up, however the orders in between   *)
(* filled or lapsed, and the other way round (rebalance.py: whole shares   *)
(* below the drift).  A plan on an empty book forgets what was traded.     *)
NoReversal ==
    pc = "send" =>
        \A s \in Symbols : /\ last[s] = "trim"  => topups[s] = 0
                           /\ last[s] = "topup" => trims[s] = 0

(* A sized entry is not turned down by a cap (sizing.py: a sane size is    *)
(* not needlessly rejected by a hard cap).                                 *)
SizedEntriesPass ==
    \A s \in Symbols : position[s] >= 0 /\ ~breached =>
        \A base \in 1..(MaxPositionQty + 1) :
            Sized(s, base) > 0 => Passes("BUY", s, Sized(s, base))

(* What the engine sizes is neither turned down by the risk core for its   *)
(* size nor too much together: the planner, on a book it could see, the    *)
(* sizer and the core agree on the caps in every order of fills.           *)
CapsHold == TopupsPass /\ PlanWithinGross /\ SizedEntriesPass
=============================================================================
