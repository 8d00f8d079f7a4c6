# A verification project for AutoTrader

AutoTrader is a single-process trading engine for Moomoo/Futu OpenD: one loop
fires a daily schedule of jobs, ticks a strategy, consumes external signals, and
sends every order through a risk core and an audited router.  This directory
holds TLA+ models of its parts, the TLC configurations that check them on small
instances, and TLAPS proofs of what matters most for every instance.

Paths are those of the repository (`autotrader/main.py` and so on).  Every
definition that models code is listed with its lines under `map` in
`PROJECT.json`.

    tlc -workers 2 -config MCStops.cfg MCStops      # check one run
    tlapm StopsProofs.tla                           # check one proof module

## 1. The system

| Component | State | Operations | Talks to |
| --- | --- | --- | --- |
| Session loop (`runner.py`, `clock.py`, `market_calendar.py`) | none of its own | `run_once`: due jobs, watchdog, tick, inbox; `run` swallows any exception and sleeps | everything below |
| Lifecycle schedule (`scheduler.py`) | `_last_fired` in memory; `sched:` rows of `engine_state` for three at-most-once jobs | `poll(now)` | `db.py` |
| Entry gate and halt (`lifecycle.py`, `risk_check.py`) | `_enabled`, `_halted`, in memory only | `open`, `close`, `halt`; `apply_risk_check` returns OK, GATE or HALT | engine |
| Deferred entries (`main.py`) | `_deferred_entries`, `deferred:` rows | defer (latest wins per symbol), flush at ENTRY_OPEN, restore at start-up | `db.py`, engine |
| Order router (`router.py`) | `_seen`, one lock per symbol, the audit file | `submit` | broker |
| Limit escalation (`main.py`) | none between calls | LIMIT, re-peg to the touch, MARKET | router, broker |
| Stop lifecycle (`stops.py`, `main.py`, `lifecycle.py`) | `trades` rows of working stops | attach, consolidate, the morning reconcile, sync of the rows | router, broker, `db.py` |
| Watchdog (`watchdog.py`) | none between calls | `ensure_healthy` | broker, sync |
| Risk core (`risk_core.py`) | none | `evaluate`: caps, allow-list, long-only, option cover | engine |
| Option overlays (`options/`, `main.py`) | none between calls | plan, chain, legs in order, confirm the hedge | router, broker |
| Rebalance and sizing (`rebalance.py`, `sizing.py`) | target weights in the DB | `compute_plan`, `size_position` | engine |
| Signal ingress (`signals/`) | files of the inbox directory | webhook, routine adapter, `atomic_write_bytes`, `poll` | engine |
| Projection (`db.py`) | SQLite: signals, trades, fills, positions, performance, halts, engine_state | one method per row kind, one lock | all |
| Broker adapters (`moomoo_broker.py`, `sim_broker.py`) | caches; two rate limiters | orders, cancels, queries, fills | OpenD |
| Rate limiter (`rate_limiter.py`) | tokens, last refill | `acquire` | broker |
| Strategies (`strategies/`, `breakout_reference.py`) | a reference per symbol and day | `evaluate` | engine |
| Reporting (`reporting/`), dashboard (`src/dashboard`) | none | read-only views | `db.py` |
| Configuration (`config.py`), SDK helpers (`skills/`) | none | - | - |

What is hard about it:

* **One thread, many reentries.**  The loop, the schedule and the queue share
  memory that a crash loses and rows that it does not; jobs are marked as fired
  before any of them runs.
* **An asynchronous broker.**  Orders fill, end or get lost between any two calls;
  an UNKNOWN ack says nothing; a failed query is not an empty book.
* **Failure in the middle.**  Every broker call may raise, and `run` drops the
  rest of the iteration.
* **Threads in one place.**  `OrderRouter.submit` is written for concurrent callers.

What makes each component correct:

* schedule: a durable job once a day; after a catch-up the gate ends up closed;
* gate: a halted process never buys;
* queue: memory and rows agree; a drop becomes one order; a row resolves;
* router: an audit line before every order, one order per client order id, true
  answers, one order of a symbol at a time, no call stuck;
* escalation: one live order, nothing after a full fill, the recorded order is the
  last one, what the stages overfill is bounded;
* stops: a live stop keeps its row, orphans go, an undisturbed reconcile leaves a
  position protected, a halt leaves no entry;
* watchdog: recovery reconciles, trading resumes, jobs go on;
* rebalance and sizing: what is planned on a snapshot with its positions passes the caps
  in every order of fills, keeps the cover of short calls and undoes no earlier plan;
* overlays: a short leg follows its cover, confirmations and answers are true,
  stacked overlays stay covered;
* limiter: no window of the broker's limit gets more than a full bucket and its
  refill; every call returns;
* ingress: a row means the same on every path to the trader that can read it, a row seen
  to mean an overlay is no order of shares, what was answered 202 is kept or, when it
  cannot be read, set aside; a file is routed once at most, weights are whole and
  durable, the inbox drains;
* projection: a fill is recorded once and never lost, positions have their fills (but for
  paper orders that still worked when they were first projected), an exposure is never
  invented;
* report: the figures are of its day, a hedge it does not call missing was bought,
  realized P&L is the broker's, it comes once, and again only after a lost answer.

`hazards` in `PROJECT.json` lists, line by line, what tests would hardly reach.

## 2. The modules

### Session (MCSession, SessionProofs)

The loop, the scheduler, the gate, the deferred queue and the inbox hand-over.
Time is a day and a slot (how many entries of `_SCHEDULE` are due); the clock and
the producer of drops move at any time.  `pc` is the place in `run_once`.  `Poll`
is `LifecycleScheduler.poll` (all due jobs are marked, three of them durably,
before one runs); `PreOpenSync` .. `EodReport` are the branches of `_run_job`;
`FlushSubmit` and `FlushExpired` the body of `flush_deferred_entries`; `Tick`,
`RouteDrop` the tick and `submit_external_signal`; `StartUp` the constructor with
`_restore_deferred_entries`.  `Abandon` is an exception caught by `run`; `Crash`,
`CrashInPoll` and `CrashInFlush` put a crash between two steps of one call.  What
a job does at the broker is success or an exception here.

### OrderRouter and OnceOrders (MCOrderRouter, OrderRouterProofs)

`submit` thread by thread: the lookup under the global lock, waiting for the lock
of the symbol, the second lookup, the intent line, `place_order`, the ack line and
`_seen`.  Either audit write may raise, the broker may accept, refuse, or fail with
the order placed or not, and a crash empties `_seen`.  `OnceOrders` is the abstract
specification: an atomic object per client order id.  The router refines it with
`answer <- seen`, `lost <- forgotten`.

### Escalation (MCEscalation, ConnectionProofs)

`_submit_with_escalation` over a broker that fills in part or completely, ends, or
delays each of the three orders.  A quantity is followed, prices are not.

### Stops (MCStops, StopsProofs)

The orders of one symbol and the rows that track its stops: `Entry`, `Exit`
(`_route_signal`), `Look`/`PlaceStop` (the fresh snapshot, the risk core and the
order of every attach), `Plan`/`Trade`/`Resize` (`rebalance`,
`submit_rebalance_order`, `consolidate_stop`), `Flatten`/`Halt`
(`apply_risk_check`), `EodCancel`, `Sync` (`reconcile_open_orders`),
`QueryBook`/`QueryAccount`/`Sweep`/`Protect` (`StopManager.reconcile`).  Fills and
ends of orders come between any two calls.  `known` is the set of orders whose row
has their id, `tracked` the stops whose row says SUBMITTED; an order whose ack was
lost, or whose process died before `record_trade`, is in neither.  `Shutdown` is
`main.shutdown`: it cancels what works, the protective stops included.  The history
`clean` says that the broker and the network did nothing since the reconcile began;
`Covered` is the test of `StopManager.reconcile` that decides whether a position needs
a new stop.

### RiskCore and Rebalance (MCRebalance, RebalanceProofs)

`RiskCore` is `evaluate` for equity orders.  `Rebalance` is one day after another of
signals and midday plans for some symbols: `Plan` is `compute_plan` on one snapshot, which
has the positions or, when the query for them failed, none (`rebalance` does not look at
`snap.stale`; `Weight` is `target_fractions`, `Trim`, `Topup` and `RunningGross` the
loop), `SendTrim` and `SendTopup` are `submit_rebalance_order`, each through the risk core
with a snapshot of its own, `Entry` and `Exit` the two sides of `_route_signal` with
`Sized` for `size_position`.  Fills come between any two of these, and `EndOfDay` ends
what is left.  The history `clean` says that nothing was in flight when the plan was
computed and that its snapshot had the positions: what a plan promises, it promises of its
own orders and of the book that it saw.  (A plan on an empty book has no trims.)

### Overlay (MCOverlay, OverlayProofs)

`Plan` is `build_overlay_plan` for any overlay of `Registry` and any contracts that
the chain selection may return; `SendLeg` and `RejectedByRisk` one pass of the loop of
`_route_overlay`, with `Coverable` for the option gate of the risk core; `Poll` one
look of `_confirm_hedge_fill`.  `calm` says that no plan began with an order working
and that no order ended incomplete.

### Watchdog (MCWatchdog, ConnectionProofs)

`ensure_healthy` in its loop over a connection that drops and returns at any moment,
with a sync that may raise or refresh only a part.

### RateLimiter (MCRateLimiter, ConnectionProofs)

`acquire` thread by thread: `Look` is the section under the lock (refill, then take a
token if there is one), `Check` the deadline, which is read outside the lock, and `Tick`
ends the sleeps of one poll.  Time is counted in polls, a token in the units that one poll
refills.  A thread may be late at any of its steps.  The history `span`, `spent` is one
window of the broker's limit, which may begin at any moment.

### Payload, Ingress (MCIngress, IngressProofs)

`Payload` holds what the writers make of one row: `StrictRow` (`schema.py`), `Read` and
`CoerceChange` (`coerce.py`: the keys and numbers that it reads, and the change that it
makes of them), `Adapted` (`routine_adapter.py`), and `NormalizeChange` (`normalize.py`),
what the trader makes of the result.  A row says by whose `keys` it is written, whether
its numbers are `quoted`, and by what `mark` it means an overlay, for the three readers
differ in which of these they take.  `Ingress` is the way of a file:
`Receive`, `WritePart`, `Publish`, `Respond` a request of the webhook with its atomic
write, `Adapter` and `DropByHand` the other writers, and `Take`, `TakeFails`, `Store`,
`Commit`, `Move`, `Route` the poll of the trader, file by file.  `TakeFails` is a
`read_text` that raises: `poll` catches it with the validation errors and moves the
file to `rejected/`; the history `unread` remembers it.  Both sides may die between any
two steps, and a call of the trader may raise.  `table` is what the connection sees of
`target_weights`, `disk` what is committed.

### Report, Projection (MCProjection, ProjectionProofs)

`Report` holds the pure parts of the reporting: `RealizedFromFills` (`pnl.py`) as a
fold over the fills, and `ClassifyStrategy` with the labels that prove a hedge
(`classify.py`).  `Projection` is an account whose orders deal unit by unit, and the
process that reads it: `Account` and `RecordFills` the two halves of
`ground_truth_sync`, `RecordPerf` the performance row with its attempts, `CancelAll`
the EOD cancel, `Gather` and `Post` the report, and `Poll` the jobs of the day that
lead to them (`StepsOf`), three of them with a durable mark.  A live account lists its
deals, a paper account only its orders (`OrderFill`).  The history `early` has the paper
orders that still worked when they were first projected, whose row is frozen at what
they had dealt by then; `lost` counts the posts of a day whose answer was lost.

## 3. What is checked

| Run | Module | Shows |
| --- | --- | --- |
| `days` | Session | two days, a crash, an exception, a drop: durable jobs once a day, an open gate is closed by its sweep, rows and memory agree, a halted process buys nothing |
| `queue` | Session | two days, a drop, a crash, under fairness: a drop is ordered at most once by each process, every deferred row is routed or expires |
| `router` | OrderRouter | three threads, three ids (two of one symbol), a failed audit write and a crash: an intent line before every order, one order per id and forgotten ack, true answers, the refinement of OnceOrders, and every call ends |
| `escalation` | Escalation | fills, lapses and lost acks race the stages for a quantity of 3: one live order, a bounded overfill, the answer is the last order's |
| `watchdog` | Watchdog | three outages, six attempts: recovery reconciles, no outage stops the schedule or outlasts itself |
| `stops` | Stops | three orders, two failures, crashes and shutdowns: rows, sweep, reconcile and halt |
| `rebalance` | Rebalance | any positions, targets and short calls of two symbols: the caps hold in every order of fills, trims keep cover, no plan undoes an earlier one; also plans on the empty book of a failed query |
| `overlay` | Overlay | two overlays with lost acks, failed queries and ends of orders: cover first, true answers, stacked overlays covered, every plan ends |
| `rates` | RateLimiter | two threads, a bucket of three tokens: calls in any window, every call ends |
| `ingress` | Ingress | two requests and a dropped file, failing reads, an exception and a crash: rows keep their meaning, files are kept and routed once, weights are kept, the inbox drains |
| `projection` | Projection | two days of a live and a paper account with a fault anywhere: fills, positions, exposure, realized P&L and reports |
| `stops_short` | Stops | the stop that an exit leaves opens a short (finding) |

`TypeOK` of a module gives the domains of its variables.  It is proved where a proof
rests on it, and is not a property of the runs.  `CapsHold`, `OutagesPass`,
`RowsKeepTheirMeaning`, `TargetsAreKept` and `ReportsAreTrue` are conjunctions of the
named properties before them.

**Bounds.**  Two days let a mark of one day be read on the next; one crash puts a
restart before, between or after any two steps.  One drop is deferred, restored,
replayed or expired; that a later one of its symbol replaces it is left to the proof of
`RowsAccountedFor`, which is for any drops.  Three threads make two waiters for one
lock, with a third on another symbol.  A quantity of 3 has two different partial fills.
Three orders are an entry, its stop and one more order (a second entry, an exit, a trade
or a lost order); two failures are a failed query and a failed cancel, in either order.
Rebalance has two symbols at 1 and 2, so that a plan mixes trims and top-ups and one
top-up takes the room of the next; the caps (4 an order, 5 shares, 7 in all) bind
before, at and after the targets of an account of 12, and initial positions may already
exceed the gross cap.  One signal may come before or after a plan, on any day.  Overlay
has two strikes (a spread needs two), a near and a far expiry, a round lot, and two
plans, for one overlay stacked upon another.

RateLimiter: a token is two polls, the bucket holds three, a call gives up after three
polls, the window is six polls, in which the bucket refills once; seven polls without a
look overfill it if the refill is not capped.  Ingress: one request carries every row of
three families, those that differ in what they say of their trade, those that differ in
form (keys, quotes, tickers) and those that differ in overlay and mark, or a body that is
refused; the other carries those of them that are valid as they are; scores are in tenths,
some with a fraction on which the writers disagree, and at each boundary of the rounding.
The two bring weights of one date, or the second brings weights of another date that
repeat a symbol; the adapter drops a file next to them, of a sale, of a label that is no
trade, of a quoted score that it cannot read, or of nothing.  Any read of any file may
fail, any number of times.  The proofs about rows are for any set of rows.  Projection:
three accounts, one with shares bought at two prices and sold, one on paper whose order is
filled in two parts, and one with a collar; two attempts at the snapshot and two posts let
each fail once and succeed.

The proofs drop all of these bounds.

**Deadlock** is not checked in the runs of OrderRouter, Escalation, Stops, Overlay and
Ingress: calls, orders, plans and files are bounded there, and an escalation ends.  The
stuck thread that matters is covered by `EveryCallEnds`, the stuck poll by
`InboxDrains`.  Session, Watchdog, Rebalance, RateLimiter and Projection go on for ever.

**Fairness.**  `queue`: weak fairness of the loop (`run` is `while not stop()`) and of
the clock; none of crashes, restarts, or the producer.  Exceptions are excluded there
(`MaxFailures = 0`), for one that recurs for ever stops any progress; a row stranded by
a flush that raised is not replayed before a restart.  `router`: weak fairness of each
thread inside `submit` only; Python's locks promise no order, and the finitely many
calls make weak fairness enough.  `watchdog`: weak fairness of the loop, none of the
connection; `TradingResumes` assumes that it comes back and stays.  `overlay`: weak
fairness of the call that executes a plan, none of the broker; an order may rest for
ever.  `rates`: weak fairness of the clock and of each thread inside `acquire`: time
passes and a sleep ends.  `ingress`: weak fairness of the loop of the trader; none of
the writers, of exceptions, of which there are finitely many, or of a restart.  The
violation run refutes a safety property and needs none.

Each property of a passing run has a mutant in `PROJECT.json`: a plausible slip in
one definition under which TLC finds the property violated.

## 4. What is proved

All theorems hold for every value of the constants under the named assumptions
(`BoundAssumption`, `DomainAssumption`, `RouterAssumption`, `QtyAssumption`,
`StopsAssumption`, `RateAssumption`, `IngressAssumption`, `ProjectionAssumption`,
`WatchdogAssumption`, `CapAssumption`, `RebalanceAssumption`, `OverlayAssumption`),
which say that bounds are natural numbers, that maps have
their domains, that "none" is no thread, that quantities, prices, the lot and the total
assets are positive, that the chain is finite and its long-dated expiries come after the
others, and that bodies and orders are of the kinds the modules define.

Every safety property that a run finds to hold is a theorem but one (`RealizedIsTrue`,
below).

* **SessionProofs**: types, and every safety property of `days` and `queue`.
  `SchedInv` strengthens `AtMostOncePerDay`: the durable row is at least as recent
  as memory, a job has run only on days up to it, and a job still to run has not run
  on that day.  `GateInv`, `QueueInv` and their like say where a sweep, a row or a
  drop can be between the steps of an iteration.
* **OrderRouterProofs**: types, and the safety properties, one order of a symbol at a
  time among them, from `LockInv` (a thread inside holds the lock and its id is
  unknown), `OrderInv` (an order without an answer is in flight or forgotten) and
  `AuditInv`, and the refinement: every step maps to a
  step of OnceOrders or a stutter.
* **ConnectionProofs**, the three small machines between the engine and the broker.
  Escalation: the safety properties from `EscalationInv`: the engine goes on
  only from an order that it ended itself.  A later stage asks for the whole quantity
  again, so each earlier one may add at most one less than it (`OverfillIsBounded`).
  RateLimiter: `BudgetInv`: what a window has spent and what the bucket still
  holds is at most the capacity and what the time since its beginning refilled.
  `WaitInv` bounds how long a thread has waited, so only one that was late or outrun is
  refused.  Watchdog: `RecoveryInv` follows the way from a failed heartbeat to the tick,
  on which no branch avoids the sync.
* **StopsProofs**: types, and the safety properties of `stops`.  One lemma shows
  that each step sends an order, fills one, or drops some without disowning a live
  one; it carries the types and the rows.  `HaltInv` adds that no trade of a plan is
  under way in a halted session, `SweepInv` that what works during a sweep is still to
  be swept, was kept, or its cancel failed.  `CleanInv` follows a reconcile that nothing
  disturbs: what it read is what is there, so the position it leaves has a recorded stop
  that works (`ReconcilesProtect`).
* **RebalanceProofs**: types, and the safety properties of `rebalance`.  `SumOf` is
  monotone, moves by what one symbol moves, and is no less than each symbol's part; the
  rounding of `compute_plan` to whole shares never passes the target (`TrimFits`,
  `TopupFits`).  A plan is of the positions or of no book at all (`PlanHasABook`): the
  types hold of both, the other invariants speak of `clean` plans.  `TrimInv`: what a trim
  will still sell is held and does not cover a call, whatever else fills first.
  `TopupInv`: `Committed` counts positions, orders in flight and top-ups still to come
  together, which is what `running_gross` keeps below the cap; it is needed because the
  risk core checks each top-up against fills only.  `ReversalInv` (`Settled`, symbol by
  symbol) places the lowest and the highest position that the orders in flight can lead to
  above or below the target, so that a partial fill or a lapse between two plans changes
  nothing.
* **OverlayProofs**: types, and all safety properties of `overlay`.  `SumBy...` and
  `SumMonotone` say of the community modules' `SumFunctionOnSet` how a sum follows one
  change of its function or set; the types rest on them, for the size of a leg and the
  shorts of a snapshot.  `PlanInv`: a plan is of one overlay, its long leg first and
  covering its short.  `SentInv`: of the current plan exactly the legs before the present
  one were sent.  `CoverIsPlaced` and `AnswersAreTrue` follow from these two.  For
  `CoveredAtRest`, `Rest` is the book once the orders that work have filled, which no
  fill changes.  `BookInv` says that it is `Hedged`, which is stronger than covered: of
  each right no more is written than the shares cover, but for the pair of one plan.
  Covered alone is not inductive: a later plan may write the very contract whose long
  covers an earlier short.  `Hedged` holds again after each short leg, since the risk core
  counts what was written before it and none of the earlier longs.  `Snapshot` ties the
  shorts read at the beginning of a plan to that book, `LongsKept` keeps the long leg of
  the plan until its short is sent, `FarKept` does so for the longs of diagonals, which
  later plans never write.  A confirmed leg
  never works again, since the broker gives each order an id of its own.
* **IngressProofs**: the properties of rows follow from lemmas on `Payload`, by cases of
  the label, for any row; `TruncatedScore` bounds what the adapter loses by cutting a
  score off before it rounds, and `MarkedAreNoTrades` is about the marks that are seen.
  `FileInv` ties the place of a file to the step of its writer and to what it carries, and
  says that what the webhook wrote is rejected only if it is `unread`; `PollInv` ties the
  batch, the collected files and `handed`.  `WeightInv` says, date by date, whose weights
  are in the table and on the disk, unless a file of the date repeats a symbol: such a
  file stays in the inbox or ends in `rejected/` (`RepeatingStays`).
* **ProjectionProofs**: types, and all safety properties of `projection` but one:
  `BrokerInv` (deals and orders), `ShownInv` (positions are those of the last answer),
  `PerfInv`, `FillInv` (what a sync covered is in the fills), and for
  `PositionsAreExplained` also `JobsInvariant` (the steps still to take are a well-formed
  rest of the jobs of a day) and `SyncInv` (a report is gathered and a sync completed in
  their order).  `OnceInv` counts the posts of a day against the answers that were lost.
  `RowsInv` says that a live row is one deal, and a paper order has one row, which is of
  all it dealt unless it was projected early; `FillsAddUp` sums the rows of an order,
  which on a live account are at most as many as its deals.  That the fills cover a deal
  (`Projected`) follows from the weaker fact that some row of its order is there, which is
  what survives each step, by `RecordedIsProjected`, unless the order is `Frozen`.  The
  types rest on these, on `QtyInv` (an order that works has dealt less than its quantity)
  and on `PostsInv` (the posts of a day are no more than the attempts, since its report is
  fired once).

A sum over a set, as the community modules define it, is a function that some `CHOOSE`
gives.  What it is for every finite set is shown from the uniqueness of that function, by
a least element: a lemma `Induction`, stated for sets of numbers since the one of the
library takes an operator, stands at the head of the modules that need it.

Only model-checked: the liveness properties (`DeferredResolves`, `EveryCallEnds`,
`OutagesPass`, `PlansEnd`, `EveryAcquireEnds`, `InboxDrains`), which are out of the
prover's reach; and `RealizedIsTrue`, which is not a theorem of the model: the average
cost is a fraction in the code and a whole number in the model, rounded at each buy, so
that a unit-by-unit history and one with the buys put together may round differently.  The
prices of the instance are such that every average is whole, and there the fold says what
the code computes.  The refuted property (`stops_short`) is of course not proved.

## 5. Where the code departs from what it says

With a run (see `findings`): the stop that outlives its position opens a short.

Seen while modelling, without a run of their own.  Session and engine:

* the halt is "for the day" (risk_check.py), but lives in the memory of EntryGate: a
  restart on the same day opens the gate in its catch-up ENTRY_OPEN and flushes
  deferred BUYs before a risk check can halt again;
* "flatten all + cancel all" (risk_check.py): `cancel_all` follows the flattening SELLs
  at once and cancels those that are not filled yet, and the stops with them;
* a short option leg is sent when its cover is acked, not filled: when the long leg
  rests until the end of the day and lapses, the short is naked, against "it is never
  a naked short" (RUNBOOK.md); the same when a covered call is sent while the SELL of
  another works, or when an equity exit sells shares that cover a call.  Dropping
  `calm` from `CoveredAtRest` shows the first two;
* the cover of a second spread or diagonal counts the shorts of the first but not its
  longs (risk_core.py): the second long leg is bought and its short then rejected, and
  every further one leaves `OVERLAY_RESIDUAL_LONG`;
* a residual is "long-only", but an UNKNOWN ack of the short leg gives the same answer
  and the broker may have it; and the answer REJECTED_BY_RISK or ORDER_REJECTED is
  given while a long leg that was not confirmed still works;
* two entries sent one after the other pass the caps of the risk core on the same
  positions and may exceed them together, and so may an entry and a plan;
* an over-cap position cannot be lowered in part: the position cap of the risk core
  holds for reduce-only SELLs too;
* with capped limits the price of a top-up is above the quote it was sized for, so one
  that was clamped exactly at a cap is rejected;
* `rebalance` does not look at `snap.stale` (main.py:767-773).  When the position query of
  its snapshot fails, `positions` is empty (moomoo_broker.py:341-347) and it plans on an
  empty book: no trim, and a top-up to the full target of each symbol, held or not.  Each
  leg is then checked with a snapshot of its own that may have the positions
  (main.py:672-679): a cap refuses it, or it buys again what an earlier plan trimmed, and
  such top-ups together may pass `MaxGross`.  `consolidate_stop` then sizes the stop to a
  `new_total_qty` that leaves out the shares held before.  `CapsHold` and `NoReversal`
  exempt such a plan: dropping `book = position` from `clean` shows both;
* the round id of a rebalance is the date of its targets (main.py:774).  With the
  default staleness limit of 24 hours one snapshot is rebalanced once; when the limit is
  raised, or the same targets are ingested again, the same trade of two days has one
  client order id and the router answers the second from `_seen`; `consolidate_stop`
  then cancels the working stop and its replacement is never sent;
* an escalated SELL may exceed the position: each stage is checked against the snapshot
  from before the partial fill (main.py:382), so the long-only rule of risk_core.py
  passes it;
* `main.shutdown` cancels the protective stops with everything else;
* a SELL whose fresh snapshot shows no position falls through to `size_position`
  (main.py:272) and is then refused by the long-only rule;
* a restart after 15:30 fires ENTRY_OPEN and RISK_SWEEP in one poll, and the flush of
  the first buys outside the 09:45-15:30 window of RUNBOOK.md;
* a HALT outlives its day when the process does, and a HALT keeps the deferred rows of
  its process from resolving;
* an entry that was flushed and ordered is replayed when the process dies before
  `delete_state` (main.py:227), on the same day; "a
  stale duplicate never fires" (main.py:117-118);
* when the ack line cannot be written, `submit` raises with the order placed and
  nothing in `_seen`: a retry with the same id places it again (`forgotten` counts it);
* after `max_attempts` the watchdog returns False and remembers nothing: the next call
  finds a healthy heartbeat and resumes without a sync;
* `attach_trailing_stop` answers True for any ack, a REJECTED or UNKNOWN one included,
  so the reconcile raises no UNPROTECTED alert for it;
* "exactly one working trailing stop" (stops.py) fails after a second entry of a held
  symbol: each attach places a stop, and `consolidate_stop` cancels the newest only; the
  reconcile keeps two stops of a held symbol, and one that is smaller than the position;
* the reconcile that could not read the account "retries next lifecycle run"
  (stops.py:47), and `cancel_all` leaves a failed cancel to "the next lifecycle
  reconcile": that is the one of the next day.

Limiter and ingress:

* "15 orders/30 s" (rate_limiter.py:3-5): a full bucket and its refill let nearly twice
  as many through in one window; `WindowBudget` is what the code does keep;
* weights that repeat a symbol violate the primary key of `target_weights` (db.py:85);
  `sqlite3.IntegrityError` is not among what the poll catches (inbox.py:73), so every
  later poll raises at that file, against "never crashing the loop" (inbox.py:6), and
  the connection keeps the half-done statement without a rollback;
* the order of a poll is "deterministic" by name (inbox.py:61-63), but names are random:
  two sweeps of one moment are taken in any order;
* the poll catches `OSError` with the validation errors (inbox.py:73): when a valid file,
  answered 202 before, cannot be read at one poll, it goes to `rejected/` and is never
  tried again; `AcceptedIsKept` exempts the files of which that is known;
* a sender that repeats a sweep whose 202 was lost enqueues it twice;
* a valid row keeps its direction whatever its label or `changed` says, a coerced one is
  dropped for them: whether a body is coerced decides what such a row means;
* coercion replaces a `transition` that has not two members (coerce.py:143-145) and drops
  an overlay it does not know: a row that means an overlay, and is dropped on the strict
  path, becomes a plain order of shares as soon as another row has the body coerced.  The
  schema on its side does not know an `event` or a `catalyst`.  `MarkSeen` says which
  marks each path sees; without the exemptions for marks `MarkedNeverPlain` and
  `SamePathSameSignal` are violated;
* the schema takes a numeral in quotes, coercion does not, so a valid row may lose its
  points when its body is coerced; the adapter's `int()` raises on a quoted score that is
  not whole and drops the whole sweep;
* the adapter cuts a score off before it rounds (routine_adapter.py:96), the webhook
  rounds what it was given: 45.9 is a confidence of 4 to the one and of 5 to the other,
  and 5.9 no trade and a trade;
* the adapter ignores `changed` and `direction`, skips a ticker that two markets allow,
  and reads a bare ticker by the allow-list where the webhook assumes US; it writes no
  `portfolio_targets`.

Projection and report:

* EOD_CANCEL records the performance without a sync, though runner.py:117 says that it
  mirrors RISK_SWEEP;
* a paper order that was partly filled when it was first projected keeps that quantity
  for good, for its id is never written again (db.py:199, moomoo_broker.py:428-432 has it
  match), however many syncs follow and whatever the positions show: `FillsAreTrue`,
  `SyncedIsKept` and `PositionsAreExplained` exempt these orders (`early`);
  its time is the last update of the order, so a BUY may sort after the SELL of what it
  bought;
* realized P&L ignores the multiplier of 100 of an option, counts the premium of a
  sell-to-open whole and a buy-to-close not at all;
* a protective put or a collar over shares held from before is labelled "Strategy" and
  reported as HEDGE LEG MISSING; any two calls pass for a CALL_DIAGONAL
  (classify.py:37-38), which is why `HedgeClaimsAreProven` exempts it; two overlays of
  one underlying on one day are classified together;
* a sync of the watchdog between EOD_CANCEL and EOD_REPORT makes the activity and the
  header of one report differ.

## 6. Abstractions

Session: inbox files are whole drops and one poll takes them all; drops are equity
BUYs; the strategy's tick and the broker's side of a job are left out.  OrderRouter:
the section under the global lock is one step; the broker does not recognise an id
it has seen (MoomooBroker stores it as a remark only).  Escalation and Stops: an
acked cancel is final; an order whose ack was lost is accepted at once or never in
Stops, at once, late or never in Escalation.  Stops: one symbol; a step is one broker
call with the code up to the next one, except that `Exit` and `Flatten` take their
snapshot and send in one step; caps other than long-only, the gate's open window and
the escalation of its orders are left out; trailing stops are enabled.  Watchdog: a
backoff has no length.  Rebalance: prices are constant and the average cost is the
price, so total assets are constant; fractions are exact where the code has floats;
premiums of options are left out of the exposure; orders are MARKET, so the risk core
sees the quote; targets, and short calls, stay as they are.  Overlay: one underlying
whose shares do not change; premiums, budgets and the loss limit are a free choice of
the risk core; the branches for a stock leg are dead code (no entry of `REGISTRY` sets
`opens_stock`); a FILLED ack is an order that fills before the first look.

RateLimiter: a call is refused or served at a tick; the real clock is finer.  Ingress: a
file is the request or drop that made it, with a random name, hence polls in any order;
of a body it is kept which rows it has and whether the rest is valid; signatures, sizes
and the audit of refused requests are left out.  A row has a direction, a label, a
score, points, a ticker, an overlay, the dialect of its keys, whether its numbers are
quoted and the mark by which it means an overlay, as the values the mappings tell apart;
scores and points are in tenths, which is as fine as the rounding at 5 and the cutting
off can tell; an empty ticker is a missing one.
Projection: one underlying; orders deal one unit at a time and leave no trace before the
first; a query and the write of its answer are one step where no other step can tell;
prices in the instance are such that averages are whole; RISK_CHECK and RISK_SWEEP are
one slot.  Stops: client order ids never repeat.

## 7. Done, open, and not modelled

Done, in this order: Session; OnceOrders and OrderRouter; Escalation; Watchdog; Stops;
RiskCore and Rebalance; Overlay; RateLimiter; Payload and Ingress; Report and
Projection; proofs of the safety properties of all of them.

Open:

1. **Portfolio**: Rebalance with the stops of Stops, the rows of Ingress and the `_seen`
   of OrderRouter in one model, for the round ids that repeat and the trims that race a
   stop.  Each part alone is near the limit of what TLC finishes in minutes.
2. **Realized P&L**: Report over exact fractions, as Rebalance has its weights, so that
   `RealizedIsTrue` can be stated for all prices.
3. **Protection**: Stops under a fair schedule, as the liveness of "a held position has a
   working stop".

### Not modelled

* `strategies/`, `breakout_reference.py`: comparisons of float prices with a reference of
  the day, without state that outlives a call; a model would repeat them.
* `config.py`: reads the environment once.
* `dashboard/`: a read-only view and a readiness probe; it sends no order.
* `skills/moomooapi/`: vendored scripts of the vendor's SDK, most of the lines of the
  repository; the engine imports one helper module, whose answers are those of the
  broker in the models.
* Of the reporting: the text of the report, the economics of a strategy and the capital
  flow, which are arithmetic on floats and formatting.
* Of the ingress: the signature and the limits of a request, the hard stops and the
  catalysts of a sweep, which travel beside a signal.
* Of the options: the selection of contracts by delta and premium; the models let it
  return any contract that the shape of an overlay allows.
* `sim_broker.py`: the broker of the tests.
