# Verification of polymaker

TLA+ models of polymaker, a market maker for Polymarket binary markets
(Python, one asyncio process), with TLC runs and TLAPS proofs. Line numbers
refer to `src/polymaker/` in the repository.

## 1. The system

All of the engine runs in one event loop. A handler is atomic between two
`await`s; everything hard in this code happens at the awaits, where other tasks
change the state that the awaiting one has already looked at, and at the remote
parties, which lose, delay and repeat what they send.

| part | state | operations | talks to |
|---|---|---|---|
| position ledger (`state/store.py`, `state/tracker.py`) | `positions`, `fills` and `positions` tables, `_inflight`, `_inflight_ts`, `_last_fill_ts`, `_applied` | `apply_fill`, `reconcile_positions`, `mark/clear/expire_inflight`, `on_trade` | fed by the user websocket, corrected by the reconcile loop, tells `RiskManager.note_fill` |
| open orders of a market (`engine.py`, `execution/reconciler.py`, `state/store.py`) | `orders`, the market's event and lock, `_soft_streak`, `_halted`, `_hb_was_down` | quoter, quarantine, reconcile loop, heartbeat recovery, metadata refresh, `on_order` | gateway calls, websocket messages |
| gateway (`execution/gateway.py`) | `_hb_failures`, `soft_rejections`, two buckets | `place`, `cancel`, `cancel_asset`, `open_orders`, `positions`, `token_balances`, `heartbeat` | the exchange, the chain |
| rate budgeter (`execution/ratelimit.py`) | `_tokens`, `_last`, `_lock` | `acquire`, `pressure` | called by the gateway and the quoters |
| risk manager (`risk/manager.py`) | `_net_cash`, marks, error counters, kill flag | `note_fill`, `note_order_result`, `evaluate` | asked by every recompute |
| regime machine (`strategy/regime.py`) | cool-off time, current regime | `decide` | asked by every recompute |
| strategies, estimators (`strategy/`) | filters only | pure functions of a book and a position | called by the recompute |
| market data (`marketdata/`) | books, connection state, pending resyncs | snapshots, deltas, resync, REST refresh | wakes the quoters |
| supervision (`engine.py:113-198`) | task table | start, `_supervise`, shutdown | all tasks |
| adaptive profiles, snapshots (`catalog/adaptive.py`, `catalog/snapshots.py`) | caches, buckets | `maybe_update`, aggregation | read by the recompute |
| merge (`merge.py`, `engine.py:691-713`) | `_merging`, `_chain_lock` | merge of complete sets | the chain |
| catalog, tooling, configuration | none that other parts rely on | HTTP, SQL, command line | - |

What makes each part correct:

* ledger: a fill counts at most once, whatever is repeated or restarted; a REST
  answer never overwrites a fill that has not settled; a lost message blocks
  nothing for ever; positions come back to the chain's.
* open orders: one order per quoted slot; no order the engine does not know of;
  no wake-up lost; a halted market ends up without orders.
* rate budgeter: never more than the budget in any window; every caller served.
* regime and timer: a toxic print is answered by a whole cool-off, whatever the
  next recompute finds; a cool-off that ends is noticed; a dead link leaves
  nothing at the exchange.
* risk: a breaker that trips halts all quoting; failed placements of a market
  are escalated, however the markets' answers mix.
* market data: the local book is the exchange's, or becomes it; no change of it
  goes unseen.
* supervision: no order of an earlier process is quoted over, no order rests
  without the dead-man switch, a dead task comes back.
* merge: transactions of one account do not clash, no merge asks for more than
  the chain holds.
* strategies and plan: two bids never cost more than the set they complete,
  what is offered is held up to the tolerance of the plan, what is bid for stays
  within the limit of a market, a plan that was executed calls for nothing more.
* snapshots and factors: volume is counted once through failed reads and
  crashes, as long as the baseline does not fall; factors do not swing without
  new data.

`PROJECT.json` lists the hazards line by line.

## 2. Modules

| module | role |
|---|---|
| `OnceLedger` | abstract: the life of a fill, unseen, counted, reversed or lost |
| `FillLedger` | the ledger with its database, the websocket, the reconcile loop, the divergence check, the position sync, crashes |
| `MCFillLedger` | instances of it for TLC, and two sentences of the code's comments as properties |
| `FillLedgerProofs` | theorems about `FillLedger` |
| `OrderSync` | the orders of one market: exchange, websocket, quoter, reconcile loop, heartbeat, metadata refresh |
| `MCOrderSync` | instances of it for TLC |
| `MCOrderScenes` | two scenes of it, replacing and halting, for one run |
| `OrderSyncProofs` | theorems about `OrderSync` |
| `TokenBucket`, `MCTokenBucket`, `TokenBucketProofs` | the rate budgeter |
| `RegimeGate` | the regime machine, the sweep flag and the quoter's timer |
| `OrderResults` | the answers to placements of several markets, the shared list of soft rejections, the error-rate breaker |
| `MarketFeed` | one side of a book: websocket, deltas, REST refresh, the quoter that reads it |
| `MergeQueue` | merges of several markets, nonces, receipts, the chain |
| `Supervisor` | start, tasks, shutdown, crash, the next process, the dead-man switch |
| `Selection` | a list comprehension with a condition, used by `QuotePlan` and `OneWay` |
| `QuotePlan` | the minimal plan (`reconcile`), a pure algorithm with the tolerances as a parameter |
| `MakerQuotes` | the two-sided maker in the loop of recomputes, fills and merges; extends `QuotePlan` |
| `OneWay` | the one-way ladders in the loop of recomputes, fills and days; extends `QuotePlan` |
| `Snapshots` | the snapshot collector, its commits and its crashes |
| `Adaptive` | the factors that scale a profile, with their hysteresis |
| `MCEngine` | `MarketFeed`, `MergeQueue` and `Supervisor` side by side for TLC |
| `MCQuoting` | the six modules that decide what is quoted, side by side for TLC |
| `GateProofs` | theorems about `RegimeGate` and `OrderResults` |
| `EngineProofs` | theorems about `MarketFeed`, `MergeQueue`, `Supervisor` and their composition `MCEngine` |
| `SnapshotsProofs` | theorems about `Snapshots` and `Adaptive` |
| `QuotingProofs` | theorems about `QuotePlan`, `MakerQuotes`, `OneWay` and the composition `MCQuoting` |
| `FoldLemmas` | what the folds of the community modules compute, for the proofs |

How the parts meet. `FillLedger` gives the guards that `OrderSync` has as
`inflight`; `OrderSync` takes any target from the strategies, and `MakerQuotes`
and `OneWay` construct the targets and take the execution of a plan for granted.
`RegimeGate` says when a market may quote at all and takes any decision of the
risk manager; `OrderResults` is that manager's breaker and takes any wish to
place. `MarketFeed` wakes the quoter whose timer `RegimeGate` has. `Snapshots`
writes the rows that `Adaptive` reads. Each interface is any value on the side
that reads it, so a property of one module holds whatever the other one does.

`MCEngine` and `MCQuoting` share out a run between machines that have no state
in common: a variable `machine` is chosen at the start and only that machine
moves, so that the states are the sum and not the product of theirs. An
interleaving of two such machines adds nothing to the properties of either.

### FillLedger

`positions`, `inflight`, `lastFill`, `applied` and `netCash` are the fields of
the code. `fills` and `dbPositions` are the two tables, which survive a crash.
Time stamps are ages in ticks: `guardAge` for `_inflight_ts`, `matchAge` for the
time of a fill. `loop` and `sync` hold what a task that awaits has read. One
action per handler: `OnMatched`, `OnConfirmed`, `OnFailed` are the branches of
`on_trade`; a remote read is three steps, issued, answered, used.

The websocket is not a channel but a permission: a message of a trade may be
delivered at any time after the exchange produced it, any number of times or
never. This covers loss, repetition and reordering with no queue to bound.
`MINED` and `RETRYING` change nothing in the code and have no action. Prices are
1, so average prices are left out and cash is in shares. A crash may also fall
between the two commits of `apply_fill` (`CrashInsideApplyFill`).
`credits`, `reversals` and `expired` are history.

### OrderSync

A slot is a token and a side that carry one quote; prices are farther apart than
the reprice tolerance, so a quote matches an order when both are equal; sizes
and the candidate order of the plan are left out. `Targets` lets the strategy
ask for anything except while the market is blind, when it asks for nothing.
`q` is the quoter's await with its plan; the market's lock is held as long as
`q.at # "idle"`. `dirty` is the market's event. The exchange accepts orders
(`live`), its REST API shows an older state of them (`view`), the websocket has
messages under way (`pend`), which a reconnect loses. A token has a guard from
the delivery of its trade message (`WsMatched`) to its settlement (`Settle`).
The reconcile loop reads first and waits for the lock after, as in the code.
The heartbeat recovery and the metadata refresh take no lock, as in the code.

`Fault(kind)` bounds what the outside does wrong: a failed read, cancel, post or
heartbeat, a book that loses a side, a market that closes.

### TokenBucket

Time is relative: `since` is the time since `_last`, `left` what remains of the
holder's sleep. Only the holder of the lock sleeps; `Pressure` refills without
the lock; `Cancel` takes away any waiter. The sleep rounds down, so that a
wake-up may come a clock tick early as asyncio allows, and the loop of `acquire`
then sleeps again. `winAge` and `winGranted` are history: a window that may
open at any moment.

### RegimeGate

Time is in ticks: `cool` is what is left of the cool-off, `timer` of the
quoter's sleep, `down` counts the time without a link. `Recompute` goes from the
guards of `_recompute_locked` through `RegimeMachine.decide` (`Regime`, the first
case that applies) to the first await, and pops the sweep flag in whatever regime
it ends up. What rests is one of three levels (nothing, exits, entries);
`Canceled`, `CancelFailed`, `Placed` and `PlaceLater` are the ways out. An
exception ends a recompute before or after it has consumed the flag. `owed` is
history: what is left of the cool-off that a toxic print calls for.

### OrderResults

Each market has one placement under way, under its own lock; the list of soft
rejections is the gateway's and shared, emptied when any batch goes out and read
when any answer is there. `Answers` are the rejection reasons that `place` tells
apart and `Failures` its exceptions. The positions sync after a soft rejection
is the await at `"sync"`. `unswept` is history.

### MarketFeed

A book is the set of the prices with size on one side. Messages are first in,
first out while the link holds; a message may be missed, one that the parser
drops among them. `refresh` is the maintenance loop with the REST answer it
holds while deltas go on. A drift of either side of the book overwrites both
(`engine.py:901-911`), so the side that is not modelled may cause a correction of
this one. `reader` is the quoter between the clearing of its event and the end of
its recompute. `clean` and `overtaken` are history: whether
a message was missed, or a REST answer overwrote deltas younger than itself.

### MergeQueue

Holdings count complete sets. `lockQueue` is the line for `_chain_lock`, `job`
the await of its head, `mempool` what the account has sent. A task that gives up
on its receipt passes the lock on while its transaction is still under way, as
in the code. Why an amount may be too large is history (`excuse`).

### Supervisor

`stage` is where `start` or `run_forever` is, `status` the task table, `gathered`
the tasks that `asyncio.gather` still awaits (a replacement is not among them).
Orders are of this process or of an earlier one; a post under way when its task
is cancelled may still land. `DeadMan` is the exchange's auto-cancel.

### QuotePlan, MakerQuotes, OneWay

The algorithms are operators in integers (half ticks, tenths of a tick, shares),
each quotient rounded as the unit says, around a small loop: a recompute that
finds any market and wants its quotes, fills, merges or days. Both loops execute
the same plan with the tolerances of their profile (`engine.py:539-541`): a
recompute keeps what rests within `reprice_ticks` and `resize_frac` of a quote and
replaces the rest, so orders of different markets, positions and sizes rest
together. `makerSlack` and `owSlack` are history: the size by which the last plan
may have left more on offer than is held. `owWorth` and `owBid` are what the last
recompute saw, for the two properties about it. The thresholds of the one-way
ladder are constants in hundredths (`OwInvLow`, `OwInvMid`). What volatility, flow and risk give is any value of a small set. `u` is computed
with a fixed `QMax`; in the code `q_max_shares` follows the fair value.

### Snapshots, Adaptive

A collection is a sequence of remote reads and commits, with a crash between any
two; a restart may collect a bucket again. The read of the cumulated volume
(`VolumeAnswers`) fails, or says the total, or says 0 when the answer has no
`volumeNum` (`snapshots.py:526`); the 0 becomes the baseline, and the next total
counts in full. `fallen` is history: by how much the baseline went down. Of a
row's features the model has
volume and trend, the ones that the engine acts on. `Adaptive` computes factors
in tenths from the latest rows and from the factors it has cached.

## 3. Runs

| run | shows | bounds |
|---|---|---|
| `fl_core` | counting once, exact guards, REST sparing unsettled fills, refinement of `OnceLedger` | one token, a BUY and a SELL of 2 on a holding of 2, 1 crash |
| `fl_live` | guards go away, positions converge | the same with guards stale after one tick, every round an audit |
| `fl_failed_cash` | violation: cash of a FAILED trade stays booked | no crash |
| `fl_audit` | violation: the audit overwrites a fill that came during its await | no crash |
| `tb_budget` | budget of every window, length of a sleep, service of every caller | 3 callers, demands 1, 3 and 5, rate 2, burst 5, windows up to 4 ticks |
| `os_scenes` | one order per slot, all orders known, no wake-up lost in batches and halts | two scenes: one slot, 2 prices, 2 orders, no fault; two tokens, one slot each, 1 price, 1 order, 2 halts, no two soft rejections in a row |
| `os_live` | the view converges, a halted market is pulled | one slot, 1 order, 3 disturbances of any kind |
| `os_read` | violation: a failed read leads to two orders in a slot | 1 failed read |
| `os_book` | violation: a market with a broken book is not pulled | 1 broken book, 1 halt |
| `eng_live` | the book follows the exchange's and heals; merges do not clash and end; no order is left behind or quoted over | 3 prices, 2 tick sizes, 2 changes, 2 messages under way, 1 missed; 2 markets, 2 sets each, 3 transactions; 3 tasks, one of them mortal, one quoter and the heartbeat |
| `quoting_safe` | what decides the quotes of a market: cool-offs, timers, breakers, both ladders, snapshots, factors | see below |
| `quoting_offers` | violation: an offer under a wall rests on the best bid | as `quoting_safe`, one recompute, walls at the best offer too |

Bounds of `quoting_safe`, by machine. `RegimeGate`: a cool-off of 2 ticks, ticks
of 3 and 2, a link stale after 1, awaits up to 1, an end date that is past, near,
in the reduce-only window or beyond; the run is complete, nothing counts up.
`OrderResults`: 2 markets, batches of one and two orders, a streak of 3, 6
placements, a sample of 3 and a limit of a half. `MakerQuotes`: a grid of 7
ticks, all books on it, two volatilities, 2 layers, 2 recomputes and 1 fill.
`OneWay`: a grid of 5 ticks, all books on it, walls a tick over the best offer,
2 and 2 layers, nothing or 8 shares to start with, thresholds of 33 and 66 % as
the shipped profile has them, a tolerance of one tick and half a size, 3 days
of which the last has half the fair value, 2 recomputes, fills in full and by
one. A size of 8 in two layers of 4 is the least at which a partly filled layer
is kept and the other replaced. `Snapshots`: 3 buckets, 2 trades, 3 collections
with failed and blank answers, rows kept for 2. `Adaptive`: 5 kinds of buckets
around the thresholds, the last 4 count, 2 are enough.

The types of the machines that run side by side are checked together, as
`EngineTypeOK` and `QuotingTypeOK`. Some invariants are in no run because a
theorem settles them for every instance: `GuardsAreStamped`, `SweepIsCooled`,
`PromptReentry`, `TrippedStays` and `ArmedFirst`. The scenes of `os_scenes` share
out the prices, orders and halts that together are more than TLC can finish; the
theorems hold for all of them at once. No remote call fails in either scene:
lost posts are in `os_live` and a failed read in `os_read`.

These are the smallest at which each machine meets its cases. Two recomputes
are what it takes for an order of an earlier market to rest beside one of a later
market; a third adds no pair of a new kind. One missed message and one REST
answer suffice for a book to go wrong and be put right. Two markets are the
least that share a list, a lock or an account. Two buckets are enough for the
factors and four are where a share of 64 %, 80 % or 40 % is crossed both ways.
`CHECK_DEADLOCK FALSE` is said in `eng_live` and the two runs of quoting only: collections, changes of a
book, placements and recomputes are bounded and a machine whose bounds are used
up stops.

Why these are enough. A BUY and a SELL of one token are what it takes to
interfere: the floor at zero, two guards on one counter, a fill that arrives
during a read. Tokens do not interact in the ledger beyond one cash sum. Two
shares exceed the audit's tolerance of one, so an error is one the audit has to
see. A double order needs two orders, and a batch needs two slots; the ids of
`OrderSync` bound the orders accepted in the whole run, so liveness says what
happens once quoting stops. `Grace` is above `MaxStale` in the safety runs,
which is what the code assumes of its 10 seconds. `SoftLimit` is 2, so that a
resync and the escalation to a quarantine both occur. In the bucket run a demand fits at once, waits, or takes it all, and
the window is longer than a full refill.
`MaxInflightAge`, `AuditEvery`, `RecentFill` are small integers for seconds and
rounds that only the order of events depends on.

Symmetry is used in the runs of `OrderSync` without liveness (order ids and
prices are interchangeable); `CHECK_DEADLOCK` is left on
in all runs but `eng_live`, `quoting_safe` and `quoting_offers`.

## 4. Fairness

* `FillLedger`: the event loop keeps running the reconcile loop, whose
  exceptions are caught (`engine.py:783`), and a position sync; time passes; a
  dead process is started again. The balances are read from four RPC providers
  in turn (`gateway.py:494-516`), so a read that is repeated is answered at
  last: strong fairness of `BalancesAnswered`. Nothing is assumed of the
  exchange or of the websocket: no trade has to settle and no message to arrive.
* `OrderSync`: the quoter wakes at the latest by its timer
  (`engine.py:368-370`); remote calls return; the lagging view catches up; a
  recovered heartbeat is noticed; a guard is settled or expires. `ApplySnapshot`
  needs strong fairness because the quoter takes the lock again and again; the
  lock of asyncio is first come, first served. `Tick` has it because its guard
  stops the clock while a read is at the age bound. A broken book need not heal,
  a halted market need not reopen, and the websocket may say nothing.
* `MarketFeed`: the maintenance loop goes round and a read that is repeated is
  answered at last (strong fairness of `Answer`, which `AnswerFails` competes
  with); the quoter runs. Nothing is assumed of the websocket, which may stay
  down or miss what it likes.
* `MergeQueue`: the head of the line goes on, for each of its calls is answered
  or times out (`merge.py:154`). No transaction has to be mined.
* `Supervisor`: a post lands or is lost, and the exchange's switch fires when it
  hears nothing. No task and no process has to come back.
* In `eng_live` each of these is stated of the machine that runs. `os_scenes` and
  the runs of quoting state no fairness and check no liveness.
* `TokenBucket`: time passes and a task whose sleep is over runs. Nothing is
  assumed of callers.

## 5. Proofs

TLAPS proves these for every value of the constants that meets the assumptions
(`LedgerAssumption`: trades are finitely many, holdings natural, sizes integers;
`BucketAssumption`: rate and burst are positive and the saturation bound fills
the bucket; `OrderAssumption`: there is a token, order ids are finitely many, the
grace is positive).

| theorem | states | argument |
|---|---|---|
| `FillLedgerProofs!TypeCorrect` | `TypeOK` | inductive; the floor keeps shares natural, a guard never goes below none |
| `AtMostOnce` | `AppliedAtMostOnce` | `OnceInv`: the counters follow the rows of `fills`, a reversal has a row of its own, a trade in `applied` was counted. `AppliedAtMostOnce` alone is not inductive: it does not say why a trade with a counted fill cannot pass the gate again |
| `LedgerRefinesOnce` | `CountsOnce` | under `OnceInv` every action moves one entry along `OnceLedger` or none |
| `GuardsCanExpire`, `GuardsExact` | `GuardsAreStamped`, `GuardsCountUnsettled` | `GuardInv`: both together; removing a trade from `applied` takes one from the cardinality of its token's unsettled trades and from no other |
| `RestSpares` | `RestSparesInFlight` | from `GuardInv`: an unsettled trade and no expiry mean a positive guard, which the reconciliation respects |
| `TokenBucketProofs!TypeCorrect` | `TypeOK` | inductive; the refill is capped, a grant takes no more than there is |
| `BudgetKept` | `WithinBudget` | `BudgetInv`: what the window granted plus what the bucket holds now is at most the burst plus the rate over its age |
| `SleepIsExact` | `SleepsJustEnough` | `SleepInv`: at every moment of a sleep what it still brings is what is still missing, up to one rounding; a refill by `pressure` moves both |
| `OrderSyncProofs!OrderTypeCorrect` | `TypeOK` | inductive with two facts more: messages are about orders that exist, and what was placed exists |
| `OrdersAreKnown` | `LiveIsKnown` | under `NoFailures`. `FreshInv`: an open order that a read does not show is younger than the read is old, hence within the grace. `KnownInv`: what is announced as gone is gone, what a cancel closed stays closed, a sweep leaves nothing behind it |
| `OneOrderEach` | `OneOrderPerSlot` | under `NoFailures`. `SlotInv`: what is about to be placed is apart from what stays open; as many new orders as accepted quotes, one for each |
| `HaltIsQuiet` | `QuietHalt` | under `OnlyHalts`. `HaltInv`: a halted market whose event is clear is empty, or its quoter is cancelling all it knows, which by `KnownInv` is all there is |
| `GateProofs!GateTypeCorrect` | `GateTypeOK` | inductive |
| `SweepCooled` | `SweepIsCooled` | inductive with the types: a recompute that pops the flag either starts a full cool-off or was halted; both run down together |
| `NoQuoteInCoolOff` | `NoQuoteWhileOwed` | an action property from `SweepIsCooled`: a plan that quotes found neither flag nor cool-off |
| `ReentryIsPrompt` | `PromptReentry` | the timer is set by the cool-off and the two count down alike; a cool-off only starts in a recompute |
| `PulledInTime` | `PulledWhenBlind` | `GateInv`: a sleeping quoter looks before `PullTime`, a plan that quotes was made with a fresh link. The property itself does not say when the quoter looks next |
| `GateProofs!ResultsTypeCorrect` | `ResultsTypeOK` | inductive |
| `FailuresAreSwept` | `FailuresEscalate` | `EscalationInv`: incomplete placements since the last sweep are at most the streak of soft ones |
| `TrippedForGood` | `TrippedStays` | only an answer changes the rate and only a placement leads to an answer |
| `EngineProofs!LifeTypeCorrect` | `LifeTypeOK` | inductive |
| `ArmedBeforeOrders` | `ArmedFirst` | `ArmedWhenUp`: from the first heartbeat on the switch runs, failed to or has fired |
| `OldOrdersAccounted` | `OldOrdersKnown` | `OldAccounted`: the same from the look at the leftovers on |
| `EngineProofs!NoncesUsedOnce` | `NoncesOnce` | `NonceInv`: while no task has given up, only the head of the line has a transaction under way, and its nonce is the next |
| `NoneRevertsUnexcused` | `RevertsExcused` | `PoolInv` and `AmountsInv`: what is under way for a market and is not excused is covered by what the chain holds |
| `EngineProofs!FeedTypeCorrect` | `FeedTypeOK` | inductive over a typed sequence of messages |
| `NoChangeUnseen` | `SeenIsCurrent` | `EventTellsAll`: the event is cleared before the look and set by every change |
| `BookFollowsWire` | `FollowsWire` | `WireIsTrue`: the newest message under way about a price says what the exchange has there, and where there is none the book does; an induction over the fold that applies the messages |
| `MergeTypeCorrect` | `MergeTypeOK` | `MergeBounded` with `LineOf`: the line for the lock has one place for each market that waits, so its length is a cardinality |
| `EngineTypeCorrect` | `EngineTypeOK` | the three machines side by side: what one proves of its step holds when another moves, for the variables are disjoint |
| `SnapshotsProofs!SnapshotsTyped` | `SnapTypeOK` | inductive with the shape of a collection at each of its awaits |
| `VolumeIsConserved` | `VolumeConserved` | `Accounted`: the rows, what was replaced and what was dropped add up to the baseline less the first one and what it fell by, and between a row and its baseline to the row as well; `Ordered`: no row is younger than the bucket being collected. The sum over the rows changes by one row at a time |
| `StreaksAreSupported` | `StreakSupported` | `Supported`: every row's streak is within the unbroken rises up to it. Cleaning up takes rows away from below, which is why the statement is about the rows that are left |
| `AdaptiveTyped` | `AdaptTypeOK` | inductive over the finitely many factors |
| `FactorsAreSteady` | `SteadyFactors` | `Settled`: with the same rows the factors computed from the ones adopted are these, or not different enough to replace them |
| `FallsAreReal` | `FallsOnRealDrop` | under `WideThresholds`. `EnteredAbove`: when the factor was entered the average was not under its threshold. The property compares two moments and is nothing an invariant of one of them says |
| `QuotingProofs!PlanIsSettled` | a second plan for the same quotes cancels nothing and places nothing | the loop over the quotes is a recursive function; by induction over it, what a quote keeps or places is what the next plan finds first for it |
| `PlanAnswers` | what rests after a plan is one order for each quote, each within the tolerance | the same loop: each quote lands on an order and each order is landed on once |
| `MakerTyped` | `MakerTypeOK` | inductive: prices stay on the grid through every rounding |
| `PlansSettle` | `PlanSettles` | from `PlanIsSettled`, for the quotes of any recompute |
| `ExitsAreCovered` | `ExitsCovered` | `Covered`, at every moment: a plan sets it anew by `PlanAnswers`, for one exit a token is wanted, with what is held, and what is kept for it is within `resize_frac` of that; a fill of the exit takes the same from both, a merge is counted in the slack |
| `PairsDoNotLose` | `PairNoLoss` | under `ToleranceIsSmall`. `PairIInv`: besides the property, every bid leaves room for the tolerance and a tick under 1 (`Roomy`). `PairNoLoss` alone is not inductive: a bid of one recompute may be kept beside a new one of the next |
| `OneWayTyped` | `OwTypeOK` | inductive |
| `OffersAreHeld` | `SellsCovered` | `OwIInv`. By `PlanAnswers` each offer that rests answers an offer of the ladder, one to one (`AnsweredSums`), within `resize_frac` of it; the ladder is within the position (`LaddersAreSafe`), so the sum is within `resize_frac` of it; fills in full and in part take the same from both sides |
| `WorthStaysBounded` | `WorthBounded` | under `LadderFits`, for any thresholds and tolerances: a layer costs at most 4/3 of its weight's share, as a price rounds up by a third at most, and the order that is kept for it is `reprice_ticks` dearer and `resize_frac` larger at most (`BidsAnswerLadder`); a whole ladder is put up below `ow_inv_low`, half of one below `ow_inv_mid` |
| `QuotingTypeCorrect` | `QuotingTypeOK` | the six machines side by side |

`NoFailures` says that no remote call fails and that `MaxStale < Grace`, that is,
no read that is applied is as old as the grace; the book may break and the market
halt at any time, and messages may be late or lost. Without it the three
statements are false: `os_read` is a run where one failed read breaks
`OneOrderPerSlot`. `OnlyHalts` excludes broken books as well, which `os_book`
shows to be needed. Both hold in the runs that check the properties.

The theorems about the other modules rest on the assumption of each module
(`GateAssumption`, `ResultsAssumption`, `SupervisorAssumption`, `MergeAssumption`,
`FeedAssumption`, `PlanAssumption`, `MakerAssumption`, `OneWayAssumption`,
`SnapshotsAssumption`, `AdaptiveAssumption`), which say that times and counts are
natural, limits positive and tasks what they are. Three theorems have a
hypothesis more, about the configuration. `MCQuoting` has TLC evaluate all three
for `quoting_safe` (`RunIsCovered`).

* `ToleranceIsSmall` (`PairsDoNotLose`): `reprice_ticks` is at most
  `delta_min_ticks`, and the skew of a quiet market is under its half-spread by
  the tolerance less a tick. The defaults (`config.py:114`, `:130`) meet the
  first; the profile romania-pm does not, see section 6.
* `WideThresholds` (`FallsAreReal`): the thresholds of the volume are more than a
  fifth apart, as the defaults are (`config.py:236`).
* `LadderFits` (`WorthStaysBounded`): `base_size_usdc` times the sum of the
  weights, times 4/3 and `reprice_ticks`, times 1 and `resize_frac`, is within
  what `ow_inv_low` leaves of `q_max_usdc`, and half of it within what
  `ow_inv_mid` leaves. The defaults (`config.py:121-122`, `:130-131`, `:197`,
  `:206-207`) meet both with room. The shipped profile
  (`config/strategy.toml:132`, `:139`, `:149`, `:172`, with the inherited
  tolerances) meets neither, see section 6.

Every safety invariant and every action property that a passing run checks is
stated by a theorem. Sums, extremes and folds are what the community modules
define by recursion, and the library's induction theorems take a predicate as an
operator, which the provers cannot instantiate. `FoldLemmas` has the induction
with a set in the place of the predicate, from the minimal elements of two
well-founded orders (`WFMin` with the proper subsets of a finite set and with the
natural numbers), and from it the laws that the proofs cite: a sum without one
element, the bounds of a sum, a function defined by recursion on a number.

Model-checked only: every liveness property (`PositionsConverge`, `GuardsClear`,
`AcquireEnds`, `ViewConverges`, `HaltPulls`, `TouchHeals`, `MergesEnd`,
`NothingLeftBehind`). Fairness and `ENABLED` are out of the prover's reach.

No module uses `RECURSIVE`, which the prover cannot handle.

## 6. What the models say about the code

Properties that the code breaks, each a violation run:

* The cash of a FAILED trade is never taken back (`tracker.py:96`,
  `fl_failed_cash`).
* The divergence check corrects tokens that became in flight while it awaited
  the chain (`engine.py:802`, `fl_audit`).
* A failed `open_orders` counts as "no orders" (`gateway.py:642`, `os_read`).
* A halt is not seen while the book is empty, one-sided or crossed
  (`engine.py:424`, `os_book`).
* An offer of the one-way strategy is moved under a wall after it was kept over
  the best bid (`strategy/one_way.py:357-365`), so with a spread of one tick and
  another's wall at the best offer it is quoted at the best bid, where a post-only
  order is rejected (`quoting_offers`). The test of that spread checks nothing any
  more (`tests/test_one_way.py:118-131`).

Weaknesses the models allow for, stated in the properties that pass:

* A crash between the commits of `apply_fill` loses a fill until a remote read
  repairs it: the entry "lost" of `OnceLedger`.
* A restart between MATCHED and FAILED leaves the fill, until the same repair:
  `PositionsConverge` and not a safety property covers it.
* A guard expires by the age of the oldest mark of its token, so a young fill
  can lose its guard: `expired` in `GuardsCountUnsettled` and
  `RestSparesInFlight`.
* Heartbeat recovery and quarantine read with no grace; what the read does not
  show yet may be quoted twice until the next reconcile round. `OneOrderPerSlot`
  therefore holds only without failed calls; after them `ViewConverges` remains.
* `TrippedStays` says what the breaker does and is no praise of it: the error
  rate is over the life of the process, so that a market maker that tripped once
  quotes again only after a restart (`risk/manager.py:80`).
* A halted recompute pops the sweep flag and starts no cool-off: `lost` in
  `SweepIsCooled` and `NoQuoteWhileOwed` (`engine.py:496`).
* A hard failure of one market is taken for a soft one while another market's
  soft rejection is in the list (`AnsweredSoft`); the streak bounds what comes of
  it.
* A REST answer overwrites deltas younger than itself (`overtaken`); the next
  refresh repairs the touch and may leave the levels below (`TouchHeals`).
* A merge that gave up on its receipt may be followed by one with its nonce
  (`gaveUp` in `NoncesOnce`).
* An answer without `volumeNum` is taken for a volume of 0 and saved as the
  baseline (`snapshots.py:526`, `:450-451`). The row of that bucket counts nothing
  and the next one the whole cumulated volume of the market once more: `fallen` in
  `VolumeConserved`.
* A plan keeps orders that are larger than their quotes by `resize_frac`, so what
  is offered may exceed what is held by that much: `makerSlack` in `ExitsCovered`,
  `owSlack` in `SellsCovered`. With four offers of 100 on 400 shares, 15 of the
  first sold and another one replaced, 396.25 are offered on 385.
* A crash between a row and its baseline counts a volume twice (`torn`), a bucket
  that is collected again loses its first volume and compares its second row with
  its first (`again`).

Statements of the code that do not hold, written down in the modules as
properties and in no run:

* "Never down" (`engine.py:165`): `gather` (`engine.py:183`) raises the exception
  of the first task that dies of one and ends the engine before the supervisor
  looks. `Supervisor!NeverDown`.
* Offers ascend (`strategy/one_way.py:347`): the guard compares with a
  `prev_price` that is set to zero and never updated (`:330`, `:350`), so the
  second offer may be at or under the first. `OneWay!SellsAscend`.
* Under `new_market_no_order` a market without rows has volume factor 0, and the
  next comparison divides by it (`catalog/adaptive.py:85`): every recompute of the
  market raises until it has enough rows. `Adaptive!Raises`; `RegimeGate` has such
  an exception as `SkipRecompute`, and quotes that rest are then not pulled
  (`skipped` in `PulledWhenBlind`).
* The regime "low" is to scale by 0.8; coming from 1.0 that is a change of exactly
  a fifth, which floating point makes a little less than the threshold
  (`catalog/adaptive.py:89`), so that it is adopted only with another change.
* A pair costs at most 1 (`strategy/quoting.py:13-17`): with a tolerance above the
  least half-spread it may cost more. The profile romania-pm has
  `reprice_ticks = 3` and `delta_min_ticks = 1` (`config/strategy.toml:53`, `:69`).
  With these, a grid of 9 ticks, no volatility and no reward band, TLC finds two
  recomputes after which a YES bid of 7 ticks rests beside a NO bid of 3: the old
  bid was within the tolerance of the new target and was kept.
  `ToleranceIsSmall` is the hypothesis that excludes this.
* `q_max_usdc` is the greatest notional value of a position
  (`config/strategy.toml:134`, in Chinese). The shipped profile may exceed it a
  little on a cheap token: a whole ladder of 30 is bid below 33 % of 60, half of
  one below 66 %, and a bid that is kept two ticks over its quote may cost twice
  as much. With a tick of 0.001 and a position under 33 %, bids rest at 7, 6, 5
  and 4 ticks, 3,000 shares in the last. The dearer ones fill, the market falls to
  bids of 5 ticks, more fills bring the position to just under 66 %. The half
  ladder wants 3,000 shares at 2 ticks and the plan keeps the 3,000 at 4, for 12 in
  the place of 6: up to 39.6 of shares and 21 of bids. `LadderFits` is the
  hypothesis that excludes this.
* The one-way ladder compares its prices before it rounds them
  (`strategy/one_way.py:268`, `:282`, `:354`, `:368`), so a quote may be at 0 or
  at 1; `OwTypeOK` has both.
* A switch of profiles replaces the estimators (`engine.py:414`), and a jump of
  the fair value across the switch starts no cool-off (`switched` in `Recompute`).

## 7. Not modelled

* Estimators (`strategy/estimators.py`, `strategy/base.py`): exponential filters
  in floating point; what they say is any value where it is used.
* Catalog (`catalog/gamma.py`, `scanner.py`, `scoring.py`, `store.py`): HTTP
  paging, SQL and a formula, with no state another part relies on.
* Configuration, domain types, operator tooling: declarations and I/O.
* In parts that are modelled: average prices, `order_context` rows and PnL rows
  (nothing in the engine reads them back); `drop_untracked_positions`; the
  parsing of the user stream; signing and approvals; the caps, the taper and the
  marks of the risk manager, which are any decision where it is asked; the views
  computed from a book; the merge of a deposit wallet, which goes through a
  relayer; drawdown, percentile and depth of a snapshot; the debounce after an
  event, which only delays a recompute.

## 8. Plan

Done, in the order of importance: ledger, open orders, rate budgeter; regime and
timer, placement results, market data, merges, supervision; plan, both
strategies, snapshots, factors; the theorems for every safety property of the
runs. What would be worth adding:

1. the caps and the taper of the risk manager with two markets that share a
   total, and `q_max_shares` as a function of the fair value in `MakerQuotes`;
2. `OrderSync` with two markets over the gateway of `OrderResults`;
3. a refinement of `OrderSync` by a quoter that takes its targets from
   `MakerQuotes`.
