----------------------------- MODULE RegimeGate -----------------------------
(***************************************************************************)
(* What a market is allowed to quote, and when its quoter looks: the       *)
(* regime machine (strategy/regime.py), the risk decision it obeys         *)
(* (RiskManager.evaluate) and the quoter's timer (engine.py, _quoter,      *)
(* _next_wake_s, _recompute_locked).                                       *)
(*                                                                         *)
(* Time is in ticks and kept relative: `cool` is what is left of the EVENT *)
(* cool-off, `timer` what is left of the quoter's sleep.  The loop runs a  *)
(* task that is ready within the tick.  What other parts decide (caps, kill*)
(* switches, order flow) is any value at each recompute.                   *)
(***************************************************************************)
EXTENDS Integers

CONSTANTS
    CoolOff,     \* event_cooloff_s
    BaseTick,    \* quoter_tick_s
    HeldTick,    \* the shorter tick of a quoter that holds inventory (10 s)
    StaleHalt,   \* ws_stale_halt_s
    Hours,       \* the distances to the end date, negative when it is past
    HaltBefore, ReduceOnly,   \* halt_before_hours, reduce_only_hours
    MaxAwait     \* bound: how long a recompute awaits the gateway

ASSUME GateAssumption ==
    /\ CoolOff \in Nat \ {0} /\ BaseTick \in Nat \ {0} /\ HeldTick \in Nat \ {0}
    /\ StaleHalt \in Nat \ {0} /\ MaxAwait \in Nat /\ Hours \subseteq Int
    /\ HaltBefore \in Nat /\ ReduceOnly \in Nat

VARIABLES
    cool,       \* cooloff_remaining
    sweep,      \* the market's entry in _sweep
    jumped,     \* the fair value is event_jump_ticks or more off est.last_fv
    down,       \* ticks since the market websocket went down, 0 while it is up
    readable,   \* the YES book has two sides and is not crossed
    held,       \* inventory of at least min_order_size
    dirty,      \* the market's event is set
    timer,      \* what is left of the quoter's wait
    task,       \* the quoter's await, with its plan
    resting,    \* what rests at the exchange
    \* history
    owed,       \* what is left of the cool-off a toxic print calls for
    lost,       \* its flag was consumed by a recompute that was halted
    skipped     \* the last recompute ended before it came to a plan

gateInputs  == <<jumped, down, readable, held>>
gateHistory == <<owed, lost, skipped>>
gateVars == <<cool, sweep, gateInputs, dirty, timer, task, resting, gateHistory>>

\* What rests, weakest first: nothing, exits, exits and entries.
Nothing  == 0
Exits    == 1
Entries  == 2
Quotings == Nothing..Entries

Regimes == {"HALTED", "EVENT", "REDUCE_ONLY", "TRENDING", "QUIET"}
Asleep  == [at |-> "sleep", plan |-> Nothing, regime |-> "QUIET", spent |-> 0]
GateUnknown == -1

GateLeast(n, k) == IF n < k THEN n ELSE k
GateMost(n, k)  == IF n > k THEN n ELSE k

Dec(n) == GateMost(n - 1, 0)

-----------------------------------------------------------------------------
(* RegimeMachine.                                                          *)

\* _hours_to_end: an end date in the past says nothing.
HoursToEnd(h) == IF h > 0 THEN h ELSE GateUnknown

Within(h, window) == h # GateUnknown /\ h <= window

\* The market link has been down for too long; the user link and the heartbeat
\* are among the halts that any recompute may find.
MarketStale == down > StaleHalt

\* Mutant: a halted market looks at its events first, so that they never count.
EventsLast(halt, h, jump, reduce, lively) ==
    IF halt THEN "HALTED"
    ELSE IF reduce THEN "REDUCE_ONLY"
    ELSE IF sweep \/ jump \/ cool > 0 THEN "EVENT"
    ELSE "QUIET"

\* RegimeMachine.decide, the first case that applies.
Regime(halt, h, jump, reduce, lively) ==
    IF halt \/ MarketStale \/ Within(h, HaltBefore) THEN "HALTED"
    ELSE IF sweep \/ jump \/ cool > 0 THEN "EVENT"
    ELSE IF reduce \/ Within(h, ReduceOnly) THEN "REDUCE_ONLY"
    ELSE IF lively THEN "TRENDING"
    ELSE "QUIET"

\* A fresh event restarts the cool-off.
CoolAfter(regime, jump) ==
    IF regime = "EVENT" /\ (sweep \/ jump) THEN CoolOff ELSE cool

\* What the strategies ask for in a regime; a calm one may ask for less.
Plans(regime) ==
    CASE regime \in {"HALTED", "EVENT"} -> {Nothing}
      [] regime = "REDUCE_ONLY"         -> {Nothing, Exits}
      [] OTHER                          -> Quotings

\* _next_wake_s: at the end of a cool-off and half a second, sooner with
\* inventory, never later than the base tick.
NextWake(c) ==
    LET base == IF c > 0 THEN GateLeast(BaseTick, c + 1) ELSE BaseTick
    IN  GateMost(1, IF held THEN GateLeast(base, HeldTick) ELSE base)

-----------------------------------------------------------------------------
(* The quoter.                                                             *)

\* The quoter waits again; its timer starts now.
Sleep(c) ==
    /\ task' = Asleep
    /\ timer' = NextWake(c)

Ready == task.at = "sleep" /\ (dirty \/ timer = 0)

\* A book that cannot be priced ends the recompute before anything else, and
\* so does an exception, such as that of Adaptive's Raises.
SkipRecompute ==
    /\ Ready
    /\ dirty' = FALSE
    /\ skipped' = TRUE
    /\ Sleep(cool)
    /\ UNCHANGED <<cool, sweep, gateInputs, resting, owed, lost>>

\* The recompute up to its first await: to the plan, to one that calls for
\* nothing, or to an exception (the snapshot table that cannot be read) in
\* between.  An adaptive profile that just switched brings new estimators,
\* which know no former fair value.
Recompute(halt, h, reduce, lively, switched) ==
    LET jump   == jumped /\ ~switched
        regime == Regime(halt, HoursToEnd(h), jump, reduce, lively)
    IN
    /\ Ready /\ readable
    /\ sweep' = FALSE
    /\ jumped' = FALSE
    /\ cool' = CoolAfter(regime, jump)
    /\ lost' = (lost \/ (sweep /\ regime = "HALTED"))
    /\ dirty' = FALSE
    /\ \/ \E plan \in Plans(regime) :
             /\ plan # resting \/ plan # Nothing
             /\ task' = [at |-> "cancel", plan |-> plan, regime |-> regime, spent |-> 0]
             /\ skipped' = FALSE /\ UNCHANGED timer
       \/ resting \in Plans(regime) /\ skipped' = FALSE /\ Sleep(cool')
       \/ skipped' = TRUE /\ Sleep(cool')
    /\ UNCHANGED <<down, readable, held, resting, owed>>

\* The cancels went through, what the plan keeps stays.
Canceled ==
    /\ task.at = "cancel"
    /\ \E kept \in Nothing..GateLeast(resting, task.plan) : resting' = kept
    /\ IF task.plan = Nothing
       THEN Sleep(cool)
       ELSE task' = [task EXCEPT !.at = "place"] /\ UNCHANGED timer
    /\ UNCHANGED <<cool, sweep, gateInputs, dirty, gateHistory>>

\* Mutant: after a failed cancel the quoter waits for its tick.
CancelForgotten ==
    /\ task.at = "cancel" /\ resting # Nothing
    /\ Sleep(cool)
    /\ UNCHANGED <<cool, sweep, gateInputs, dirty, resting, gateHistory>>

\* A cancel that fails ends the recompute, which is repeated at once.
CancelFailed ==
    /\ task.at = "cancel" /\ resting # Nothing
    /\ dirty' = TRUE
    /\ Sleep(cool)
    /\ UNCHANGED <<cool, sweep, gateInputs, resting, gateHistory>>

\* The quotes are placed, or some are refused and the quarantine sweeps what
\* its cancels reach.
Placed ==
    /\ task.at = "place"
    /\ resting' \in Nothing..task.plan
    /\ Sleep(cool)
    /\ UNCHANGED <<cool, sweep, gateInputs, dirty, gateHistory>>

\* Load shedding in the calm regimes, or a soft rejection: try again soon.
PlaceLater ==
    /\ task.at = "place"
    /\ \/ task.regime \in {"QUIET", "TRENDING"} /\ UNCHANGED resting
       \/ \E accepted \in resting..task.plan : resting' = accepted
    /\ dirty' = TRUE
    /\ Sleep(cool)
    /\ UNCHANGED <<cool, sweep, gateInputs, gateHistory>>

-----------------------------------------------------------------------------
(* What happens to the market.                                             *)

\* _on_trade: a print that ate through the book flags a sweep; it does not
\* wake the quoter.
ToxicPrint ==
    /\ down = 0 /\ readable
    /\ sweep' = TRUE
    /\ owed' = CoolOff
    /\ lost' = FALSE
    /\ UNCHANGED <<cool, gateInputs, dirty, timer, task, resting, skipped>>

\* The book moves, also by a REST refresh while the link is down.
BookMoves(jump, ok) ==
    /\ <<jump, ok>> # <<jumped, readable>>
    /\ jumped' = jump
    /\ readable' = ok
    /\ dirty' = TRUE
    /\ UNCHANGED <<cool, sweep, down, held, timer, task, resting, gateHistory>>

\* A fill, an order that is done, a correction of the position.
Inventory ==
    /\ held' = ~held
    /\ dirty' = TRUE
    /\ UNCHANGED <<cool, sweep, jumped, down, readable, timer, task, resting, gateHistory>>

LinkDrops ==
    /\ down = 0
    /\ down' = 1
    /\ UNCHANGED <<cool, sweep, jumped, readable, held, dirty, timer, task, resting, gateHistory>>

LinkReturns ==
    /\ down > 0
    /\ down' = 0
    /\ UNCHANGED <<cool, sweep, jumped, readable, held, dirty, timer, task, resting, gateHistory>>

\* The ages beyond which nothing changes any more.
PullTime == StaleHalt + BaseTick + MaxAwait

\* A quoter that is ready has run before time passes; one that awaits the
\* gateway is answered within MaxAwait.
GateTick ==
    /\ ~Ready
    /\ task.at # "sleep" => task.spent < MaxAwait
    /\ task' = IF task.at = "sleep" THEN task ELSE [task EXCEPT !.spent = @ + 1]
    /\ timer' = IF task.at = "sleep" THEN Dec(timer) ELSE timer
    /\ cool' = Dec(cool)
    /\ owed' = Dec(owed)
    /\ lost' = (lost /\ owed' > 0)
    /\ down' = IF down = 0 THEN 0 ELSE GateLeast(down + 1, PullTime + 1)
    /\ UNCHANGED <<sweep, jumped, readable, held, dirty, resting, skipped>>

GateInit ==
    /\ cool = 0 /\ sweep = FALSE /\ jumped = FALSE
    /\ down = 1 /\ readable = FALSE /\ held = FALSE
    /\ dirty = FALSE /\ timer = BaseTick /\ task = Asleep
    /\ resting = Nothing /\ owed = 0 /\ lost = FALSE /\ skipped = FALSE

GateNext ==
    \/ SkipRecompute
    \/ \E halt, reduce, lively, switched \in BOOLEAN, h \in Hours :
          Recompute(halt, h, reduce, lively, switched)
    \/ Canceled \/ CancelFailed \/ Placed \/ PlaceLater
    \/ ToxicPrint
    \/ \E jump, ok \in BOOLEAN : BookMoves(jump, ok)
    \/ Inventory \/ LinkDrops \/ LinkReturns
    \/ GateTick

GateSpec == GateInit /\ [][GateNext]_gateVars

-----------------------------------------------------------------------------
\* Every variable has its type; no time is negative.
GateTypeOK ==
    /\ cool \in 0..CoolOff /\ owed \in 0..CoolOff
    /\ sweep \in BOOLEAN /\ jumped \in BOOLEAN /\ lost \in BOOLEAN /\ skipped \in BOOLEAN
    /\ readable \in BOOLEAN /\ held \in BOOLEAN /\ dirty \in BOOLEAN
    /\ down \in 0..(PullTime + 1)
    /\ timer \in Nat
    /\ task \in [at : {"sleep", "cancel", "place"}, plan : Quotings, regime : Regimes,
                 spent : 0..MaxAwait]
    /\ resting \in Quotings

\* A toxic print is answered for a whole cool-off: until the quoter has seen
\* the flag it is still there, and then the machine cools for at least what is
\* owed.  The one way to lose it is a recompute that was halted, which pops the
\* flag and starts nothing (engine.py:496, regime.py:52).
SweepIsCooled == owed > 0 => sweep \/ cool >= owed \/ lost

\* No recompute after a toxic print decides to quote before the cool-off is
\* over, whatever else it finds (regime.py:58-63).
NoQuoteWhileOwed ==
    [][task.at = "sleep" /\ task'.at # "sleep" /\ task'.plan # Nothing
          => owed = 0 \/ lost]_gateVars

\* A quoter that sleeps through a cool-off wakes within a tick of its end,
\* however it came to sleep (engine.py:365-370: "wake precisely when it ends").
PromptReentry == task.at = "sleep" /\ cool > 0 => timer <= cool + 1

\* A link that is down for longer than the stale limit, a base tick and an
\* await has nothing resting, unless the quoter is just working on it or its
\* last recompute came to no plan (engine.py:451-460).
PulledWhenBlind ==
    task.at = "sleep" /\ down > PullTime /\ ~dirty => resting = Nothing \/ skipped
=============================================================================
