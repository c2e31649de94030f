----------------------------- MODULE MakerQuotes -----------------------------
(***************************************************************************)
(* The two-sided maker (strategy/quoting.py) around its loop: the market   *)
(* moves, the quotes are constructed, the plan is executed, orders are     *)
(* filled, complete sets are merged.                                       *)
(*                                                                         *)
(* Prices are in half ticks, so that a fair value can fall between two     *)
(* prices, and sizes are in shares; a quotient of the code is rounded down *)
(* to that unit.  The volatility is in price units as well, with c_vol = 1 *)
(* and gamma = 1/2.  The NO book mirrors the YES book at the exchange, but *)
(* the engine may not have it yet.  How a plan fares on its way to the     *)
(* exchange is left to OrderSync.                                          *)
(***************************************************************************)
EXTENDS QuotePlan

CONSTANTS
    PlanTick,              \* the tick size, in the unit of the prices
    RepriceTicks,          \* reprice_ticks
    ResizeNum, ResizeDen,  \* resize_frac
    GridSize,      \* ticks between 0 and 1
    Vols,          \* the short volatilities that occur
    Nudges,        \* what the order flow adds to the microprice
    Scales,        \* the size scales, in quarters
    DeltaMin, MinEdge, LayerCount, LayerStep,   \* of the profile, in ticks
    BaseSize,      \* base_size_usdc
    QMax,          \* the inventory at which u = 1
    SoftNum, SoftDen,   \* q_soft_frac
    ExchangeMin, RewardFloor, RewardBand,
    Starts,        \* positions that the engine may find on the chain when it starts
    MaxStart,      \* bound: shares of a token held at the start
    MaxRounds,     \* bound: recomputes
    MaxFills       \* bound: shares matched

ASSUME PlanAssumption ==
    /\ PlanTick \in Nat \ {0} /\ RepriceTicks \in Nat
    /\ ResizeNum \in Nat /\ ResizeDen \in Nat \ {0}

ASSUME MakerAssumption ==
    /\ GridSize \in Nat \ {0} /\ Vols \subseteq Nat /\ Nudges \subseteq Int /\ Scales \subseteq 0..4
    /\ DeltaMin \in Nat \ {0} /\ MinEdge \in Nat /\ LayerCount \in Nat /\ LayerStep \in Nat
    /\ BaseSize \in Nat /\ QMax \in Nat \ {0} /\ SoftNum \in Nat /\ SoftDen \in Nat \ {0}
    /\ ExchangeMin \in Nat \ {0} /\ RewardFloor \in Nat /\ RewardBand \in Nat 
    /\ MaxStart \in Nat /\ Starts \subseteq [{"yes", "no"} -> 0..MaxStart]
    /\ MaxRounds \in Nat /\ MaxFills \in Nat

VARIABLES
    makerLive,     \* the orders that rest
    makerHeld,     \* the positions, by token
    \* history and bounds
    makerPlan,     \* what a second look at the same quotes would do: "none" since a fill
    makerSlack,    \* by how much a token's exit may be over its position
    makerRounds,   \* recomputes
    makerFills     \* shares matched

makerVars == <<makerLive, makerHeld, makerPlan, makerSlack, makerRounds, makerFills>>

\* The tolerances of the maker's profile.
MakerTolerance == [tick |-> PlanTick, ticks |-> RepriceTicks, num |-> ResizeNum, den |-> ResizeDen]

Tokens == {"yes", "no"}
One    == GridSize * PlanTick
Grid   == {PlanTick * i : i \in 1..(GridSize - 1)}
NoLevel == 0

Lesser(m, n)  == IF m < n THEN m ELSE n
Greater(m, n) == IF m > n THEN m ELSE n
Clamp(x, lo, hi) == Lesser(Greater(x, lo), hi)
OnGrid(x) == Clamp(x, PlanTick, One - PlanTick)

Quote(token, side, price, size) == [token |-> token, side |-> side, price |-> price, size |-> size]

\* round_to_tick
RoundDown(x) == OnGrid(PlanTick * (x \div PlanTick))

\* Mutant: an exit is not kept off one.
RoundUpRaw(x) == PlanTick * ((x + PlanTick - 1) \div PlanTick)

RoundUp(x) == OnGrid(PlanTick * ((x + PlanTick - 1) \div PlanTick))

-----------------------------------------------------------------------------
(* What the strategy is given.                                             *)

\* A market that can be priced has both sides of the YES book.
Views == {v \in [bid : Grid, ask : Grid] : v.bid < v.ask}

NoBook == [bid |-> NoLevel, ask |-> NoLevel]
Mirror(v) == [bid |-> One - v.ask, ask |-> One - v.bid]

\* compute_fair_value: the microprice lies between the best prices.
FairValues(v) == {OnGrid(x + nudge) : x \in v.bid..v.ask, nudge \in Nudges}

Inputs(v) ==
    [regime : {"QUIET", "TRENDING", "REDUCE_ONLY", "EVENT"}, fv : FairValues(v), vol : Vols,
     scale : Scales, urgency : {0, 2}, yesView : {v}, noView : {Mirror(v), NoBook}]

-----------------------------------------------------------------------------
(* construct_maker_quotes and its helpers.                                 *)

\* The inventory, in QMax-ths.
NetOf(h) == Clamp(h["yes"] - h["no"], -QMax, QMax)

Skew(in, h) == (in.vol * NetOf(h)) \div (2 * QMax)

\* At least the base; in QUIET no wider than the band of the rewards.
HalfSpread(in) ==
    LET base == DeltaMin * PlanTick
        wide == base + in.vol
    IN  IF in.regime = "QUIET" /\ RewardBand > 0
        THEN Clamp(wide, base, Greater(base, RewardBand))
        ELSE wide

\* Mutant: a bid joins the touch whatever it is worth.
BidAtTouch(target, view, fv) == RoundDown(IF view.bid # NoLevel THEN view.bid ELSE target)

\* _place_bid: at most the edge under the fair value, join the touch, stay
\* behind the ask.
PlaceBid(target, view, fv) ==
    LET edge   == Lesser(target, fv - MinEdge * PlanTick)
        joined == IF view.bid # NoLevel THEN Lesser(edge, view.bid) ELSE edge
    IN  RoundDown(IF view.ask # NoLevel /\ joined >= view.ask THEN view.ask - PlanTick ELSE joined)

\* _size_shares, the scale in quarters, times what the inventory leaves.
SizeShares(price, in, long) ==
    LET regimeScale == IF in.regime = "TRENDING" THEN 1 ELSE 2
    IN  (BaseSize * One * in.scale * regimeScale * (QMax - Greater(long, 0)))
            \div (price * 4 * 2 * QMax)

\* _add_layers: so many layers that each can reach half of the floor.
AddLayers(token, top, total) ==
    LET floor  == Greater(RewardFloor, ExchangeMin)
        fits   == {n \in 1..Greater(1, LayerCount) : n = 1 \/ 2 * (total \div n) >= floor}
        layers == CHOOSE n \in fits : \A k \in fits : k <= n
        split  == total \div layers
        per    == IF 2 * split >= floor /\ split < floor THEN floor ELSE split
        levels == [i \in 1..layers |-> Quote(token, "BUY", top - (i - 1) * LayerStep * PlanTick, per)]
    IN  IF total <= 0 \/ per < ExchangeMin
        THEN << >>
        ELSE Picked(levels, {i \in 1..layers : levels[i].price > 0})

\* One token's entry: not when the inventory is at the soft cap.
Entry(token, in, target, view, fv, long) ==
    LET price == PlaceBid(target, view, fv)
    IN  IF in.regime = "REDUCE_ONLY" \/ long * SoftDen >= SoftNum * QMax
        THEN << >>
        ELSE AddLayers(token, price, SizeShares(price, in, long))

\* _maybe_exit: between the passive price and the touch, as the urgency says,
\* in halves.
Exit(token, in, h, view, fv) ==
    LET passive == fv + HalfSpread(in)
        floor   == IF view.bid # NoLevel THEN view.bid + PlanTick ELSE passive
        urgency == IF in.regime = "REDUCE_ONLY" THEN Greater(in.urgency, 1) ELSE in.urgency
        walked  == (passive * (2 - urgency) + floor * urgency) \div 2
        target  == IF view.bid # NoLevel THEN Greater(walked, floor) ELSE walked
    IN  IF h[token] < ExchangeMin
        THEN << >>
        ELSE <<Quote(token, "SELL", RoundUp(target), h[token])>>

MakerConstruct(in, h) ==
    LET reserve == in.fv - Skew(in, h)
        delta   == HalfSpread(in)
    IN  IF in.regime = "EVENT"
        THEN << >>
        ELSE Entry("yes", in, reserve - delta, in.yesView, in.fv, NetOf(h))
             \o Entry("no", in, One - reserve - delta, in.noView, One - in.fv, -NetOf(h))
             \o Exit("yes", in, h, in.yesView, in.fv)
             \o Exit("no", in, h, in.noView, One - in.fv)

-----------------------------------------------------------------------------
(* The loop.                                                               *)

\* The quotes that a recompute may want, with the positions it wants them for.
Wanted ==
    {[held |-> h, quotes |-> MakerConstruct(in, h)] :
        in \in UNION {Inputs(v) : v \in Views}, h \in [Tokens -> 0..(MaxStart + MaxFills)]}

\* A recompute finds that it wants w; its plan is executed in full.
Requote(w) ==
    LET targets == w.quotes
        after   == Executed(Reconcile(targets, makerLive, MakerTolerance), makerLive)
    IN
    /\ w.held = makerHeld /\ makerRounds < MaxRounds
    /\ makerRounds' = makerRounds + 1
    /\ makerLive' = after
    /\ makerPlan' = IF IsNoop(Reconcile(targets, after, MakerTolerance), after)
                    THEN "settled" ELSE "open"
    /\ makerSlack' = [t \in Tokens |-> (ResizeNum * makerHeld[t]) \div ResizeDen]
    /\ UNCHANGED <<makerHeld, makerFills>>

\* One share of an order is matched.
MakerFill(i) ==
    LET o     == makerLive[i]
        after == makerHeld[o.token] + (IF o.side = "BUY" THEN 1 ELSE -1)
    IN
    /\ after >= 0 /\ makerFills < MaxFills
    /\ makerFills' = makerFills + 1
    /\ makerHeld' = [makerHeld EXCEPT ![o.token] = after]
    /\ makerLive' = IF o.size = 1
                    THEN RemoveAt(makerLive, i)
                    ELSE [makerLive EXCEPT ![i].size = @ - 1]
    /\ makerPlan' = "none"
    /\ UNCHANGED <<makerSlack, makerRounds>>

\* A complete set is merged.
MakerMerge ==
    /\ \A t \in Tokens : makerHeld[t] > 0
    /\ makerHeld' = [t \in Tokens |-> makerHeld[t] - 1]
    /\ makerSlack' = [t \in Tokens |-> makerSlack[t] + 1]
    /\ makerPlan' = "none"
    /\ UNCHANGED <<makerLive, makerRounds, makerFills>>

MakerInit ==
    /\ makerLive = << >> /\ makerPlan = "none" /\ makerRounds = 0 /\ makerFills = 0
    /\ makerSlack = [t \in Tokens |-> 0]
    /\ makerHeld \in Starts

MakerNext ==
    \/ \E w \in Wanted : Requote(w)
    \/ \E i \in DOMAIN makerLive : MakerFill(i)
    \/ MakerMerge

MakerSpec == MakerInit /\ [][MakerNext]_makerVars

-----------------------------------------------------------------------------
Resting(token, side) ==
    {makerLive[i] : i \in {j \in DOMAIN makerLive : makerLive[j].token = token /\ makerLive[j].side = side}}

\* Every variable has its type: prices are on the grid, sizes positive.
MakerTypeOK ==
    /\ makerHeld \in [Tokens -> 0..(MaxStart + MaxFills)]
    /\ \A i \in DOMAIN makerLive :
          /\ makerLive[i].token \in Tokens /\ makerLive[i].side \in {"BUY", "SELL"}
          /\ makerLive[i].price \in Grid /\ makerLive[i].size \in Nat \ {0}
    /\ makerPlan \in {"none", "settled", "open"} /\ makerSlack \in [Tokens -> Nat]
    /\ makerRounds \in 0..MaxRounds /\ makerFills \in 0..MaxFills

-----------------------------------------------------------------------------
(* When no pair of bids that the plan keeps can cost more than its set.    *)
(* The defaults allow for a volatility under the reward band (config.py    *)
(* :114, :130); the profile of config/strategy.toml:53, :69 does not.      *)

\* The half-spread of a quiet market; no other market has a smaller one.
QuietSpread(vol) ==
    Clamp(DeltaMin * PlanTick + vol, DeltaMin * PlanTick,
          IF RewardBand > 0 THEN Greater(DeltaMin * PlanTick, RewardBand)
          ELSE DeltaMin * PlanTick + vol)

\* Half of the volatility, rounded up: the greatest skew.
HalfVol(vol) == (vol + 1) \div 2

\* The tolerance for a price is at most the minimum half-spread; the grid has
\* room for a bid at the lowest price, moved by the tolerance and one tick; and
\* the half-spread of a quiet market is over the skew by the tolerance less a
\* tick.
ToleranceIsSmall ==
    /\ RepriceTicks <= DeltaMin /\ RepriceTicks + 2 <= GridSize
    /\ \A vol \in Vols : HalfVol(vol) + (RepriceTicks - 1) * PlanTick < QuietSpread(vol)

-----------------------------------------------------------------------------
\* However the market moved between two recomputes and whatever the tolerance
\* kept, a YES bid and a NO bid that rest together do not cost more than the
\* set they complete (quoting.py:13-14).
PairNoLoss ==
    \A y \in Resting("yes", "BUY"), n \in Resting("no", "BUY") : y.price + n.price <= One

\* A plan that was executed is settled: the same quotes call for nothing more
\* (reconciler.py:37-38).
PlanSettles == makerPlan # "open"

\* At any time, through fills, merges and recomputes, a token has one exit at
\* the most, and it is over the position by no more than resize_frac of what
\* the last recompute saw held and the sets merged since then
\* (quoting.py:255-257, reconciler.py:54).
ExitsCovered ==
    \A t \in Tokens :
        /\ Cardinality({i \in DOMAIN makerLive :
                           makerLive[i].token = t /\ makerLive[i].side = "SELL"}) <= 1
        /\ \A o \in Resting(t, "SELL") : o.size <= makerHeld[t] + makerSlack[t]
=============================================================================
