------------------------------- MODULE OneWay -------------------------------
(***************************************************************************)
(* The one-way accumulator (strategy/one_way.py) around its loop: the      *)
(* market moves, days pass and the fair value of the profile decays, the   *)
(* ladders of bids and offers are built anew, the plan of reconcile keeps  *)
(* what is within the profile's tolerances and replaces the rest, orders   *)
(* are filled.                                                             *)
(*                                                                         *)
(* Prices are in tenths of a tick, for the fair value of the profile and   *)
(* its multiples lie between two prices; sizes are in the smallest share   *)
(* of an order.  Only one of the two tokens is traded.  The market's fair  *)
(* value is that of the YES token also when the NO token is worked.  How a *)
(* plan fares on its way to the exchange is left to OrderSync.             *)
(***************************************************************************)
EXTENDS QuotePlan

CONSTANTS
    OwGrid,                \* ticks between 0 and 1
    FvInitial, FvStart, FvEnd,   \* the profile's fair value and its days; 0 for no day
    BuyLayers, SellLayers,
    Pyramid,               \* ow_pyramid_shares, in tenths
    OwBase, OwQMax,        \* base_size_usdc, q_max_usdc
    OwMin,                 \* min_order_size
    OwInvLow, OwInvMid,    \* ow_inv_low, ow_inv_mid, in hundredths
    OwRepriceTicks,        \* reprice_ticks
    OwResizeNum, OwResizeDen,   \* resize_frac
    Gaps,                  \* the gaps that the volatility calls for, in ticks
    WallOffsets,           \* how far over the best offer walls may be, in ticks
    OwScales,              \* the risk manager's size scales, in halves
    OwStarts,              \* the positions the engine may start with
    OwMaxHeld, LastDay, OwRounds   \* bounds: the position, days, recomputes

ASSUME OneWayAssumption ==
    /\ OwGrid \in Nat \ {0} /\ FvInitial \in Nat /\ FvStart \in Nat /\ FvEnd \in Nat
    /\ BuyLayers \in Nat \ {0} /\ SellLayers \in Nat \ {0}
    /\ Pyramid \in Seq(0..10) /\ Pyramid # << >>
    /\ OwBase \in Nat /\ OwQMax \in Nat /\ OwMin \in Nat \ {0}
    /\ OwInvLow \in 0..100 /\ OwInvMid \in 0..100 /\ OwRepriceTicks \in Nat
    /\ OwResizeNum \in Nat /\ OwResizeDen \in Nat \ {0}
    /\ Gaps \subseteq Nat \ {0} /\ OwScales \subseteq 0..2 /\ WallOffsets \subseteq Nat
    /\ OwMaxHeld \in Nat /\ OwStarts \subseteq 0..OwMaxHeld /\ LastDay \in Nat /\ OwRounds \in Nat

VARIABLES
    owLive,     \* the orders that rest
    owHeld,     \* the position
    owDay,
    \* history and bounds
    owSlack,    \* by how much the offers may be more than the position
    owBid,      \* the best bid that the recompute saw, if that was the last step
    owWorth,    \* what that recompute might come to hold, at its prices
    owRound

owVars == <<owLive, owHeld, owDay, owSlack, owBid, owWorth, owRound>>

T     == 10                 \* a tick
Whole == OwGrid * T
NoTop == 0
Prices1 == {T * i : i \in 1..(OwGrid - 1)}

Smaller(m, n) == IF m < n THEN m ELSE n
Bigger(m, n)  == IF m > n THEN m ELSE n
Apart1(m, n)  == IF m < n THEN n - m ELSE m - n

\* round(price, dec)
Rounded(x) == T * ((x + T \div 2) \div T)

Order1(side, price, size) == [token |-> "traded", side |-> side, price |-> price, size |-> size]

\* The tolerances of the profile.
OwTolerance == [tick |-> T, ticks |-> OwRepriceTicks, num |-> OwResizeNum, den |-> OwResizeDen]

-----------------------------------------------------------------------------
(* What the strategy is given.                                             *)

\* calc_fair_value: linear between the two days, nothing after the second.
CalcFairValue(day) ==
    IF FvEnd = 0 THEN FvInitial
    ELSE IF day >= FvEnd THEN 0
    ELSE IF FvStart = 0 \/ FvEnd <= FvStart \/ day < FvStart THEN FvInitial
    ELSE (FvInitial * (FvEnd - day)) \div (FvEnd - FvStart)

\* The traded token's book: both sides, or offers only, or none; the walls are
\* the offers of others that are large.
OwBooks ==
    {b \in [bid : Prices1 \cup {NoTop}, ask : Prices1 \cup {NoTop}] :
        b.bid < b.ask \/ (b.bid = NoTop /\ b.ask = NoTop)}

WallsOf(b) == IF b.ask = NoTop THEN {{}} ELSE SUBSET {b.ask + T * k : k \in WallOffsets}

\* What the market says a share is worth, of this token or of the other one.
MarketFairValues(b) ==
    IF b.bid = NoTop THEN {T} ELSE {b.bid, (b.bid + b.ask) \div 2, Whole - b.ask}

\* What bids and offers are built from alike.
Markets1 ==
    UNION {[book : {b}, fv : MarketFairValues(b), gap : Gaps, nearEnd : BOOLEAN] : b \in OwBooks}

-----------------------------------------------------------------------------
(* The bids.                                                               *)

\* Mutant: the position is valued at a tick a share.
UtilAtFloor(stock, fv, level) == stock * T * 100 < level * OwQMax * Whole

\* util is what is held, at the market's fair value, of q_max_usdc; the level
\* is in hundredths.
UtilBelow(stock, fv, level) == stock * Bigger(fv, T) * 100 < level * OwQMax * Whole

CanBuy(in, reduce, stock) ==
    /\ ~in.nearEnd /\ ~reduce
    /\ in.book.bid # NoTop /\ in.book.ask # NoTop
    /\ UtilBelow(stock, in.fv, OwInvMid)

\* The first bid at the touch or under it, the others down from the fair value
\* of the profile, each at least a tick under the one before.
BuyPrices(in, up, our) ==
    LET top    == Smaller(Smaller(in.fv, (our * 6) \div 5), in.book.bid)
        layers == IF up THEN Bigger(1, BuyLayers - 1) ELSE BuyLayers
        price[i \in 1..layers] ==
            IF i = 1 THEN top
            ELSE LET next == our - (i - 1) * in.gap * T
                 IN  IF next >= price[i - 1] THEN price[i - 1] - T ELSE next
    IN  price

\* Layers past the last weight take the last weight.
Weight(i) == Pyramid[Smaller(i, Len(Pyramid))]

BuyQuotes(in, up, reduce, scale, our, stock) ==
    LET prices   == BuyPrices(in, up, our)
        quarters == scale * (IF UtilBelow(stock, in.fv, OwInvLow) THEN 2 ELSE 1)
        size(i)  == (OwBase * Weight(i) * quarters * Whole) \div (40 * Bigger(prices[i], T))
        all      == [i \in DOMAIN prices |->
                        Order1("BUY", Rounded(prices[i]), IF prices[i] > 0 THEN size(i) ELSE 0)]
    IN  IF CanBuy(in, reduce, stock) THEN Picked(all, {i \in DOMAIN all : all[i].size >= OwMin}) ELSE << >>

-----------------------------------------------------------------------------
(* The offers.                                                             *)

\* How many: none in a panic; one when they are dear and the market is low.
SellCount(in, panic, dear, low) ==
    IF panic THEN 0 ELSE IF dear /\ low /\ ~in.nearEnd THEN 1 ELSE SellLayers

\* The guard against an offer under the one before it compares with a
\* prev_price that is never set (one_way.py:330, :350).
PrevPrice == 0

SellPrice(in, our, low, i) ==
    LET top   == Bigger(Smaller(in.fv, (our * 4) \div 5), in.book.ask)
        next  == our + (i - 1) * in.gap * T
    IN  IF i = 1
        THEN IF low THEN in.book.ask ELSE top
        ELSE IF next <= PrevPrice THEN PrevPrice + in.gap * T ELSE next

\* _adjust_price_for_wall: of the levels a tick below, at and a tick above the
\* price, the first with a wall of someone else's, and a tick less.
AdjustForWall(walls, price) ==
    LET levels == <<price - T, price, price + T>>
        walled == {i \in 1..3 : \E w \in walls : 2 * Apart1(w, levels[i]) < T}
    IN  IF walled = {} THEN price
        ELSE levels[CHOOSE i \in walled : \A j \in walled : i <= j] - T

\* Mutant: every layer offers the whole position.
SellSizeWhole(stock, count) == stock

SellSize(stock, count) == stock \div count

SellQuotes(in, walls, panic, dear, our, stock) ==
    LET low       == ~(in.book.ask # NoTop /\ in.book.ask > our)
        count     == SellCount(in, panic, dear, low)
        size      == SellSize(stock, count)
        prices    == [i \in 1..count |-> SellPrice(in, our, low, i)]
        priced    == Picked(prices, {i \in 1..count : prices[i] < Whole})
        clear(p) == AdjustForWall(walls, IF in.book.bid = NoTop THEN p ELSE Bigger(p, in.book.bid + T))
    IN  IF stock < OwMin \/ count = 0 \/ (low /\ in.book.ask = NoTop) \/ size < OwMin
        THEN << >>
        ELSE [i \in DOMAIN priced |-> Order1("SELL", Rounded(clear(priced[i])), size)]

-----------------------------------------------------------------------------
(* The loop.                                                               *)

Indices(orders, side) == {i \in DOMAIN orders : orders[i].side = side}

\* What the position and the bids that rest would be worth once filled, 0
\* without bids.
WorthOf(live, fv, stock) ==
    IF Indices(live, "BUY") = {} THEN 0
    ELSE stock * fv
         + SumFunctionOnSet([i \in DOMAIN live |-> live[i].price * live[i].size], Indices(live, "BUY"))

BuyLadders(in, our, stock) ==
    {BuyQuotes(in, up, reduce, scale, our, stock) :
        up \in BOOLEAN, reduce \in BOOLEAN, scale \in OwScales}

SellLadders(in, our, stock) ==
    {SellQuotes(in, walls, panic, dear, our, stock) :
        walls \in WallsOf(in.book), panic \in BOOLEAN, dear \in BOOLEAN}

LaddersFor(in, day, stock) ==
    {[stock |-> stock, day |-> day, bid |-> in.book.bid, fv |-> in.fv, quotes |-> b \o s] :
        b \in BuyLadders(in, CalcFairValue(day), stock), s \in SellLadders(in, CalcFairValue(day), stock)}

\* The ladders that a recompute may want, by position and day.
OwWanted ==
    UNION {LaddersFor(in, day, stock) : in \in Markets1, day \in 0..LastDay, stock \in 0..OwMaxHeld}

\* A recompute finds that it wants w; its plan is executed in full.
OwRequote(w) ==
    LET after == Executed(Reconcile(w.quotes, owLive, OwTolerance), owLive) IN
    /\ w.stock = owHeld /\ w.day = owDay /\ owRound < OwRounds
    /\ owRound' = owRound + 1
    /\ owLive' = after
    /\ owSlack' = (OwResizeNum * owHeld) \div OwResizeDen
    /\ owBid' = w.bid
    /\ owWorth' = WorthOf(after, w.fv, owHeld)
    /\ UNCHANGED <<owHeld, owDay>>

\* No recompute was the last step.
NoRecompute == owBid' = NoTop /\ owWorth' = 0

\* A halt or an event pulls everything.
OwPull ==
    /\ owLive # << >>
    /\ owLive' = << >> /\ owSlack' = 0 /\ NoRecompute
    /\ UNCHANGED <<owHeld, owDay, owRound>>

\* An order is matched, in full or for a share; what is sold is held.
OwFill(i, n) ==
    LET o == owLive[i] IN
    /\ n \in {1, o.size}
    /\ IF o.side = "BUY" THEN owHeld + n <= OwMaxHeld ELSE n <= owHeld
    /\ owHeld' = owHeld + (IF o.side = "BUY" THEN n ELSE -n)
    /\ owLive' = IF n = o.size THEN RemoveAt(owLive, i) ELSE [owLive EXCEPT ![i].size = @ - n]
    /\ NoRecompute
    /\ UNCHANGED <<owDay, owSlack, owRound>>

NextDay ==
    /\ owDay < LastDay
    /\ owDay' = owDay + 1 /\ NoRecompute
    /\ UNCHANGED <<owLive, owHeld, owSlack, owRound>>

OwInit ==
    /\ owLive = << >> /\ owHeld \in OwStarts /\ owDay = 0
    /\ owSlack = 0 /\ owBid = NoTop /\ owWorth = 0 /\ owRound = 0

OwNext ==
    \/ \E w \in OwWanted : OwRequote(w)
    \/ OwPull
    \/ \E i \in DOMAIN owLive : \E n \in 1..owLive[i].size : OwFill(i, n)
    \/ NextDay

OwSpec == OwInit /\ [][OwNext]_owVars

-----------------------------------------------------------------------------
\* The bids of a whole ladder, at most: the money of its layers, each price
\* rounded up by a third, then off by reprice_ticks of a price of a tick or
\* more, each size off by resize_frac; in 30 OwResizeDen-ths of a dollar.
LadderWeight == SumFunctionOnSet([i \in 1..BuyLayers |-> Weight(i)], 1..BuyLayers)
LadderCost   == OwBase * LadderWeight * (4 + 3 * OwRepriceTicks) * (OwResizeDen + OwResizeNum)

\* A whole ladder fits over ow_inv_low and half a ladder over ow_inv_mid
\* (one_way.py:215-224, :278).  The defaults do (config.py:121-122, :130-131,
\* :197, :206-207); the profile of config/strategy.toml:132-172 does not.
LadderFits ==
    /\ 10 * LadderCost <= 3 * OwResizeDen * (100 - OwInvLow) * OwQMax
    /\ 5 * LadderCost <= 3 * OwResizeDen * (100 - OwInvMid) * OwQMax

\* Every variable has its type.  A price of zero or of one is possible: the
\* ladder looks at prices before they are rounded (one_way.py:268, :282, :354,
\* :368), and without bids nothing keeps an offer over the floor (:358).
OwTypeOK ==
    /\ owHeld \in Nat /\ owDay \in 0..LastDay /\ owRound \in 0..OwRounds
    /\ owSlack \in Nat /\ owBid \in Prices1 \cup {NoTop} /\ owWorth \in Nat
    /\ \A i \in DOMAIN owLive :
          /\ owLive[i].price \in {T * k : k \in 0..OwGrid}
          /\ owLive[i].size >= 1

\* What is offered.
Offered == SumFunctionOnSet([i \in DOMAIN owLive |-> owLive[i].size], Indices(owLive, "SELL"))

\* At any time, through fills of bids and offers and through recomputes that
\* keep some layers and replace others, what is offered exceeds the position by
\* no more than resize_frac of what the last recompute saw held
\* (one_way.py:361, reconciler.py:54).
SellsCovered == Offered <= owHeld + owSlack

\* A recompute that bids cannot come to hold more than q_max_usdc at its
\* prices, with the bids that it keeps (one_way.py:215-224, :278).
WorthBounded == owWorth <= OwQMax * Whole

\* An offer that a recompute places is above the best bid: "post-only SELL must
\* rest strictly above the best bid" (one_way.py:357; tests/test_one_way.py:120-122).
OffersOverBid ==
    [][owBid' # NoTop =>
          \A i \in Indices(owLive', "SELL") :
              owLive'[i] \notin Range(owLive) => owLive'[i].price > owBid']_owVars

\* Each offer that a recompute wants is above the one before it (one_way.py:347,
\* "sells must be strictly above the layer before", in Chinese; :348-349 names
\* the case).
SellsAscend ==
    \A w \in OwWanted : \A i, j \in Indices(w.quotes, "SELL") :
        i < j => w.quotes[i].price < w.quotes[j].price
=============================================================================
