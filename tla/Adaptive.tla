------------------------------ MODULE Adaptive ------------------------------
(***************************************************************************)
(* The factors by which a one-way market's profile is scaled               *)
(* (catalog/adaptive.py), from the latest snapshots and, for the           *)
(* hysteresis, from the factors that are cached.  The collector writes the *)
(* snapshots, in a process of its own; the quoter asks for the profile on  *)
(* every recompute (engine.py, _recompute_locked).                         *)
(*                                                                         *)
(* Factors, thresholds and the hysteresis of a fifth are in tenths, volumes *)
(* in the unit of the thresholds; an average is a pair, sum and count.     *)
(***************************************************************************)
EXTENDS Integers, Sequences, FiniteSets, FiniteSetsExt

CONSTANTS
    Buckets,       \* the buckets there may be: [volume, mood]
    RecentBuckets, \* how many count (12 in the code)
    MinBuckets,    \* min_buckets_normal
    VolLow, VolMid, VolHigh,   \* vol_thresholds
    PanicBase, GapBase         \* ow_panic_toxicity, in hundredths; ow_wall_min_gap_ticks

ASSUME AdaptiveAssumption ==
    /\ Buckets \subseteq [volume : Nat, mood : {"low", "normal", "high"}]
    /\ MinBuckets \in 1..RecentBuckets /\ RecentBuckets \in Nat
    /\ VolLow \in Nat /\ VolMid \in Nat /\ VolHigh \in Nat
    /\ 0 < VolLow /\ VolLow < VolMid /\ VolMid < VolHigh
    /\ PanicBase \in Nat /\ GapBase \in Nat

VARIABLES
    noOrder,   \* new_market_no_order, of the configuration
    recent,    \* the latest rows of the snapshot table, newest first
    due,       \* recalc_interval_s have passed since the last recalculation
    factors,   \* the market's entry in the cache
    profile,   \* what of the scaled profile depends on the factors
    \* history
    same,      \* no bucket since the last recalculation
    entered    \* the average at which the volume factor was entered

adaptVars == <<noOrder, recent, due, factors, profile, same, entered>>

Factors(vol, regime, few) == [vol |-> vol, regime |-> regime, few |-> few]
NoFactors == Factors(0, 0, TRUE)
Cached    == factors # NoFactors

-----------------------------------------------------------------------------
(* AdaptiveEngine._calc_factors.                                           *)

AverageOf(S) == <<SumFunctionOnSet([i \in S |-> recent[i].volume], S), Cardinality(S)>>

\* The average of the buckets below three times their average, if any is.
AverageVolume ==
    LET all   == AverageOf(DOMAIN recent)
        usual == {i \in DOMAIN recent : recent[i].volume * all[2] < 3 * all[1]}
    IN  IF usual = {} THEN all ELSE AverageOf(usual)

Below(avg, tenths) == 10 * avg[1] < tenths * avg[2]

\* Mutant: no hysteresis.
ThresholdsAlike == <<10 * VolLow, 10 * VolMid, 10 * VolHigh>>

\* Mutant: the threshold of a fall is above that of a rise.
ThresholdsRaised ==
    <<IF Cached /\ factors.vol = 7 THEN 12 * VolLow ELSE 10 * VolLow,
      IF Cached /\ factors.vol = 10 THEN 12 * VolMid ELSE 10 * VolMid,
      IF Cached /\ factors.vol = 15 THEN 12 * VolHigh ELSE 10 * VolHigh>>

\* _adjust_thresholds_with_hysteresis: only the fall from where it is.
Thresholds ==
    <<IF Cached /\ factors.vol \in 7..9 THEN 8 * VolLow ELSE 10 * VolLow,
      IF Cached /\ factors.vol \in 10..14 THEN 8 * VolMid ELSE 10 * VolMid,
      IF Cached /\ factors.vol >= 15 THEN 8 * VolHigh ELSE 10 * VolHigh>>

\* calc_vol_factor
VolFactor(avg) ==
    IF Below(avg, Thresholds[1]) THEN 3
    ELSE IF Below(avg, Thresholds[2]) THEN 7
    ELSE IF Below(avg, Thresholds[3]) THEN 10
    ELSE 15

\* A mood's share of the buckets is at least so many hundredths.
Share(mood, hundredths) ==
    100 * Cardinality({i \in DOMAIN recent : recent[i].mood = mood}) >= hundredths * Len(recent)

\* calc_vol_regime_factor
RegimeFactor ==
    LET low  == IF Cached /\ factors.regime <= 8 THEN 64 ELSE 80
        high == IF Cached /\ factors.regime >= 15 THEN 40
                ELSE IF Cached /\ factors.regime > 8 THEN 60
                ELSE 50
    IN  IF Share("low", low) THEN 8 ELSE IF Share("high", high) THEN 15 ELSE 10

NewFactors ==
    IF recent = << >> THEN Factors(IF noOrder THEN 0 ELSE 3, 15, TRUE)
    ELSE IF Len(recent) < MinBuckets THEN Factors(5, 12, TRUE)
    ELSE Factors(VolFactor(AverageVolume), RegimeFactor, FALSE)

-----------------------------------------------------------------------------
(* AdaptiveCache.maybe_update and adapt_profile.                           *)

\* Relative to the old value.  The one change of exactly a fifth that decides
\* anything, from 1.0 to 0.8, comes out as less in floating point.
FifthOff(new, old) ==
    LET change == IF new > old THEN new - old ELSE old - new IN 10 * change > 2 * old

\* A factor of zero cannot be compared with: ZeroDivisionError.
Raises(new) == Cached /\ factors.few = new.few /\ factors.vol = 0

Replaces(new) ==
    \/ ~Cached
    \/ factors.few # new.few
    \/ FifthOff(new.vol, factors.vol)
    \/ FifthOff(new.regime, factors.regime)

\* Half to even, as round() does it.
RoundTenths(n) ==
    IF n % 10 > 5 \/ (n % 10 = 5 /\ (n \div 10) % 2 = 1) THEN n \div 10 + 1 ELSE n \div 10

\* base_size_usdc and q_max_usdc by their factor, in tenths of the base.
Adapt(f) ==
    LET gap   == RoundTenths(GapBase * f.regime)
        panic == (10 * PanicBase) \div f.regime
    IN  [size |-> f.vol, gap |-> IF gap < 1 THEN 1 ELSE gap,
         panic |-> IF panic < 30 THEN 30 ELSE panic]

-----------------------------------------------------------------------------
(* get_profile, by a recompute; while it is not due nothing changes.  When *)
(* it raises, so does the recompute, and the next.                         *)

Recalculate ==
    LET new  == NewFactors
        used == IF Replaces(new) THEN new ELSE factors
    IN
    /\ due \/ ~Cached
    /\ ~Raises(new)
    /\ factors' = used
    /\ profile' = Adapt(used)
    /\ due' = FALSE
    /\ same' = TRUE
    /\ entered' = IF used.few THEN <<0, 0>>
                  ELSE IF factors.few \/ used.vol # factors.vol THEN AverageVolume
                  ELSE entered
    /\ UNCHANGED <<noOrder, recent>>

IntervalPasses ==
    /\ ~due
    /\ due' = TRUE
    /\ UNCHANGED <<noOrder, recent, factors, profile, same, entered>>

\* The collector stores the row of the next bucket.
NextSnapshot(bucket) ==
    LET all == <<bucket>> \o recent IN
    /\ recent' = IF Len(all) > RecentBuckets THEN SubSeq(all, 1, RecentBuckets) ELSE all
    /\ same' = FALSE
    /\ UNCHANGED <<noOrder, due, factors, profile, entered>>

\* The cache is in memory only.
EngineRestarts ==
    /\ Cached
    /\ factors' = NoFactors
    /\ profile' = Adapt(Factors(10, 10, FALSE))
    /\ due' = TRUE
    /\ same' = FALSE
    /\ entered' = <<0, 0>>
    /\ UNCHANGED <<noOrder, recent>>

AdaptInit ==
    /\ noOrder \in BOOLEAN
    /\ recent = << >> /\ due = TRUE /\ factors = NoFactors
    /\ profile = Adapt(Factors(10, 10, FALSE))
    /\ same = FALSE /\ entered = <<0, 0>>

AdaptNext ==
    \/ Recalculate \/ IntervalPasses \/ EngineRestarts
    \/ \E bucket \in Buckets : NextSnapshot(bucket)

AdaptSpec == AdaptInit /\ [][AdaptNext]_adaptVars

-----------------------------------------------------------------------------
\* Every variable has its type; the panic threshold is not below 0.3.
AdaptTypeOK ==
    /\ noOrder \in BOOLEAN /\ due \in BOOLEAN /\ same \in BOOLEAN
    /\ recent \in Seq(Buckets) /\ Len(recent) <= RecentBuckets
    /\ factors.vol \in {0, 3, 5, 7, 10, 15} /\ factors.regime \in {0, 8, 10, 12, 15}
    /\ factors.few \in BOOLEAN
    /\ profile.size \in {0, 3, 5, 7, 10, 15} /\ profile.gap >= 1 /\ profile.panic >= 30

\* A recalculation without a new snapshot changes nothing: the factors that
\* one adopts are those the thresholds they move in turn lead to again
\* (adaptive.py:9, :156-172, :371-391).
SteadyFactors == [][same /\ factors' # NoFactors => UNCHANGED <<factors, profile>>]_adaptVars

\* The thresholds are more than a fifth apart, as the defaults are
\* (config.py:236).  Without it a fall by two steps may take less.
WideThresholds ==
    10 * VolLow <= 8 * VolMid /\ 10 * VolMid <= 8 * VolHigh

\* Positions are scaled down, among markets with enough snapshots, only after
\* the average has lost a fifth of what it was when the factor was entered,
\* whatever became of it in between (adaptive.py:373-391).
FallsOnRealDrop ==
    [][Cached /\ ~factors.few /\ factors' # NoFactors /\ ~factors'.few /\ factors'.vol < factors.vol
        => 10 * AverageVolume[1] * entered[2] < 8 * entered[1] * AverageVolume[2]]_adaptVars
=============================================================================
