------------------------------ MODULE Snapshots ------------------------------
(***************************************************************************)
(* The snapshot collector of one market (catalog/snapshots.py; cli.py,     *)
(* snapshot_collector): a process of its own that stores a row per bucket  *)
(* of two hours, from three remote reads, in commits of their own - the    *)
(* row, then the baseline of the cumulated volume - between any two of     *)
(* which it may die.  A restart may collect a bucket a second time.        *)
(*                                                                         *)
(* Of a row's features the model has the volume and the trend, which the   *)
(* engine acts on.  Prices are in ticks; a bucket's last price, when it is *)
(* read, is any price.                                                     *)
(***************************************************************************)
EXTENDS Integers, Sequences, FiniteSets, FiniteSetsExt

CONSTANTS
    SnapPrices,   \* the prices of the token
    Retention,    \* RETENTION_DAYS, in buckets
    LastBucket, MaxVolume, MaxCycles   \* bounds: buckets, volume traded, collections

ASSUME SnapshotsAssumption ==
    /\ SnapPrices \subseteq Nat \ {0} /\ SnapPrices # {}
    /\ Retention \in Nat \ {0} /\ LastBucket \in Nat /\ MaxVolume \in Nat /\ MaxCycles \in Nat

VARIABLES
    \* the market
    clock,       \* the bucket of the time
    traded,      \* the cumulated volume
    \* the database
    rows,        \* market_snapshots, by bucket
    baseline,    \* _volume_baseline
    \* the collector
    cycle,       \* its await, with what it has read
    cycles,      \* bound
    \* history
    origin,      \* the first baseline
    replaced,    \* volume in rows that were collected again
    shed,        \* volume in rows that were cleaned up
    fallen,      \* by how much the baseline went down
    torn,        \* it died between a row and its baseline
    again        \* a row was collected again

snapWorld   == <<clock, traded>>
snapHistory == <<origin, replaced, shed, fallen, torn, again>>
snapVars    == <<snapWorld, rows, baseline, cycle, cycles, snapHistory>>

NotRead == -1
AtRest  == [at |-> "rest", bucket |-> 0, total |-> NotRead, delta |-> 0, close |-> 0, todo |-> {}]

Row(close, delta, trend, streak) ==
    [close |-> close, delta |-> delta, trend |-> trend, streak |-> streak]

\* What the rows of these buckets counted.
Volume(bs) == SumFunctionOnSet([b \in bs |-> rows[b].delta], bs)

-----------------------------------------------------------------------------
(* The features.                                                           *)

\* _calc_volume_delta
VolumeDelta(total, prev) ==
    IF total = NotRead \/ prev = NotRead \/ total < prev THEN 0 ELSE total - prev

\* Mutant: an unchanged price is a rising one.
TrendOn(close) ==
    IF DOMAIN rows = {} THEN [trend |-> "flat", streak |-> 0]
    ELSE LET prev == rows[Max(DOMAIN rows)] IN
         IF close >= prev.close
         THEN [trend |-> "up", streak |-> IF prev.trend = "up" THEN prev.streak + 1 ELSE 1]
         ELSE [trend |-> "down", streak |-> IF prev.trend = "down" THEN prev.streak - 1 ELSE -1]

\* _calc_trend, against the latest row there is; a flat bucket keeps the
\* streak of a trend once.
Trend(close) ==
    IF DOMAIN rows = {} THEN [trend |-> "flat", streak |-> 0]
    ELSE LET prev == rows[Max(DOMAIN rows)] IN
         CASE close = prev.close ->
                [trend |-> "flat", streak |-> IF prev.trend = "flat" THEN 0 ELSE prev.streak]
           [] close > prev.close ->
                [trend |-> "up", streak |-> IF prev.trend = "up" THEN prev.streak + 1 ELSE 1]
           [] OTHER ->
                [trend |-> "down", streak |-> IF prev.trend = "down" THEN prev.streak - 1 ELSE -1]

-----------------------------------------------------------------------------
(* One collection.                                                         *)

Stop == cycle' = AtRest

\* A market without rows is filled from the price history first.
Collect ==
    /\ cycle.at = "rest" /\ cycles < MaxCycles
    /\ cycles' = cycles + 1
    /\ cycle' = IF rows = << >>
                THEN [AtRest EXCEPT !.at = "history"]
                ELSE [AtRest EXCEPT !.at = "volume", !.bucket = clock]
    /\ UNCHANGED <<snapWorld, rows, baseline, snapHistory>>

\* backfill_history: every bucket before this one; a failure is passed over.
FetchHistory(ok) ==
    /\ cycle.at = "history"
    /\ cycle' = IF ok /\ clock > 0
                THEN [cycle EXCEPT !.at = "filling", !.todo = 0..(clock - 1)]
                ELSE [cycle EXCEPT !.at = "volume", !.bucket = clock]
    /\ UNCHANGED <<snapWorld, rows, baseline, cycles, snapHistory>>

\* Its rows, oldest first, a commit each.
FillRow(close) ==
    /\ cycle.at = "filling"
    /\ LET b    == Min(cycle.todo)
           left == cycle.todo \ {b}
       IN
       /\ rows' = [r \in DOMAIN rows \cup {b} |->
                      IF r = b THEN Row(close, 0, "", 0) ELSE rows[r]]
       /\ cycle' = IF left = {}
                   THEN [cycle EXCEPT !.at = "volume", !.bucket = clock, !.todo = {}]
                   ELSE [cycle EXCEPT !.todo = left]
    /\ UNCHANGED <<snapWorld, baseline, cycles, snapHistory>>

\* What the read of the cumulated volume yields: nothing when it fails, zero
\* when the answer has no volumeNum.
VolumeAnswers == {NotRead, 0, traded}

\* The cumulated volume, and what it was at the last baseline.
FetchVolume(total) ==
    /\ cycle.at = "volume"
    /\ cycle' = [cycle EXCEPT !.at = "prices", !.total = total,
                              !.delta = VolumeDelta(total, baseline)]
    /\ UNCHANGED <<snapWorld, rows, baseline, cycles, snapHistory>>

FetchPrices(close) ==
    /\ cycle.at = "prices"
    /\ cycle' = [cycle EXCEPT !.at = "row", !.close = close]
    /\ UNCHANGED <<snapWorld, rows, baseline, cycles, snapHistory>>

\* Mutant: the baseline is moved on all the same.
NoPricesSaved ==
    /\ cycle.at = "prices"
    /\ baseline' = IF cycle.total = NotRead THEN baseline ELSE cycle.total
    /\ origin' = IF origin = NotRead THEN baseline' ELSE origin
    /\ Stop
    /\ UNCHANGED <<snapWorld, rows, cycles, replaced, shed, fallen, torn, again>>

\* No prices, or none in this bucket yet: the collection ends.
NoPrices ==
    /\ cycle.at = "prices"
    /\ Stop
    /\ UNCHANGED <<snapWorld, rows, baseline, cycles, snapHistory>>

\* The row, its features from the rows there are, its own of an earlier
\* collection among them.
UpsertBucket ==
    LET b    == cycle.bucket
        t    == Trend(cycle.close)
        row  == Row(cycle.close, cycle.delta, t.trend, t.streak)
    IN
    /\ cycle.at = "row"
    /\ rows' = [r \in DOMAIN rows \cup {b} |-> IF r = b THEN row ELSE rows[r]]
    /\ replaced' = replaced + (IF b \in DOMAIN rows THEN rows[b].delta ELSE 0)
    /\ again' = (again \/ b \in DOMAIN rows)
    /\ cycle' = [cycle EXCEPT !.at = "baseline"]
    /\ UNCHANGED <<snapWorld, baseline, cycles, origin, shed, fallen, torn>>

\* _save_volume_baseline, if the volume could be read.
SaveBaseline ==
    /\ cycle.at = "baseline"
    /\ baseline' = IF cycle.total = NotRead THEN baseline ELSE cycle.total
    /\ origin' = IF origin = NotRead THEN baseline' ELSE origin
    /\ fallen' = fallen + (IF baseline' < baseline THEN baseline - baseline' ELSE 0)
    /\ cycle' = [cycle EXCEPT !.at = "cleanup"]
    /\ UNCHANGED <<snapWorld, rows, cycles, replaced, shed, torn, again>>

\* cleanup_old; a bucket is older than its distance, for it is dated by its start.
CleanUp ==
    LET kept == {b \in DOMAIN rows : b + Retention > clock} IN
    /\ cycle.at = "cleanup"
    /\ rows' = [b \in kept |-> rows[b]]
    /\ shed' = shed + Volume(DOMAIN rows \ kept)
    /\ Stop
    /\ UNCHANGED <<snapWorld, baseline, cycles, origin, replaced, fallen, torn, again>>

\* The process dies, or the exception of a commit ends the collection.
CollectorDies ==
    /\ cycle.at # "rest"
    /\ torn' = (torn \/ (cycle.at = "baseline" /\ cycle.total # NotRead))
    /\ Stop
    /\ UNCHANGED <<snapWorld, rows, baseline, cycles, origin, replaced, shed, fallen, again>>

-----------------------------------------------------------------------------
(* The market.                                                             *)

Trades ==
    /\ traded < MaxVolume
    /\ traded' = traded + 1
    /\ UNCHANGED <<clock, rows, baseline, cycle, cycles, snapHistory>>

NextBucket ==
    /\ clock < LastBucket
    /\ clock' = clock + 1
    /\ UNCHANGED <<traded, rows, baseline, cycle, cycles, snapHistory>>

SnapInit ==
    /\ clock = 0 /\ traded = 0
    /\ rows = << >> /\ baseline = NotRead /\ cycle = AtRest /\ cycles = 0
    /\ origin = NotRead /\ replaced = 0 /\ shed = 0 /\ fallen = 0 /\ torn = FALSE /\ again = FALSE

SnapNext ==
    \/ Collect \/ NoPrices \/ UpsertBucket \/ SaveBaseline \/ CleanUp
    \/ \E ok \in BOOLEAN : FetchHistory(ok)
    \/ \E total \in VolumeAnswers : FetchVolume(total)
    \/ CollectorDies
    \/ \E close \in SnapPrices : FillRow(close) \/ FetchPrices(close)
    \/ Trades \/ NextBucket

SnapSpec == SnapInit /\ [][SnapNext]_snapVars

-----------------------------------------------------------------------------
\* Every variable has its type.
SnapTypeOK ==
    /\ clock \in 0..LastBucket /\ traded \in 0..MaxVolume
    /\ DOMAIN rows \subseteq 0..clock
    /\ \A b \in DOMAIN rows :
          rows[b] \in [close : SnapPrices, delta : 0..MaxVolume,
                       trend : {"", "flat", "up", "down"}, streak : -MaxCycles..MaxCycles]
    /\ baseline \in NotRead..MaxVolume /\ origin \in NotRead..MaxVolume
    /\ cycle.at \in {"rest", "history", "filling", "volume", "prices", "row", "baseline", "cleanup"}
    /\ cycles \in 0..MaxCycles /\ replaced \in Nat /\ shed \in Nat /\ fallen \in Nat
    /\ torn \in BOOLEAN /\ again \in BOOLEAN

\* The rows' volumes add up to what the baseline rose in all, from the first
\* to the last and again after each fall, whatever reads failed and wherever the
\* collector died, except between a row and its baseline; a bucket that is
\* collected again loses what its first row counted (snapshots.py:364-368,
\* :424-451).  The baseline falls when an answer has no volumeNum: what was
\* traded before is then counted a second time (:526).
VolumeConserved ==
    ~torn /\ cycle.at # "baseline" =>
        Volume(DOMAIN rows) + replaced + shed = baseline - origin + fallen

\* The n latest rows up to b.
Latest(b, n) ==
    {r \in DOMAIN rows : r <= b /\ Cardinality({q \in DOMAIN rows : q > r /\ q <= b}) < n}

\* A streak of n rising buckets is the last n rows rising, across skipped
\* buckets, failures and restarts - unless a bucket was collected again, whose
\* second row is compared with its first (snapshots.py:392-394, :675).
StreakSupported ==
    ~again => \A b \in DOMAIN rows : rows[b].trend = "up" =>
        \A r \in Latest(b, rows[b].streak) :
            \A q \in DOMAIN rows :
                q < r /\ (\A s \in DOMAIN rows : s <= q \/ s >= r) => rows[r].close > rows[q].close
=============================================================================
