-------------------------- MODULE SnapshotsProofs ---------------------------
(***************************************************************************)
(* What the rows of the snapshot collector say of the market, for every    *)
(* retention, whatever reads fail and wherever the process dies; and the   *)
(* factors that a profile is scaled by, for every sequence of those rows.  *)
(***************************************************************************)
EXTENDS Snapshots, Adaptive, FoldLemmas

-----------------------------------------------------------------------------
(* The rows (Snapshots).                                                   *)

\* The states of a collection cycle.
States == {"rest", "history", "filling", "volume", "prices", "row", "baseline", "cleanup"}

\* Collecting, and its row is still to come.
RowToCome == cycle.at \in {"history", "filling", "volume", "prices", "row"}

\* A stored row; a row has at most the volume that was traded.
SnapRow ==
    [close : SnapPrices, delta : 0..MaxVolume,
     trend : {"", "flat", "up", "down"}, streak : Int]

\* A streak has no more buckets than there were collections.
RowsTyped ==
    /\ DOMAIN rows \subseteq 0..clock
    /\ \A b \in DOMAIN rows : rows[b] \in SnapRow
    /\ LET rounds == IF RowToCome THEN cycles - 1 ELSE cycles IN
       \A b \in DOMAIN rows : -rounds <= rows[b].streak /\ rows[b].streak <= rounds

\* What a cycle carries.
CycleShape ==
    [at : States, bucket : Nat, total : Int, delta : Int, close : Int, todo : SUBSET Nat]

\* It carries a volume that was traded and a close that was asked for.
CycleTyped ==
    /\ cycle \in CycleShape
    /\ cycle.total \in NotRead..traded
    /\ cycle.delta \in 0..MaxVolume
    /\ cycle.bucket <= clock
    /\ RowToCome => cycles >= 1
    /\ cycle.at \in {"row", "baseline"} => cycle.close \in SnapPrices

\* The counters are within their bounds.
ScalarsTyped ==
    /\ clock \in 0..LastBucket /\ traded \in 0..MaxVolume
    /\ baseline \in NotRead..traded /\ origin \in NotRead..MaxVolume
    /\ cycles \in 0..MaxCycles /\ replaced \in Nat /\ shed \in Nat /\ fallen \in Nat
    /\ torn \in BOOLEAN /\ again \in BOOLEAN

\* The rows are those before what the collection is about to store.
Ordered ==
    /\ cycle.at \in {"volume", "prices", "row"} => \A b \in DOMAIN rows : b <= cycle.bucket
    /\ cycle.at = "history" => DOMAIN rows = {}
    /\ cycle.at = "filling" =>
          /\ cycle.todo # {} /\ cycle.todo \subseteq 0..clock
          /\ \A b \in DOMAIN rows : rows[b].trend = "" /\ \A t \in cycle.todo : b < t

\* The volume in the rows and the volume that left them.
Counted == Volume(DOMAIN rows) + replaced + shed

\* Between a row and its baseline the row's volume is counted already.
Accounted ==
    /\ baseline = NotRead <=> origin = NotRead
    /\ cycle.at \in {"prices", "row", "baseline"} => cycle.delta = VolumeDelta(cycle.total, baseline)
    /\ ~torn => Counted = baseline - origin + fallen + (IF cycle.at = "baseline" THEN cycle.delta ELSE 0)

\* The invariant.
SnapIInv == ScalarsTyped /\ RowsTyped /\ CycleTyped /\ Ordered /\ Accounted

-----------------------------------------------------------------------------
(* What a table of rows adds up to.                                        *)

\* The volume of the rows D of R.
Deltas(R, D) == SumFunctionOnSet([b \in D |-> R[b].delta], D)

\* Rows of the past, with a volume each.
DeltasTyped(R, c) == DOMAIN R \subseteq 0..c /\ \A b \in DOMAIN R : R[b].delta \in Int

\* The volume of the rows splits in two parts.
LEMMA DeltasSplit ==
    ASSUME NEW c \in Nat, NEW R, DeltasTyped(R, c), NEW K \in SUBSET DOMAIN R
    PROVE  /\ Deltas(R, DOMAIN R) = Deltas(R, K) + Deltas(R, DOMAIN R \ K)
           /\ Deltas(R, K) \in Int
<1> DEFINE D == DOMAIN R
           f == [b \in D |-> R[b].delta]
           L == D \ K
<1>0. IsFiniteSet(0..c) /\ D \subseteq 0..c
  BY FS_Interval DEF DeltasTyped
<1>a. IsFiniteSet(D)
  BY <1>0, FS_Subset
<1>1. IsFiniteSet(D) /\ IsFiniteSet(K) /\ IsFiniteSet(L) /\ D \in SUBSET D
  <2>1. K \subseteq D /\ L \subseteq D
    OBVIOUS
  <2> QED
    BY <1>a, <2>1, FS_Subset
<1>2. Numbers(f, D) /\ Numbers(f, K) /\ Numbers(f, L)
  BY DEF Numbers, DeltasTyped
<1>3. SumFunctionOnSet([b \in K |-> R[b].delta], K) = SumFunctionOnSet(f, K)
  BY <1>1, <1>2, SumAgree
<1>4. SumFunctionOnSet([b \in L |-> R[b].delta], L) = SumFunctionOnSet(f, L)
  BY <1>1, <1>2, SumAgree
<1>5. SumFunctionOnSet(f, D) = SumFunctionOnSet(f, K) + SumFunctionOnSet(f, L)
  BY <1>1, <1>2, SumDisjoint
<1>6. SumFunctionOnSet(f, K) \in Int
  BY <1>1, <1>2, SumTypes
<1> QED
  BY <1>3, <1>4, <1>5, <1>6 DEF Deltas

\* What storing a row does to the volume (snapshots.py:388-447).
LEMMA DeltasStored ==
    ASSUME NEW c \in Nat, NEW R, DeltasTyped(R, c), NEW b \in 0..c, NEW row, row.delta \in Int,
           NEW Q, Q = [r \in DOMAIN R \cup {b} |-> IF r = b THEN row ELSE R[r]]
    PROVE  Deltas(Q, DOMAIN Q) = Deltas(R, DOMAIN R) + row.delta
                                   - (IF b \in DOMAIN R THEN R[b].delta ELSE 0)
<1> DEFINE D == DOMAIN R
           E == D \cup {b}
           f == [r \in D |-> R[r].delta]
           g == [r \in E |-> Q[r].delta]
           L == D \ {b}
<1>0. DOMAIN Q = E
  OBVIOUS
<1>1. IsFiniteSet(D) /\ IsFiniteSet(E) /\ IsFiniteSet(L) /\ E \ {b} = L /\ b \in E
  <2>1. IsFiniteSet(0..c)
    BY FS_Interval
  <2>2. D \subseteq 0..c /\ E \subseteq 0..c /\ L \subseteq 0..c
    BY DEF DeltasTyped
  <2>3. IsFiniteSet(D) /\ IsFiniteSet(E) /\ IsFiniteSet(L)
    BY <2>1, <2>2, FS_Subset
  <2> QED
    BY <2>3
<1>2. Numbers(f, D) /\ Numbers(g, E) /\ Numbers(f, L) /\ g[b] = row.delta
  BY DEF Numbers, DeltasTyped
<1>3. \A r \in L : g[r] = f[r]
  OBVIOUS
<1> HIDE DEF f, g, E, L
<1>4. SumFunctionOnSet(g, E) = g[b] + SumFunctionOnSet(g, L)
  BY <1>1, <1>2, SumElement
<1>5. SumFunctionOnSet(g, L) = SumFunctionOnSet(f, L)
  BY <1>1, <1>2, <1>3, SumAgree
<1>6. SumFunctionOnSet(f, L) \in Int
  BY <1>1, <1>2, SumTypes
<1>7. CASE b \in D
  <2>1. SumFunctionOnSet(f, D) = f[b] + SumFunctionOnSet(f, L)
    BY <1>1, <1>2, <1>7, SumElement DEF L
  <2>2. f[b] = R[b].delta /\ R[b].delta \in Int
    BY <1>7 DEF f, DeltasTyped
  <2>3. \A p, q, r \in Int : p + r = (q + r) + p - q
    OBVIOUS
  <2>4. row.delta + SumFunctionOnSet(f, L)
           = (R[b].delta + SumFunctionOnSet(f, L)) + row.delta - R[b].delta
    BY <1>6, <2>2, <2>3
  <2>5. SumFunctionOnSet(g, E) = SumFunctionOnSet(f, D) + row.delta - R[b].delta
    BY <1>2, <1>4, <1>5, <2>1, <2>2, <2>4, Zenon
  <2> QED
    BY <1>0, <1>7, <2>5 DEF Deltas, f, g
<1>8. CASE b \notin D
  <2>1. L = D
    BY <1>8 DEF L
  <2>3. \A p, r \in Int : p + r = r + p - 0
    OBVIOUS
  <2>4. row.delta + SumFunctionOnSet(f, L) = SumFunctionOnSet(f, L) + row.delta - 0
    BY <1>6, <2>3
  <2>5. SumFunctionOnSet(g, E) = SumFunctionOnSet(f, D) + row.delta - 0
    BY <1>2, <1>4, <1>5, <2>1, <2>4, Zenon
  <2> QED
    BY <1>0, <1>8, <2>5 DEF Deltas, f, g
<1> QED
  BY <1>7, <1>8

-----------------------------------------------------------------------------
(* The invariant, action by action.                                        *)

\* The initial states meet the invariant.
LEMMA SnapInitially ==
    SnapInit => SnapIInv
<1> SUFFICES ASSUME SnapInit PROVE SnapIInv
  OBVIOUS
<1>0. /\ clock = 0 /\ traded = 0 /\ baseline = NotRead /\ origin = NotRead /\ cycles = 0
      /\ replaced = 0 /\ shed = 0 /\ fallen = 0 /\ torn = FALSE /\ again = FALSE
      /\ rows = << >> /\ cycle = AtRest
  BY DEF SnapInit
<1>1. DOMAIN rows = {}
  BY <1>0
<1>2. ScalarsTyped
  <2>1. 0 \in 0..LastBucket /\ 0 \in 0..MaxVolume /\ 0 \in 0..MaxCycles
        /\ NotRead \in NotRead..0 /\ NotRead \in NotRead..MaxVolume
    BY SnapshotsAssumption DEF NotRead
  <2> QED
    BY <1>0, <2>1 DEF ScalarsTyped
<1>3. RowsTyped
  BY <1>1 DEF RowsTyped
<1>4. CycleTyped
  <2>1. AtRest \in CycleShape
    BY DEF CycleShape, AtRest, States, NotRead
  <2> QED
    BY <1>0, <2>1, SnapshotsAssumption DEF CycleTyped, AtRest, NotRead, RowToCome
<1>5. Ordered
  BY <1>0 DEF Ordered, AtRest
<1>6. Volume(DOMAIN rows) = 0
  <2>1. Volume({}) = 0
    BY SumEmpty DEF Volume
  <2> QED
    BY <1>1, <2>1
<1>7. Accounted
  BY <1>0, <1>6 DEF Accounted, Counted, AtRest, NotRead
<1> QED
  BY <1>2, <1>3, <1>4, <1>5, <1>7 DEF SnapIInv

\* The actions that leave the rows alone, and what they counted.
LEMMA RowsAlone ==
    ASSUME rows' = rows, replaced' = replaced, shed' = shed
    PROVE  Counted' = Counted
BY DEF Counted, Volume

\* The volume counted is a number.
LEMMA CountedIsInt ==
    ASSUME ScalarsTyped, RowsTyped
    PROVE  Counted \in Int /\ Deltas(rows, DOMAIN rows) = Volume(DOMAIN rows)
           /\ DeltasTyped(rows, clock) /\ clock \in Nat
<1>0. clock \in Nat
  BY SnapshotsAssumption DEF ScalarsTyped
<1>a. \A b \in DOMAIN rows : rows[b].delta \in 0..MaxVolume
  BY DEF RowsTyped, SnapRow
<1>1. clock \in Nat /\ DeltasTyped(rows, clock)
  BY <1>0, <1>a, SnapshotsAssumption DEF RowsTyped, DeltasTyped
<1>2. DOMAIN rows \in SUBSET DOMAIN rows
  OBVIOUS
<1>3. Deltas(rows, DOMAIN rows) \in Int
  BY <1>1, <1>2, DeltasSplit
<1> QED
  BY <1>1, <1>3 DEF Counted, Volume, Deltas, ScalarsTyped

\* What every step keeps of an unchanged or changed cycle.
Untouched == UNCHANGED <<clock, traded, rows, baseline, origin, replaced, shed, fallen, torn, again>>

\* A step that leaves rows and volumes alone keeps the rest of the invariant.
LEMMA Quiet ==
    ASSUME SnapIInv, Untouched, cycles' \in 0..MaxCycles
    PROVE  /\ ScalarsTyped' /\ Counted' = Counted
           /\ (IF RowToCome THEN cycles - 1 ELSE cycles)
                 <= (IF RowToCome' THEN cycles' - 1 ELSE cycles') => RowsTyped'
<1>1. ScalarsTyped /\ RowsTyped
  BY DEF SnapIInv
<1>2. ScalarsTyped'
  BY <1>1 DEF Untouched, ScalarsTyped
<1>3. Counted' = Counted
  BY DEF Untouched, Counted, Volume
<1>4. (IF RowToCome THEN cycles - 1 ELSE cycles)
         <= (IF RowToCome' THEN cycles' - 1 ELSE cycles') => RowsTyped'
  <2> DEFINE n == IF RowToCome THEN cycles - 1 ELSE cycles
             m == IF RowToCome' THEN cycles' - 1 ELSE cycles'
  <2> SUFFICES ASSUME n <= m PROVE RowsTyped'
    OBVIOUS
  <2>1. n \in Int /\ m \in Int
    BY <1>1, SnapshotsAssumption DEF ScalarsTyped
  <2>2. \A b \in DOMAIN rows : -n <= rows[b].streak /\ rows[b].streak <= n
    BY <1>1 DEF RowsTyped
  <2>3. \A b \in DOMAIN rows : rows[b].streak \in Int
    BY <1>1 DEF RowsTyped, SnapRow
  <2> HIDE DEF n, m
  <2>4. \A b \in DOMAIN rows : -m <= rows[b].streak /\ rows[b].streak <= m
    BY <2>1, <2>2, <2>3
  <2> QED
    BY <1>1, <2>4 DEF RowsTyped, m, Untouched
<1> QED
  BY <1>2, <1>3, <1>4

\* A cycle that begins keeps the invariant (snapshots.py:345-361).
LEMMA CollectKeeps ==
    ASSUME SnapIInv, Collect PROVE SnapIInv'
<1>1. ScalarsTyped /\ RowsTyped /\ CycleTyped /\ Ordered /\ Accounted
  BY DEF SnapIInv
<1>2. Untouched /\ cycles' = cycles + 1 /\ cycles' \in 0..MaxCycles /\ cycle.at = "rest" /\ cycles \in Nat
  BY <1>1, SnapshotsAssumption DEF Collect, Untouched, snapWorld, snapHistory, ScalarsTyped
<1>3. CASE rows = << >>
  <2>1. cycle' = [AtRest EXCEPT !.at = "history"]
    BY <1>3 DEF Collect
  <2>2. /\ cycle' = [at |-> "history", bucket |-> 0, total |-> NotRead, delta |-> 0,
                     close |-> 0, todo |-> {}]
    BY <2>1 DEF AtRest
  <2>3. cycle' \in CycleShape
    BY <2>2 DEF CycleShape, States, NotRead
  <2>4. RowToCome' /\ ~RowToCome
    BY <1>2, <2>2 DEF RowToCome
  <2>5. ScalarsTyped' /\ RowsTyped' /\ Counted' = Counted
    BY <1>2, <2>4, Quiet
  <2>6. CycleTyped'
    BY <1>2, <2>2, <2>3, <2>5, SnapshotsAssumption DEF CycleTyped, ScalarsTyped, NotRead
  <2>7. Ordered'
    BY <1>2, <1>3, <2>2 DEF Ordered, Untouched
  <2>8. Accounted'
    BY <1>1, <1>2, <2>2, <2>5 DEF Accounted, Untouched
  <2> QED
    BY <2>5, <2>6, <2>7, <2>8 DEF SnapIInv
<1>4. CASE rows # << >>
  <2>1. cycle' = [AtRest EXCEPT !.at = "volume", !.bucket = clock]
    BY <1>4 DEF Collect
  <2>2. /\ cycle' = [at |-> "volume", bucket |-> clock, total |-> NotRead, delta |-> 0,
                     close |-> 0, todo |-> {}]
    BY <2>1 DEF AtRest
  <2>a. clock \in Nat
    BY <1>1, SnapshotsAssumption DEF ScalarsTyped
  <2>3. cycle' \in CycleShape
    BY <2>2, <2>a DEF CycleShape, States, NotRead
  <2>4. RowToCome' /\ ~RowToCome
    BY <1>2, <2>2 DEF RowToCome
  <2>5. ScalarsTyped' /\ RowsTyped' /\ Counted' = Counted
    BY <1>2, <2>4, Quiet
  <2>6. CycleTyped'
    BY <1>2, <2>2, <2>3, <2>5, <2>a, SnapshotsAssumption DEF CycleTyped, ScalarsTyped, NotRead, Untouched
  <2>7. Ordered'
    BY <1>1, <1>2, <2>2 DEF Ordered, Untouched, RowsTyped
  <2>8. Accounted'
    BY <1>1, <1>2, <2>2, <2>5 DEF Accounted, Untouched
  <2> QED
    BY <2>5, <2>6, <2>7, <2>8 DEF SnapIInv
<1> QED
  BY <1>3, <1>4

\* So does the history, read or not (snapshots.py:456-472).
LEMMA FetchHistoryKeeps ==
    ASSUME SnapIInv, NEW ok \in BOOLEAN, FetchHistory(ok) PROVE SnapIInv'
<1>1. ScalarsTyped /\ RowsTyped /\ CycleTyped /\ Ordered /\ Accounted
  BY DEF SnapIInv
<1>2. Untouched /\ cycles' = cycles /\ cycles' \in 0..MaxCycles /\ cycle.at = "history"
      /\ cycle \in CycleShape
  BY <1>1 DEF FetchHistory, Untouched, snapWorld, snapHistory, ScalarsTyped, CycleTyped
<1>3. DOMAIN rows = {} /\ DOMAIN rows' = {} /\ RowToCome /\ clock \in Nat /\ clock' = clock
  BY <1>1, <1>2, SnapshotsAssumption DEF Ordered, RowToCome, Untouched, ScalarsTyped
<1>4. CASE ok /\ clock > 0
  <2>1. cycle' = [cycle EXCEPT !.at = "filling", !.todo = 0..(clock - 1)]
    BY <1>4 DEF FetchHistory
  <2>2. /\ cycle'.at = "filling" /\ cycle'.bucket = cycle.bucket /\ cycle'.total = cycle.total
        /\ cycle'.delta = cycle.delta /\ cycle'.todo = 0..(clock - 1)
    BY <1>2, <2>1 DEF CycleShape
  <2>a. 0..(clock - 1) \in SUBSET Nat /\ 0 \in 0..(clock - 1) /\ 0..(clock - 1) \subseteq 0..clock
    BY <1>3, <1>4
  <2>3. cycle' \in CycleShape
    BY <1>2, <2>1, <2>a DEF CycleShape, States
  <2>4. RowToCome'
    BY <2>2 DEF RowToCome
  <2>5. ScalarsTyped' /\ RowsTyped' /\ Counted' = Counted
    BY <1>1, <1>2, <1>3, <2>4, Quiet DEF RowsTyped
  <2>6. CycleTyped'
    BY <1>1, <1>2, <1>3, <2>2, <2>3 DEF CycleTyped, Untouched
  <2>7. Ordered'
    BY <1>3, <2>2, <2>a DEF Ordered
  <2>8. Accounted'
    BY <1>1, <1>2, <2>2, <2>5 DEF Accounted, Untouched
  <2> QED
    BY <2>5, <2>6, <2>7, <2>8 DEF SnapIInv
<1>5. CASE ~(ok /\ clock > 0)
  <2>1. cycle' = [cycle EXCEPT !.at = "volume", !.bucket = clock]
    BY <1>5 DEF FetchHistory
  <2>2. /\ cycle'.at = "volume" /\ cycle'.bucket = clock /\ cycle'.total = cycle.total
        /\ cycle'.delta = cycle.delta /\ cycle'.todo = cycle.todo
    BY <1>2, <2>1 DEF CycleShape
  <2>3. cycle' \in CycleShape
    BY <1>2, <1>3, <2>1 DEF CycleShape, States
  <2>4. RowToCome'
    BY <2>2 DEF RowToCome
  <2>5. ScalarsTyped' /\ RowsTyped' /\ Counted' = Counted
    BY <1>1, <1>2, <1>3, <2>4, Quiet DEF RowsTyped
  <2>6. CycleTyped'
    BY <1>1, <1>2, <1>3, <2>2, <2>3 DEF CycleTyped, Untouched
  <2>7. Ordered'
    BY <1>3, <2>2 DEF Ordered
  <2>8. Accounted'
    BY <1>1, <1>2, <2>2, <2>5 DEF Accounted, Untouched
  <2> QED
    BY <2>5, <2>6, <2>7, <2>8 DEF SnapIInv
<1> QED
  BY <1>4, <1>5

\* So does the volume, read or not (snapshots.py:515-529).
LEMMA FetchVolumeKeeps ==
    ASSUME SnapIInv, NEW total \in VolumeAnswers, FetchVolume(total) PROVE SnapIInv'
<1> DEFINE delta == VolumeDelta(total, baseline)
<1>1. ScalarsTyped /\ RowsTyped /\ CycleTyped /\ Ordered /\ Accounted
  BY DEF SnapIInv
<1>2. Untouched /\ cycles' = cycles /\ cycles' \in 0..MaxCycles /\ cycle.at = "volume"
      /\ cycle \in CycleShape /\ RowToCome
  BY <1>1 DEF FetchVolume, Untouched, snapWorld, snapHistory, ScalarsTyped, CycleTyped, RowToCome
<1>3. cycle' = [cycle EXCEPT !.at = "prices", !.total = total, !.delta = delta]
  BY DEF FetchVolume
<1>4. total \in NotRead..traded /\ delta \in 0..MaxVolume /\ total \in Int /\ delta \in Int
  BY <1>1, SnapshotsAssumption DEF VolumeAnswers, VolumeDelta, ScalarsTyped, NotRead
<1>5. delta = VolumeDelta(total, baseline)
  OBVIOUS
<1> HIDE DEF delta
<1>6. /\ cycle'.at = "prices" /\ cycle'.bucket = cycle.bucket /\ cycle'.total = total
      /\ cycle'.delta = delta /\ cycle'.todo = cycle.todo
  BY <1>2, <1>3 DEF CycleShape
<1>7. cycle' \in CycleShape
  BY <1>2, <1>3, <1>4 DEF CycleShape, States
<1>8. RowToCome'
  BY <1>6 DEF RowToCome
<1>9. ScalarsTyped' /\ RowsTyped' /\ Counted' = Counted
  <2>1. cycles - 1 <= cycles' - 1
    BY <1>1, <1>2, SnapshotsAssumption DEF ScalarsTyped
  <2> QED
    BY <1>2, <1>8, <2>1, Quiet
<1>10. CycleTyped'
  BY <1>1, <1>2, <1>4, <1>6, <1>7 DEF CycleTyped, Untouched
<1>11. Ordered'
  BY <1>1, <1>2, <1>6 DEF Ordered, Untouched
<1>12. Accounted'
  BY <1>1, <1>2, <1>5, <1>6, <1>9 DEF Accounted, Untouched
<1> QED
  BY <1>9, <1>10, <1>11, <1>12 DEF SnapIInv

\* So do the prices (snapshots.py:531-553).
LEMMA FetchPricesKeeps ==
    ASSUME SnapIInv, NEW close \in SnapPrices, FetchPrices(close) PROVE SnapIInv'
<1>1. ScalarsTyped /\ RowsTyped /\ CycleTyped /\ Ordered /\ Accounted
  BY DEF SnapIInv
<1>2. Untouched /\ cycles' = cycles /\ cycles' \in 0..MaxCycles /\ cycle.at = "prices"
      /\ cycle \in CycleShape /\ RowToCome
  BY <1>1 DEF FetchPrices, Untouched, snapWorld, snapHistory, ScalarsTyped, CycleTyped, RowToCome
<1>3. cycle' = [cycle EXCEPT !.at = "row", !.close = close]
  BY DEF FetchPrices
<1>4. close \in Int
  BY SnapshotsAssumption
<1>6. /\ cycle'.at = "row" /\ cycle'.bucket = cycle.bucket /\ cycle'.total = cycle.total
      /\ cycle'.delta = cycle.delta /\ cycle'.todo = cycle.todo /\ cycle'.close = close
  BY <1>2, <1>3 DEF CycleShape
<1>7. cycle' \in CycleShape
  BY <1>2, <1>3, <1>4 DEF CycleShape, States
<1>8. RowToCome'
  BY <1>6 DEF RowToCome
<1>9. ScalarsTyped' /\ RowsTyped' /\ Counted' = Counted
  <2>1. cycles - 1 <= cycles' - 1
    BY <1>1, <1>2, SnapshotsAssumption DEF ScalarsTyped
  <2> QED
    BY <1>2, <1>8, <2>1, Quiet
<1>10. CycleTyped'
  BY <1>1, <1>2, <1>6, <1>7 DEF CycleTyped, Untouched
<1>11. Ordered'
  BY <1>1, <1>2, <1>6 DEF Ordered, Untouched
<1>12. Accounted'
  BY <1>1, <1>2, <1>6, <1>9 DEF Accounted, Untouched
<1> QED
  BY <1>9, <1>10, <1>11, <1>12 DEF SnapIInv

\* A collection that ends, for whatever reason, without having stored a row or after.
LEMMA StopKeeps ==
    ASSUME SnapIInv, Stop, UNCHANGED <<clock, traded, rows, baseline, origin, replaced, shed, fallen, again>>,
           cycles' = cycles, torn' \in BOOLEAN,
           ~torn' => ~torn /\ ~(cycle.at = "baseline" /\ cycle.total # NotRead)
    PROVE  SnapIInv'
<1>1. ScalarsTyped /\ RowsTyped /\ CycleTyped /\ Ordered /\ Accounted
  BY DEF SnapIInv
<1>2. cycle' = AtRest /\ AtRest \in CycleShape /\ AtRest.at = "rest"
      /\ AtRest.total = NotRead /\ AtRest.delta = 0 /\ AtRest.bucket = 0
  BY DEF Stop, AtRest, CycleShape, States, NotRead
<1>3. ~RowToCome'
  BY <1>2 DEF RowToCome
<1>4. ScalarsTyped'
  BY <1>1 DEF ScalarsTyped
<1>5. Counted' = Counted
  BY DEF Counted, Volume
<1>6. RowsTyped'
  <2> DEFINE n == IF RowToCome THEN cycles - 1 ELSE cycles
  <2>1. n \in Int /\ n <= cycles /\ cycles \in Int
    BY <1>1, SnapshotsAssumption DEF ScalarsTyped
  <2>2. \A b \in DOMAIN rows : -n <= rows[b].streak /\ rows[b].streak <= n
    BY <1>1 DEF RowsTyped
  <2>3. \A b \in DOMAIN rows : rows[b].streak \in Int
    BY <1>1 DEF RowsTyped, SnapRow
  <2> HIDE DEF n
  <2>4. \A b \in DOMAIN rows : -cycles <= rows[b].streak /\ rows[b].streak <= cycles
    BY <2>1, <2>2, <2>3
  <2> QED
    BY <1>1, <1>3, <2>4 DEF RowsTyped
<1>7. CycleTyped'
  BY <1>1, <1>2, <1>3, SnapshotsAssumption DEF CycleTyped, ScalarsTyped, NotRead
<1>8. Ordered'
  BY <1>2 DEF Ordered
<1>9. Accounted'
  BY <1>1, <1>2, <1>5 DEF Accounted, VolumeDelta
<1> QED
  BY <1>4, <1>6, <1>7, <1>8, <1>9 DEF SnapIInv

\* So does a market without prices (snapshots.py:370-381).
LEMMA NoPricesKeeps ==
    ASSUME SnapIInv, NoPrices PROVE SnapIInv'
<1>1. torn \in BOOLEAN
  BY DEF SnapIInv, ScalarsTyped
<1> QED
  BY <1>1, StopKeeps DEF NoPrices, snapWorld, snapHistory

\* So does a collector that dies between two steps (snapshots.py:315-364).
LEMMA CollectorDiesKeeps ==
    ASSUME SnapIInv, CollectorDies PROVE SnapIInv'
<1>1. torn \in BOOLEAN
  BY DEF SnapIInv, ScalarsTyped
<1>2. torn' \in BOOLEAN /\ ~torn' => ~torn /\ ~(cycle.at = "baseline" /\ cycle.total # NotRead)
  BY <1>1 DEF CollectorDies
<1> QED
  BY <1>2, StopKeeps DEF CollectorDies, snapWorld

\* So does a row made of the history (snapshots.py:472-511).
LEMMA FillRowKeeps ==
    ASSUME SnapIInv, NEW close \in SnapPrices, FillRow(close) PROVE SnapIInv'
<1> DEFINE b == Min(cycle.todo)
           left == cycle.todo \ {b}
           row == Row(close, 0, "", 0)
<1>1. ScalarsTyped /\ RowsTyped /\ CycleTyped /\ Ordered /\ Accounted
  BY DEF SnapIInv
<1>2. /\ UNCHANGED <<clock, traded, baseline, cycles, origin, replaced, shed, fallen, torn, again>>
      /\ cycle.at = "filling" /\ cycle \in CycleShape /\ RowToCome
  BY <1>1 DEF FillRow, snapWorld, snapHistory, ScalarsTyped, CycleTyped, RowToCome
<1>3. rows' = [r \in DOMAIN rows \cup {b} |-> IF r = b THEN row ELSE rows[r]]
  BY DEF FillRow
<1>4. cycle' = IF left = {} THEN [cycle EXCEPT !.at = "volume", !.bucket = clock, !.todo = {}]
               ELSE [cycle EXCEPT !.todo = left]
  BY DEF FillRow
<1>5. clock \in Nat /\ cycles \in Nat /\ cycles >= 1
  BY <1>1, <1>2, SnapshotsAssumption DEF ScalarsTyped, CycleTyped
<1>6. b \in cycle.todo /\ (\A t \in cycle.todo : b <= t) /\ b \in 0..clock /\ cycle.todo \subseteq 0..clock
  <2>1. cycle.todo \in SUBSET Nat /\ cycle.todo # {} /\ cycle.todo \subseteq 0..clock
    BY <1>1, <1>2 DEF Ordered, CycleShape
  <2> QED
    BY <2>1, MinIsLeast
<1>a. b \in Nat
  BY <1>5, <1>6
<1> HIDE DEF b
<1>b. \A r \in DOMAIN rows : rows[r].trend = "" /\ \A t \in cycle.todo : r < t
  BY <1>1, <1>2 DEF Ordered
<1>c. \A r \in DOMAIN rows : r \in Nat /\ r < b
  <2>1. DOMAIN rows \subseteq 0..clock /\ 0..clock \subseteq Nat
    BY <1>1, <1>5 DEF RowsTyped
  <2>2. \A r \in DOMAIN rows : r < b
    BY <1>6, <1>b, Zenon
  <2> QED
    BY <2>1, <2>2
<1>7. b \notin DOMAIN rows /\ \A r \in DOMAIN rows : r < b /\ rows[r].trend = ""
  <2>1. b \notin DOMAIN rows
    BY <1>a, <1>c
  <2> QED
    BY <2>1, <1>b, <1>c
<1>8. row \in SnapRow /\ row.delta = 0 /\ row.streak = 0 /\ row.trend = ""
  BY SnapshotsAssumption DEF Row, SnapRow
<1> HIDE DEF row
<1>9. DOMAIN rows' = DOMAIN rows \cup {b} /\ rows'[b] = row
      /\ \A r \in DOMAIN rows : rows'[r] = rows[r]
  BY <1>3, <1>7
<1>10. left \subseteq 0..clock /\ left \in SUBSET Nat /\ \A t \in left : b < t
  BY <1>5, <1>6, <1>a
<1> HIDE DEF left
<1>11. /\ cycle' \in CycleShape /\ cycle'.total = cycle.total /\ cycle'.delta = cycle.delta
       /\ cycle'.bucket <= clock
       /\ \/ cycle'.at = "volume" /\ cycle'.bucket = clock
          \/ cycle'.at = "filling" /\ cycle'.todo = left /\ left # {}
  <2>1. CASE left = {}
    <3>1. cycle' = [cycle EXCEPT !.at = "volume", !.bucket = clock, !.todo = {}]
      BY <1>4, <2>1
    <3>2. cycle' \in CycleShape
      BY <1>2, <1>5, <3>1 DEF CycleShape, States
    <3>3. /\ cycle'.at = "volume" /\ cycle'.bucket = clock /\ cycle'.total = cycle.total
          /\ cycle'.delta = cycle.delta
      BY <1>2, <3>1 DEF CycleShape
    <3> QED
      BY <1>5, <3>2, <3>3
  <2>2. CASE left # {}
    <3>1. cycle' = [cycle EXCEPT !.todo = left]
      BY <1>4, <2>2
    <3>2. cycle.bucket <= clock
      BY <1>1 DEF CycleTyped
    <3> QED
      BY <1>2, <1>5, <1>10, <2>2, <3>1, <3>2 DEF CycleShape, States
  <2> QED
    BY <2>1, <2>2
<1>12. RowToCome'
  BY <1>11 DEF RowToCome
<1>13. ScalarsTyped'
  BY <1>1, <1>2 DEF ScalarsTyped
<1>14. RowsTyped'
  <2>1. \A r \in DOMAIN rows' : rows'[r] \in SnapRow
    BY <1>1, <1>8, <1>9 DEF RowsTyped
  <2>2. \A r \in DOMAIN rows : -(cycles - 1) <= rows[r].streak /\ rows[r].streak <= cycles - 1
    BY <1>1, <1>2 DEF RowsTyped
  <2>a. -(cycles - 1) <= 0 /\ 0 <= cycles - 1
    BY <1>5
  <2>3. \A r \in DOMAIN rows' : -(cycles - 1) <= rows'[r].streak /\ rows'[r].streak <= cycles - 1
    <3> SUFFICES ASSUME NEW r \in DOMAIN rows'
                 PROVE  -(cycles - 1) <= rows'[r].streak /\ rows'[r].streak <= cycles - 1
      OBVIOUS
    <3>1. CASE r = b
      BY <1>8, <1>9, <2>a, <3>1
    <3>2. CASE r # b
      BY <1>9, <2>2, <3>2
    <3> QED
      BY <3>1, <3>2
  <2>4. DOMAIN rows' \subseteq 0..clock'
    BY <1>1, <1>2, <1>6, <1>9 DEF RowsTyped
  <2> QED
    BY <1>2, <1>12, <2>1, <2>3, <2>4 DEF RowsTyped
<1>15. CycleTyped'
  BY <1>1, <1>2, <1>5, <1>11 DEF CycleTyped
<1>16. Ordered'
  <2>1. CASE cycle'.at = "volume" /\ cycle'.bucket = clock
    <3>1. \A r \in DOMAIN rows' : r <= clock
      BY <1>5, <1>6, <1>1, <1>9 DEF RowsTyped
    <3> QED
      BY <2>1, <3>1 DEF Ordered
  <2>2. CASE cycle'.at = "filling" /\ cycle'.todo = left /\ left # {}
    <3>1. \A r \in DOMAIN rows' : rows'[r].trend = "" /\ \A t \in left : r < t
      <4> SUFFICES ASSUME NEW r \in DOMAIN rows'
                   PROVE  rows'[r].trend = "" /\ \A t \in left : r < t
        OBVIOUS
      <4>1. CASE r = b
        BY <1>8, <1>9, <1>10, <4>1
      <4>2. CASE r # b
        BY <1>7, <1>9, <1>b, <4>2 DEF left
      <4> QED
        BY <4>1, <4>2
    <3> QED
      BY <1>2, <1>10, <2>2, <3>1 DEF Ordered
  <2> QED
    BY <1>11, <2>1, <2>2
<1>17. Counted' = Counted
  <2>1. DeltasTyped(rows, clock) /\ Deltas(rows, DOMAIN rows) \in Int
        /\ Deltas(rows, DOMAIN rows) = Volume(DOMAIN rows)
    BY <1>1, CountedIsInt, DeltasSplit
  <2>2. Deltas(rows', DOMAIN rows') = Deltas(rows, DOMAIN rows) + row.delta
                                        - (IF b \in DOMAIN rows THEN rows[b].delta ELSE 0)
    <3>1. row.delta \in Int
      <4>1. 0 \in Int
        OBVIOUS
      <4> QED
        BY <1>8, <4>1
    <3> QED
      BY <1>3, <1>5, <1>6, <2>1, <3>1, DeltasStored
  <2>3. Deltas(rows', DOMAIN rows') = Deltas(rows, DOMAIN rows)
    <3>1. Deltas(rows', DOMAIN rows') = Deltas(rows, DOMAIN rows) + 0 - 0
      BY <1>7, <1>8, <2>2
    <3>2. \A n \in Int : n + 0 - 0 = n
      OBVIOUS
    <3> QED
      BY <2>1, <3>1, <3>2
  <2> QED
    BY <1>2, <2>1, <2>3 DEF Counted, Volume, Deltas
<1>18. Accounted'
  BY <1>1, <1>2, <1>11, <1>17 DEF Accounted
<1> QED
  BY <1>13, <1>14, <1>15, <1>16, <1>18 DEF SnapIInv

\* So does the baseline, which is stored after the row
\* (snapshots.py:576-584).
LEMMA SaveBaselineKeeps ==
    ASSUME SnapIInv, SaveBaseline PROVE SnapIInv'
<1>1. ScalarsTyped /\ RowsTyped /\ CycleTyped /\ Ordered /\ Accounted
  BY DEF SnapIInv
<1>2. /\ UNCHANGED <<clock, traded, rows, cycles, replaced, shed, torn, again>>
      /\ cycle.at = "baseline" /\ cycle \in CycleShape /\ ~RowToCome
      /\ cycle' = [cycle EXCEPT !.at = "cleanup"]
      /\ baseline' = IF cycle.total = NotRead THEN baseline ELSE cycle.total
      /\ origin' = IF origin = NotRead THEN baseline' ELSE origin
      /\ fallen' = fallen + (IF baseline' < baseline THEN baseline - baseline' ELSE 0)
  BY <1>1 DEF SaveBaseline, snapWorld, ScalarsTyped, CycleTyped, RowToCome
<1>3. cycle' \in CycleShape /\ cycle'.at = "cleanup" /\ cycle'.total = cycle.total
      /\ cycle'.delta = cycle.delta /\ cycle'.bucket = cycle.bucket
  BY <1>2 DEF CycleShape, States
<1>4. ~RowToCome'
  BY <1>3 DEF RowToCome
<1>5. baseline' \in NotRead..traded /\ origin' \in NotRead..MaxVolume
  BY <1>1, <1>2, SnapshotsAssumption DEF ScalarsTyped, CycleTyped, NotRead
<1>a. /\ baseline \in Int /\ origin \in Int /\ cycle.total \in Int /\ fallen \in Nat
      /\ baseline' \in Int /\ NotRead <= baseline /\ NotRead <= cycle.total
  BY <1>1, <1>2, <1>5, SnapshotsAssumption DEF ScalarsTyped, CycleTyped, NotRead
<1>b. fallen' \in Nat
  BY <1>2, <1>a
<1>6. ScalarsTyped'
  BY <1>1, <1>2, <1>5, <1>b DEF ScalarsTyped
<1>7. RowsTyped'
  BY <1>1, <1>2, <1>4 DEF RowsTyped
<1>8. CycleTyped'
  BY <1>1, <1>2, <1>3, <1>4 DEF CycleTyped
<1>9. Ordered'
  BY <1>3 DEF Ordered
<1>10. Counted' = Counted
  BY <1>2 DEF Counted, Volume
<1>11. ASSUME ~torn PROVE Counted = baseline' - origin' + fallen'
  <2>1. Counted = baseline - origin + fallen + cycle.delta
    BY <1>1, <1>2, <1>11 DEF Accounted
  <2>2. cycle.delta = VolumeDelta(cycle.total, baseline) /\ (baseline = NotRead <=> origin = NotRead)
    BY <1>1, <1>2 DEF Accounted
  <2>3. CASE cycle.total = NotRead
    BY <1>2, <1>a, <2>1, <2>2, <2>3 DEF VolumeDelta, NotRead
  <2>4. CASE cycle.total # NotRead /\ baseline = NotRead
    BY <1>2, <1>a, <2>1, <2>2, <2>4 DEF VolumeDelta, NotRead
  <2>5. CASE cycle.total # NotRead /\ baseline # NotRead /\ cycle.total < baseline
    BY <1>2, <1>a, <2>1, <2>2, <2>5 DEF VolumeDelta, NotRead
  <2>6. CASE cycle.total # NotRead /\ baseline # NotRead /\ cycle.total >= baseline
    BY <1>2, <1>a, <2>1, <2>2, <2>6 DEF VolumeDelta, NotRead
  <2> QED
    BY <1>a, <2>3, <2>4, <2>5, <2>6
<1>12. Accounted'
  <2>1. baseline' = NotRead <=> origin' = NotRead
    BY <1>1, <1>2 DEF Accounted
  <2>2. ~torn' => Counted' = baseline' - origin' + fallen' + 0
    <3>1. baseline' - origin' + fallen' \in Int
      BY <1>5, <1>b, SnapshotsAssumption DEF NotRead
    <3>2. \A n \in Int : n + 0 = n
      OBVIOUS
    <3> QED
      BY <1>2, <1>10, <1>11, <3>1, <3>2
  <2> QED
    BY <1>3, <2>1, <2>2 DEF Accounted
<1> QED
  BY <1>6, <1>7, <1>8, <1>9, <1>12 DEF SnapIInv

\* So does a row that is stored, new or over the one before
\* (snapshots.py:388-447).
LEMMA UpsertBucketKeeps ==
    ASSUME SnapIInv, UpsertBucket PROVE SnapIInv'
<1> DEFINE b == cycle.bucket
           t == Trend(cycle.close)
           row == Row(cycle.close, cycle.delta, t.trend, t.streak)
           old == IF b \in DOMAIN rows THEN rows[b].delta ELSE 0
<1>1. ScalarsTyped /\ RowsTyped /\ CycleTyped /\ Ordered /\ Accounted
  BY DEF SnapIInv
<1>2. /\ UNCHANGED <<clock, traded, baseline, cycles, origin, shed, fallen, torn>>
      /\ cycle.at = "row" /\ cycle \in CycleShape /\ RowToCome
      /\ cycle' = [cycle EXCEPT !.at = "baseline"]
  BY <1>1 DEF UpsertBucket, snapWorld, ScalarsTyped, CycleTyped, RowToCome
<1>3. /\ rows' = [r \in DOMAIN rows \cup {b} |-> IF r = b THEN row ELSE rows[r]]
      /\ replaced' = replaced + old
      /\ again' = (again \/ b \in DOMAIN rows)
  BY DEF UpsertBucket
<1>4. clock \in Nat /\ cycles \in Nat /\ cycles >= 1 /\ b \in 0..clock /\ MaxVolume \in Nat
  BY <1>1, <1>2, SnapshotsAssumption DEF ScalarsTyped, CycleTyped, CycleShape
<1>5. cycle.close \in SnapPrices /\ cycle.delta \in 0..MaxVolume
  BY <1>1, <1>2 DEF CycleTyped
<1>6. t.trend \in {"flat", "up", "down"} /\ t.streak \in Int /\ -cycles <= t.streak /\ t.streak <= cycles
  <2>1. CASE DOMAIN rows = {}
    BY <1>4, <2>1 DEF Trend
  <2>2. CASE DOMAIN rows # {}
    <3> DEFINE prev == rows[Max(DOMAIN rows)]
    <3>1. Max(DOMAIN rows) \in DOMAIN rows
      BY <1>1, <1>4, <2>2, MaxIsGreatest DEF RowsTyped
    <3>2. prev.streak \in Int /\ -(cycles - 1) <= prev.streak /\ prev.streak <= cycles - 1
      BY <1>1, <1>2, <3>1 DEF RowsTyped, SnapRow
    <3>3. \/ t = [trend |-> "flat", streak |-> 0]
          \/ t = [trend |-> "flat", streak |-> prev.streak]
          \/ t = [trend |-> "up", streak |-> prev.streak + 1]
          \/ t = [trend |-> "up", streak |-> 1]
          \/ t = [trend |-> "down", streak |-> prev.streak - 1]
          \/ t = [trend |-> "down", streak |-> -1]
      BY <2>2 DEF Trend
    <3> HIDE DEF t, prev
    <3> QED
      BY <1>4, <3>2, <3>3
  <2> QED
    BY <2>1, <2>2
<1>7. row \in SnapRow /\ row.delta = cycle.delta /\ row.streak = t.streak
  BY <1>5, <1>6 DEF Row, SnapRow
<1> HIDE DEF t, row
<1>8. DOMAIN rows' = DOMAIN rows \cup {b} /\ rows'[b] = row
      /\ \A r \in DOMAIN rows : r # b => rows'[r] = rows[r]
  BY <1>3
<1>9. cycle' \in CycleShape /\ cycle'.at = "baseline" /\ cycle'.total = cycle.total
      /\ cycle'.delta = cycle.delta /\ cycle'.bucket = cycle.bucket /\ cycle'.close = cycle.close
  BY <1>2 DEF CycleShape, States
<1>10. ~RowToCome'
  BY <1>9 DEF RowToCome
<1>11. DeltasTyped(rows, clock) /\ Deltas(rows, DOMAIN rows) \in Int
       /\ Deltas(rows, DOMAIN rows) = Volume(DOMAIN rows)
  BY <1>1, CountedIsInt, DeltasSplit
<1>12. old \in Nat
  <2>1. \A r \in DOMAIN rows : rows[r].delta \in 0..MaxVolume
    BY <1>1 DEF RowsTyped, SnapRow
  <2> QED
    BY <1>4, <2>1
<1>13. ScalarsTyped'
  BY <1>1, <1>2, <1>3, <1>12 DEF ScalarsTyped
<1>14. RowsTyped'
  <2>1. \A r \in DOMAIN rows' : rows'[r] \in SnapRow
    BY <1>1, <1>7, <1>8 DEF RowsTyped
  <2>2. \A r \in DOMAIN rows : -(cycles - 1) <= rows[r].streak /\ rows[r].streak <= cycles - 1
    BY <1>1, <1>2 DEF RowsTyped
  <2>3. \A r \in DOMAIN rows : rows[r].streak \in Int
    BY <1>1 DEF RowsTyped, SnapRow
  <2>4. \A r \in DOMAIN rows : -cycles <= rows[r].streak /\ rows[r].streak <= cycles
    BY <1>4, <2>2, <2>3
  <2>5. \A r \in DOMAIN rows' : -cycles <= rows'[r].streak /\ rows'[r].streak <= cycles
    <3> SUFFICES ASSUME NEW r \in DOMAIN rows'
                 PROVE  -cycles <= rows'[r].streak /\ rows'[r].streak <= cycles
      OBVIOUS
    <3>1. CASE r = b
      BY <1>6, <1>7, <1>8, <3>1
    <3>2. CASE r # b
      BY <1>8, <2>4, <3>2
    <3> QED
      BY <3>1, <3>2
  <2>6. DOMAIN rows' \subseteq 0..clock'
    BY <1>1, <1>2, <1>4, <1>8 DEF RowsTyped
  <2> QED
    BY <1>2, <1>10, <2>1, <2>5, <2>6 DEF RowsTyped
<1>15. CycleTyped'
  BY <1>1, <1>2, <1>5, <1>9, <1>10 DEF CycleTyped
<1>16. Ordered'
  BY <1>9 DEF Ordered
<1>17. Counted' = Counted + cycle.delta
  <2>1. row.delta \in Int
    BY <1>5, <1>7, <1>4
  <2>2. Deltas(rows', DOMAIN rows') = Deltas(rows, DOMAIN rows) + row.delta - old
    BY <1>3, <1>4, <1>11, <2>1, DeltasStored
  <2>3. Volume(DOMAIN rows)' = Volume(DOMAIN rows) + cycle.delta - old
    BY <1>7, <1>11, <2>2 DEF Volume, Deltas
  <2>4. \A v, d, o, r, s \in Int : (v + d - o) + (r + o) + s = (v + r + s) + d
    OBVIOUS
  <2>5. replaced \in Int /\ shed \in Int /\ cycle.delta \in Int /\ old \in Int
        /\ Volume(DOMAIN rows) \in Int
    BY <1>1, <1>5, <1>4, <1>11, <1>12 DEF ScalarsTyped
  <2> HIDE DEF old
  <2>6. (Volume(DOMAIN rows) + cycle.delta - old) + (replaced + old) + shed
           = (Volume(DOMAIN rows) + replaced + shed) + cycle.delta
    BY <2>4, <2>5
  <2> QED
    BY <1>2, <1>3, <2>3, <2>6 DEF Counted, old
<1>18. Accounted'
  <2>1. Counted \in Int
    BY <1>1, CountedIsInt
  <2>2. ~torn => Counted = baseline - origin + fallen + 0
    BY <1>1, <1>2 DEF Accounted
  <2>3. baseline - origin + fallen \in Int /\ cycle.delta \in Int
    BY <1>1, <1>4, <1>5, SnapshotsAssumption DEF ScalarsTyped, NotRead
  <2>4. ~torn => Counted' = baseline - origin + fallen + cycle.delta
    BY <1>17, <2>2, <2>3
  <2> QED
    BY <1>1, <1>2, <1>9, <2>4 DEF Accounted
<1> QED
  BY <1>13, <1>14, <1>15, <1>16, <1>18 DEF SnapIInv

\* So does the removal of old rows (snapshots.py:302-312).
LEMMA CleanUpKeeps ==
    ASSUME SnapIInv, CleanUp PROVE SnapIInv'
<1> DEFINE kept == {b \in DOMAIN rows : b + Retention > clock}
           lost == DOMAIN rows \ kept
<1>1. ScalarsTyped /\ RowsTyped /\ CycleTyped /\ Ordered /\ Accounted
  BY DEF SnapIInv
<1>2. /\ UNCHANGED <<clock, traded, baseline, cycles, origin, replaced, fallen, torn, again>>
      /\ cycle.at = "cleanup" /\ ~RowToCome
      /\ rows' = [b \in kept |-> rows[b]]
      /\ shed' = shed + Volume(lost)
  BY DEF CleanUp, snapWorld, RowToCome
<1>3. kept \subseteq DOMAIN rows /\ kept \in SUBSET DOMAIN rows /\ lost \in SUBSET DOMAIN rows
  OBVIOUS
<1> HIDE DEF kept
<1>4. cycle' = AtRest /\ AtRest \in CycleShape /\ AtRest.at = "rest"
      /\ AtRest.total = NotRead /\ AtRest.delta = 0 /\ AtRest.bucket = 0
  BY DEF CleanUp, Stop, AtRest, CycleShape, States, NotRead
<1>5. ~RowToCome'
  BY <1>4 DEF RowToCome
<1>6. Volume(lost) \in Nat
  <2>1. \A b \in DOMAIN rows : rows[b].delta \in 0..MaxVolume
    BY <1>1 DEF RowsTyped, SnapRow
  <2> DEFINE f == [b \in lost |-> rows[b].delta]
  <2>2. \A b \in lost : f[b] \in Nat
    BY <2>1, SnapshotsAssumption
  <2>3. IsFiniteSet(lost)
    <3>1. clock \in Nat /\ lost \in SUBSET (0..clock)
      BY <1>1, SnapshotsAssumption DEF RowsTyped, ScalarsTyped
    <3> HIDE DEF lost
    <3> QED
      BY <3>1, BoundedIsFinite
  <2> HIDE DEF f, lost
  <2>4. SumFunctionOnSet(f, lost) \in Nat
    BY <2>2, <2>3, SumIsNat
  <2> QED
    BY <2>4 DEF Volume, f
<1>7. ScalarsTyped'
  BY <1>1, <1>2, <1>6 DEF ScalarsTyped
<1>8. RowsTyped'
  BY <1>1, <1>2, <1>3, <1>5 DEF RowsTyped
<1>9. CycleTyped'
  BY <1>1, <1>2, <1>4, <1>5, SnapshotsAssumption DEF CycleTyped, ScalarsTyped, NotRead
<1>10. Ordered'
  BY <1>4 DEF Ordered
<1>11. Counted' = Counted
  <2>1. DeltasTyped(rows, clock) /\ Volume(DOMAIN rows) = Deltas(rows, DOMAIN rows) /\ clock \in Nat
    BY <1>1, CountedIsInt
  <2>2. Volume(DOMAIN rows) = Deltas(rows, kept) + Deltas(rows, lost) /\ Deltas(rows, kept) \in Int
    BY <1>3, <2>1, DeltasSplit
  <2>3. Volume(lost) = Deltas(rows, lost)
    BY DEF Volume, Deltas
  <2>4. Volume(DOMAIN rows)' = Deltas(rows, kept)
    <3>1. DOMAIN rows' = kept /\ \A b \in kept : rows'[b] = rows[b]
      BY <1>2
    <3>2. [b \in kept |-> rows'[b].delta] = [b \in kept |-> rows[b].delta]
      BY <3>1
    <3> QED
      BY <3>1, <3>2 DEF Volume, Deltas
  <2>5. \A k, l, r, s \in Int : k + r + (s + l) = (k + l) + r + s
    OBVIOUS
  <2>6. replaced \in Int /\ shed \in Int /\ Volume(lost) \in Int
    BY <1>1, <1>6 DEF ScalarsTyped
  <2>7. Deltas(rows, kept) + replaced + (shed + Volume(lost))
           = (Deltas(rows, kept) + Volume(lost)) + replaced + shed
    BY <2>2, <2>5, <2>6
  <2> QED
    BY <1>2, <2>2, <2>3, <2>4, <2>7 DEF Counted
<1>12. Accounted'
  BY <1>1, <1>2, <1>4, <1>11 DEF Accounted
<1> QED
  BY <1>7, <1>8, <1>9, <1>10, <1>12 DEF SnapIInv

\* So does a trade.
LEMMA TradesKeeps ==
    ASSUME SnapIInv, Trades PROVE SnapIInv'
<1>1. ScalarsTyped /\ RowsTyped /\ CycleTyped /\ Ordered /\ Accounted
  BY DEF SnapIInv
<1>2. traded' = traded + 1 /\ traded < MaxVolume
      /\ UNCHANGED <<clock, rows, baseline, cycle, cycles, origin, replaced, shed, fallen, torn, again>>
  BY DEF Trades, snapHistory
<1>3. traded \in Nat /\ traded' \in 0..MaxVolume
  BY <1>1, <1>2, SnapshotsAssumption DEF ScalarsTyped
<1>4. \A n : n \in NotRead..traded => n \in NotRead..traded'
  BY <1>2, <1>3 DEF NotRead
<1>5. ScalarsTyped'
  BY <1>1, <1>2, <1>3, <1>4 DEF ScalarsTyped
<1>6. RowsTyped'
  BY <1>1, <1>2 DEF RowsTyped, RowToCome
<1>7. CycleTyped'
  BY <1>1, <1>2, <1>4 DEF CycleTyped, RowToCome
<1>8. Ordered'
  BY <1>1, <1>2 DEF Ordered
<1>9. Accounted'
  BY <1>1, <1>2 DEF Accounted, Counted, Volume
<1> QED
  BY <1>5, <1>6, <1>7, <1>8, <1>9 DEF SnapIInv

\* So does the clock.
LEMMA NextBucketKeeps ==
    ASSUME SnapIInv, NextBucket PROVE SnapIInv'
<1>1. ScalarsTyped /\ RowsTyped /\ CycleTyped /\ Ordered /\ Accounted
  BY DEF SnapIInv
<1>2. clock' = clock + 1 /\ clock < LastBucket
      /\ UNCHANGED <<traded, rows, baseline, cycle, cycles, origin, replaced, shed, fallen, torn, again>>
  BY DEF NextBucket, snapHistory
<1>3. clock \in Nat /\ clock' \in 0..LastBucket /\ 0..clock \subseteq 0..clock'
  BY <1>1, <1>2, SnapshotsAssumption DEF ScalarsTyped
<1>5. ScalarsTyped'
  BY <1>1, <1>2, <1>3 DEF ScalarsTyped
<1>6. RowsTyped'
  BY <1>1, <1>2, <1>3 DEF RowsTyped, RowToCome
<1>7. CycleTyped'
  <2>1. cycle.bucket <= clock'
    BY <1>1, <1>2, <1>3 DEF CycleTyped, CycleShape
  <2> QED
    BY <1>1, <1>2, <2>1 DEF CycleTyped, RowToCome
<1>8. Ordered'
  BY <1>1, <1>2, <1>3 DEF Ordered
<1>9. Accounted'
  BY <1>1, <1>2 DEF Accounted, Counted, Volume
<1> QED
  BY <1>5, <1>6, <1>7, <1>8, <1>9 DEF SnapIInv

\* So does a step of nothing.
LEMMA SnapStutters ==
    ASSUME SnapIInv, UNCHANGED snapVars PROVE SnapIInv'
BY DEF snapVars, snapWorld, snapHistory, SnapIInv, ScalarsTyped, RowsTyped, CycleTyped,
       Ordered, Accounted, Counted, Volume, RowToCome

\* No step of the collector, the clock or the market leaves the invariant.
LEMMA SnapSteps ==
    ASSUME SnapIInv, [SnapNext]_snapVars PROVE SnapIInv'
<1>1. ASSUME NEW ok \in BOOLEAN, FetchHistory(ok) PROVE SnapIInv'
  BY <1>1, FetchHistoryKeeps
<1>5. ASSUME NEW total \in VolumeAnswers, FetchVolume(total) PROVE SnapIInv'
  BY <1>5, FetchVolumeKeeps
<1>2. ASSUME NEW close \in SnapPrices, FillRow(close) \/ FetchPrices(close) PROVE SnapIInv'
  BY <1>2, FillRowKeeps, FetchPricesKeeps
<1>3. ASSUME Collect \/ NoPrices \/ UpsertBucket \/ SaveBaseline \/ CleanUp PROVE SnapIInv'
  BY <1>3, CollectKeeps, NoPricesKeeps, UpsertBucketKeeps, SaveBaselineKeeps, CleanUpKeeps
<1>4. ASSUME CollectorDies \/ Trades \/ NextBucket PROVE SnapIInv'
  BY <1>4, CollectorDiesKeeps, TradesKeeps, NextBucketKeeps
<1> QED
  BY <1>1, <1>2, <1>3, <1>4, <1>5, SnapStutters DEF SnapNext

\* Every reachable state meets the invariant.
LEMMA SnapInvariant ==
    SnapSpec => []SnapIInv
<1>1. SnapInit => SnapIInv
  BY SnapInitially
<1>2. SnapIInv /\ [SnapNext]_snapVars => SnapIInv'
  BY SnapSteps
<1> QED
  BY <1>1, <1>2, PTL DEF SnapSpec

\* Every variable of the collector and of its database has its type.
THEOREM SnapshotsTyped ==
    SnapSpec => []SnapTypeOK
<1>1. SnapIInv => SnapTypeOK
  <2> SUFFICES ASSUME SnapIInv PROVE SnapTypeOK
    OBVIOUS
  <2>1. ScalarsTyped /\ RowsTyped /\ CycleTyped
    BY DEF SnapIInv
  <2> DEFINE n == IF RowToCome THEN cycles - 1 ELSE cycles
  <2>2. n \in Int /\ n <= MaxCycles /\ MaxCycles \in Nat
    BY <2>1, SnapshotsAssumption DEF ScalarsTyped
  <2>3. \A b \in DOMAIN rows : -n <= rows[b].streak /\ rows[b].streak <= n
    BY <2>1 DEF RowsTyped
  <2> HIDE DEF n
  <2>4. ASSUME NEW b \in DOMAIN rows
        PROVE  rows[b] \in [close : SnapPrices, delta : 0..MaxVolume,
                            trend : {"", "flat", "up", "down"}, streak : -MaxCycles..MaxCycles]
    <3>1. rows[b] \in SnapRow
      BY <2>1 DEF RowsTyped
    <3>2. rows[b].streak \in Int
      BY <3>1 DEF SnapRow
    <3>3. rows[b].streak \in -MaxCycles..MaxCycles
      BY <2>2, <2>3, <3>2
    <3> QED
      BY <3>1, <3>3 DEF SnapRow
  <2>5. DOMAIN rows \subseteq 0..clock /\ cycle.at \in States
    BY <2>1 DEF RowsTyped, CycleTyped, CycleShape
  <2>6. baseline \in NotRead..MaxVolume
    BY <2>1, SnapshotsAssumption DEF ScalarsTyped, NotRead
  <2> QED
    BY <2>1, <2>4, <2>5, <2>6 DEF SnapTypeOK, ScalarsTyped, States
<1> QED
  BY <1>1, SnapInvariant, PTL

\* The volumes of the rows, of those collected again and of those cleaned up
\* add up to what the baseline rose in all: to what was traded between the first
\* baseline and the last, and once more to what each blank answer took it down
\* by (snapshots.py:526).
THEOREM VolumeIsConserved ==
    SnapSpec => []VolumeConserved
<1>1. SnapIInv => VolumeConserved
  <2> SUFFICES ASSUME SnapIInv, ~torn, cycle.at # "baseline"
               PROVE  Volume(DOMAIN rows) + replaced + shed = baseline - origin + fallen
    BY DEF VolumeConserved
  <2>1. Volume(DOMAIN rows) + replaced + shed = baseline - origin + fallen + 0
    BY DEF SnapIInv, Accounted, Counted
  <2>2. baseline - origin + fallen \in Int
    BY SnapshotsAssumption DEF SnapIInv, ScalarsTyped, NotRead
  <2> QED
    BY <2>1, <2>2
<1> QED
  BY <1>1, SnapInvariant, PTL

-----------------------------------------------------------------------------
(* What a streak says.  The latest rows and what is claimed of a table.    *)

\* The latest n rows up to b.
LatestOf(D, b, n) ==
    {r \in D : r <= b /\ Cardinality({q \in D : q > r /\ q <= b}) < n}

\* Row r closes above the row before it.
Rises(R, r) ==
    \A q \in DOMAIN R :
        q < r /\ (\A s \in DOMAIN R : s <= q \/ s >= r) => R[r].close > R[q].close

\* The rows of an upward streak all rise.
Supported(R) ==
    \A b \in DOMAIN R : R[b].trend = "up" =>
        \A r \in LatestOf(DOMAIN R, b, R[b].streak) : Rises(R, r)

\* What comes before the rows that are kept is no claim on them.
LEMMA SupportedKept ==
    ASSUME NEW c \in Nat, NEW R, DOMAIN R \subseteq 0..c, Supported(R),
           NEW K \in SUBSET DOMAIN R, \A k \in K, r \in DOMAIN R : r > k => r \in K
    PROVE  Supported([b \in K |-> R[b]])
<1> DEFINE Q == [b \in K |-> R[b]]
<1>1. DOMAIN Q = K /\ \A b \in K : Q[b] = R[b]
  OBVIOUS
<1> SUFFICES Supported(Q)
  OBVIOUS
<1> HIDE DEF Q
<1> SUFFICES ASSUME NEW b \in K, R[b].trend = "up", NEW r \in LatestOf(K, b, R[b].streak)
             PROVE  Rises(Q, r)
  BY <1>1 DEF Supported
<1>2. r \in K /\ r <= b
  BY DEF LatestOf
<1>3. {q \in K : q > r /\ q <= b} = {q \in DOMAIN R : q > r /\ q <= b}
  BY <1>2
<1>4. r \in LatestOf(DOMAIN R, b, R[b].streak)
  BY <1>2, <1>3 DEF LatestOf
<1>5. Rises(R, r)
  BY <1>4 DEF Supported
<1>6. ASSUME NEW q \in K, q < r, \A s \in K : s <= q \/ s >= r
      PROVE  R[r].close > R[q].close
  <2>1. \A s \in DOMAIN R : s <= q \/ s >= r
    <3> SUFFICES ASSUME NEW s \in DOMAIN R, s \notin K PROVE s <= q
      BY <1>6
    <3>1. s \in Nat /\ q \in Nat /\ ~(s > q)
      OBVIOUS
    <3> QED
      BY <3>1
  <2> QED
    BY <1>5, <1>6, <2>1 DEF Rises
<1> QED
  BY <1>1, <1>2, <1>6 DEF Rises

\* The row after all others extends the streak of the one before it.
LEMMA SupportedStored ==
    ASSUME NEW c \in Nat, NEW R, DOMAIN R \subseteq 0..c, Supported(R),
           \A r \in DOMAIN R : R[r].streak \in Int,
           NEW b \in 0..c, \A r \in DOMAIN R : r < b, NEW row,
           row.trend = "up" =>
              /\ DOMAIN R # {}
              /\ row.close > R[Max(DOMAIN R)].close
              /\ row.streak = IF R[Max(DOMAIN R)].trend = "up"
                              THEN R[Max(DOMAIN R)].streak + 1 ELSE 1,
           NEW Q, Q = [r \in DOMAIN R \cup {b} |-> IF r = b THEN row ELSE R[r]]
    PROVE  Supported(Q)
<1> DEFINE D == DOMAIN R
           E == D \cup {b}
<1>1. DOMAIN Q = E /\ Q[b] = row /\ b \notin D /\ (\A r \in D : Q[r] = R[r])
      /\ (\A r \in E : r \in Nat /\ r <= b) /\ b \in Nat
  OBVIOUS
<1>2. ASSUME NEW r \in D, Rises(R, r) PROVE Rises(Q, r)
  <2> SUFFICES ASSUME NEW q \in E, q < r, \A s \in E : s <= q \/ s >= r
               PROVE  Q[r].close > Q[q].close
    BY <1>1 DEF Rises
  <2>1. q \in D
    BY <1>1
  <2> QED
    BY <1>1, <1>2, <2>1 DEF Rises
<1>3. ASSUME NEW a \in D, R[a].trend = "up", NEW r \in LatestOf(E, a, R[a].streak)
      PROVE  Rises(Q, r)
  <2>1. r \in D /\ r <= a
    BY <1>1 DEF LatestOf
  <2>2. {q \in E : q > r /\ q <= a} = {q \in D : q > r /\ q <= a}
    BY <1>1
  <2>3. r \in LatestOf(D, a, R[a].streak)
    BY <2>1, <2>2 DEF LatestOf
  <2> QED
    BY <1>2, <1>3, <2>1, <2>3 DEF Supported
<1>4. ASSUME row.trend = "up", NEW r \in LatestOf(E, b, row.streak)
      PROVE  Rises(Q, r)
  <2> DEFINE m == Max(D)
  <2>1. m \in D /\ \A k \in D : k <= m
    BY <1>4, MaxIsGreatest
  <2> HIDE DEF m
  <2>2. row.close > R[m].close
        /\ row.streak = IF R[m].trend = "up" THEN R[m].streak + 1 ELSE 1
    BY <1>4 DEF m
  <2>3. CASE r = b
    <3> SUFFICES ASSUME NEW q \in E, q < b, \A s \in E : s <= q \/ s >= b
                 PROVE  row.close > Q[q].close
      BY <1>1, <2>3 DEF Rises
    <3>1. q \in D /\ m <= q
      BY <1>1, <2>1
    <3>2. q = m
      BY <1>1, <2>1, <3>1
    <3> QED
      BY <1>1, <2>2, <3>1, <3>2
  <2>4. CASE r # b
    <3> DEFINE above == {q \in D : q > r /\ q <= m}
    <3>1. r \in D /\ r <= m
      BY <2>1, <2>4 DEF LatestOf
    <3>2. {q \in E : q > r /\ q <= b} = above \cup {b} /\ b \notin above
      BY <1>1, <2>1, <3>1
    <3>3. IsFiniteSet(above)
      <4>1. IsFiniteSet(0..c) /\ above \subseteq 0..c
        BY FS_Interval
      <4> QED
        BY <4>1, FS_Subset
    <3>4. Cardinality(above \cup {b}) = Cardinality(above) + 1 /\ Cardinality(above) \in Nat
      BY <3>2, <3>3, FS_AddElement, FS_CardinalityType
    <3>5. Cardinality(above) + 1 < row.streak
      BY <3>2, <3>4 DEF LatestOf
    <3> HIDE DEF above
    <3>6. R[m].trend = "up" /\ row.streak = R[m].streak + 1
      BY <2>2, <3>4, <3>5
    <3>7. Cardinality(above) < R[m].streak
      BY <2>1, <3>4, <3>5, <3>6
    <3>8. r \in LatestOf(D, m, R[m].streak)
      BY <3>1, <3>7 DEF LatestOf, above
    <3> QED
      BY <1>2, <2>1, <3>1, <3>6, <3>8 DEF Supported
  <2> QED
    BY <2>3, <2>4
<1> QED
  BY <1>1, <1>3, <1>4 DEF Supported

\* This is what StreakSupported says.
LEMMA StreakDefinition ==
    StreakSupported <=> (~again => Supported(rows))
BY DEF StreakSupported, Supported, Rises, Latest, LatestOf

\* Storing a bucket for the first time.
LEMMA UpsertSupports ==
    ASSUME SnapIInv, ~again', Supported(rows), UpsertBucket PROVE Supported(rows')
<1> DEFINE b == cycle.bucket
           t == Trend(cycle.close)
           row == Row(cycle.close, cycle.delta, t.trend, t.streak)
           D == DOMAIN rows
           prev == rows[Max(D)]
<1>1. /\ rows' = [r \in D \cup {b} |-> IF r = b THEN row ELSE rows[r]]
      /\ b \notin D /\ cycle.at = "row"
  BY DEF UpsertBucket
<1>2. clock \in Nat /\ b \in 0..clock /\ D \subseteq 0..clock
  BY <1>1, SnapshotsAssumption DEF SnapIInv, ScalarsTyped, CycleTyped, CycleShape, RowsTyped
<1>3. \A r \in D : r <= b
  BY <1>1 DEF SnapIInv, Ordered
<1>4. \A r \in D : r < b
  BY <1>1, <1>2, <1>3
<1>5. \A r \in D : rows[r].streak \in Int
  BY DEF SnapIInv, RowsTyped, SnapRow
<1>6. row.trend = "up" =>
         /\ D # {} /\ row.close > prev.close
         /\ row.streak = IF prev.trend = "up" THEN prev.streak + 1 ELSE 1
  <2> SUFFICES ASSUME t.trend = "up"
               PROVE  /\ D # {} /\ cycle.close > prev.close
                      /\ t.streak = IF prev.trend = "up" THEN prev.streak + 1 ELSE 1
    BY DEF Row
  <2>1. D # {}
    BY DEF Trend
  <2>2. \/ t.trend \in {"flat", "down"}
        \/ /\ cycle.close > prev.close
           /\ t = [trend |-> "up", streak |-> IF prev.trend = "up" THEN prev.streak + 1 ELSE 1]
    BY <2>1 DEF Trend
  <2> HIDE DEF t, prev
  <2> QED
    BY <2>1, <2>2
<1> HIDE DEF row, t, b
<1> QED
  BY SMTT(30), <1>1, <1>2, <1>4, <1>5, <1>6, SupportedStored

\* A streak of n rising buckets is the last n rows rising, unless a bucket was
\* collected again.
THEOREM StreaksAreSupported ==
    SnapSpec => []StreakSupported
<1>1. SnapInit => StreakSupported
  BY StreakDefinition DEF SnapInit, Supported
<1>2. ASSUME SnapIInv, SnapIInv', StreakSupported, [SnapNext]_snapVars
      PROVE  StreakSupported'
  <2> SUFFICES ASSUME ~again' PROVE Supported(rows')
    BY StreakDefinition DEF StreakSupported, Supported, Rises, Latest, LatestOf
  <2>a. ~again => Supported(rows)
    BY <1>2, StreakDefinition
  <2>b. clock \in Nat /\ DOMAIN rows \subseteq 0..clock
    BY <1>2, SnapshotsAssumption DEF SnapIInv, ScalarsTyped, RowsTyped
  <2>1. CASE UNCHANGED <<rows, again>>
    BY <2>1, <2>a
  <2>2. ASSUME NEW close \in SnapPrices, FillRow(close) PROVE Supported(rows')
    <3>1. rows' = [r \in DOMAIN rows \cup {Min(cycle.todo)} |->
                      IF r = Min(cycle.todo) THEN Row(close, 0, "", 0) ELSE rows[r]]
      BY <2>2 DEF FillRow
    <3>2. \A r \in DOMAIN rows : rows[r].trend = ""
      BY <1>2, <2>2 DEF FillRow, SnapIInv, Ordered
    <3>3. \A r \in DOMAIN rows' : rows'[r].trend = ""
      BY <3>1, <3>2 DEF Row
    <3> QED
      BY <3>3 DEF Supported
  <2>3. CASE UpsertBucket
    <3>1. ~again
      BY <1>2, <2>3 DEF UpsertBucket, SnapIInv, ScalarsTyped
    <3> QED
      BY <1>2, <2>3, <2>a, <3>1, UpsertSupports
  <2>4. CASE CleanUp
    <3> DEFINE kept == {b \in DOMAIN rows : b + Retention > clock}
    <3>1. rows' = [b \in kept |-> rows[b]] /\ again' = again
      BY <2>4 DEF CleanUp
    <3>2. \A k \in kept, r \in DOMAIN rows : r > k => r \in kept
      BY <2>b, SnapshotsAssumption
    <3>3. kept \in SUBSET DOMAIN rows
      OBVIOUS
    <3> HIDE DEF kept
    <3> QED
      BY <2>a, <2>b, <3>1, <3>2, <3>3, SupportedKept
  <2>5. CASE Collect \/ NoPrices \/ SaveBaseline \/ CollectorDies \/ Trades \/ NextBucket
    BY <2>1, <2>5 DEF Collect, NoPrices, SaveBaseline, CollectorDies, Trades, NextBucket, snapHistory
  <2>8. ASSUME NEW total \in VolumeAnswers, FetchVolume(total) PROVE Supported(rows')
    BY <2>1, <2>8 DEF FetchVolume, snapHistory
  <2>9. ASSUME NEW ok \in BOOLEAN, FetchHistory(ok) PROVE Supported(rows')
    BY <2>1, <2>9 DEF FetchHistory, snapHistory
  <2>6. ASSUME NEW close \in SnapPrices, FetchPrices(close) PROVE Supported(rows')
    BY <2>1, <2>6 DEF FetchPrices, snapHistory
  <2>7. CASE UNCHANGED snapVars
    BY <2>1, <2>7 DEF snapVars, snapHistory
  <2> QED
    BY <1>2, <2>2, <2>3, <2>4, <2>5, <2>6, <2>7, <2>8, <2>9 DEF SnapNext
<1> QED
  BY <1>1, <1>2, SnapInvariant, PTL DEF SnapSpec

-----------------------------------------------------------------------------
(* The factors (Adaptive).                                                 *)

-----------------------------------------------------------------------------
(* The factors a market's profile is scaled by.                            *)

\* The factors of the volume, in tenths; 0 stands for no order.
VolFactors == {0, 3, 5, 7, 10, 15}

\* The factors of the regime, in tenths; 0 stands for none yet.
RegimeFactors == {0, 8, 10, 12, 15}

\* What the cache holds for a market.
FactorRecords == [vol : VolFactors, regime : RegimeFactors, few : BOOLEAN]

\* The rows that are looked at.
RecentTyped ==
    recent \in Seq(Buckets) /\ Len(recent) <= RecentBuckets

\* The invariant: the profile is the one that the cached factors make.
AdaptIInv ==
    /\ noOrder \in BOOLEAN /\ due \in BOOLEAN /\ same \in BOOLEAN
    /\ RecentTyped
    /\ factors \in FactorRecords
    /\ Cached => factors.regime # 0 /\ profile = Adapt(factors)
    /\ ~Cached => profile = Adapt(Factors(10, 10, FALSE))

\* No factors make the gap less than a tick or the panic level less than 30
\* (adaptive.py).
LEMMA AdaptBounds ==
    ASSUME NEW f \in FactorRecords, f.regime # 0
    PROVE  Adapt(f).size = f.vol /\ Adapt(f).gap >= 1 /\ Adapt(f).panic >= 30
<1> DEFINE gap == RoundTenths(GapBase * f.regime)
           panic == (10 * PanicBase) \div f.regime
<1>1. f.regime \in Nat \ {0} /\ GapBase * f.regime \in Nat /\ PanicBase \in Nat
  BY AdaptiveAssumption DEF FactorRecords, RegimeFactors
<1>2. \A n \in Nat : RoundTenths(n) \in Int
  BY DEF RoundTenths
<1>3. gap \in Int /\ panic \in Int
  BY <1>1, <1>2
<1>4. Adapt(f) = [size |-> f.vol, gap |-> IF gap < 1 THEN 1 ELSE gap,
                  panic |-> IF panic < 30 THEN 30 ELSE panic]
  BY DEF Adapt
<1> HIDE DEF gap, panic
<1> QED
  BY <1>3, <1>4

\* Factors newly made are well typed, and never none.
LEMMA NewFactorsTyped ==
    ASSUME AdaptIInv
    PROVE  /\ NewFactors \in FactorRecords /\ NewFactors.regime # 0
           /\ NewFactors # NoFactors
<1>1. VolFactor(AverageVolume) \in {3, 7, 10, 15}
  BY DEF VolFactor
<1>2. RegimeFactor \in {8, 10, 15}
  BY DEF RegimeFactor
<1> QED
  BY <1>1, <1>2 DEF NewFactors, Factors, NoFactors, FactorRecords, VolFactors, RegimeFactors, AdaptIInv

\* The initial states meet the invariant.
LEMMA AdaptInitially ==
    AdaptInit => AdaptIInv
<1> SUFFICES ASSUME AdaptInit PROVE AdaptIInv
  OBVIOUS
<1>1. RecentTyped
  BY AdaptiveAssumption DEF RecentTyped, AdaptInit
<1>2. factors \in FactorRecords /\ factors = NoFactors
  BY DEF AdaptInit, NoFactors, Factors, FactorRecords, VolFactors, RegimeFactors
<1> QED
  BY <1>1, <1>2 DEF AdaptInit, AdaptIInv, Cached

\* Every step keeps it.
LEMMA AdaptSteps ==
    ASSUME AdaptIInv, [AdaptNext]_adaptVars PROVE AdaptIInv'
<1>1. CASE Recalculate
  <2> DEFINE new == NewFactors
             used == IF Replaces(new) THEN new ELSE factors
  <2>1. factors' = used /\ profile' = Adapt(used) /\ due' = FALSE /\ same' = TRUE
        /\ noOrder' = noOrder /\ recent' = recent
    BY <1>1 DEF Recalculate
  <2>2. new \in FactorRecords /\ new.regime # 0 /\ new # NoFactors
    BY NewFactorsTyped
  <2>3. ~Cached => Replaces(new)
    BY DEF Replaces
  <2> HIDE DEF new
  <2>4. used \in FactorRecords /\ used.regime # 0 /\ used # NoFactors
    BY <2>2, <2>3 DEF AdaptIInv, Cached
  <2> HIDE DEF used
  <2> QED
    BY <2>1, <2>4 DEF AdaptIInv, Cached, RecentTyped
<1>2. CASE IntervalPasses
  BY <1>2 DEF IntervalPasses, AdaptIInv, Cached, RecentTyped
<1>3. ASSUME NEW bucket \in Buckets, NextSnapshot(bucket) PROVE AdaptIInv'
  <2> DEFINE all == <<bucket>> \o recent
  <2>1. all \in Seq(Buckets) /\ Len(all) = Len(recent) + 1 /\ Len(recent) \in Nat
        /\ RecentBuckets \in Nat /\ Len(recent) <= RecentBuckets
    BY AdaptiveAssumption DEF AdaptIInv, RecentTyped
  <2>2. recent' = IF Len(all) > RecentBuckets THEN SubSeq(all, 1, RecentBuckets) ELSE all
    BY <1>3 DEF NextSnapshot
  <2> HIDE DEF all
  <2>3. recent' \in Seq(Buckets) /\ Len(recent') <= RecentBuckets
    BY <2>1, <2>2
  <2> QED
    BY <1>3, <2>3 DEF NextSnapshot, AdaptIInv, Cached, RecentTyped
<1>4. CASE EngineRestarts
  <2>1. factors' \in FactorRecords /\ factors' = NoFactors
    BY <1>4 DEF EngineRestarts, NoFactors, Factors, FactorRecords, VolFactors, RegimeFactors
  <2> QED
    BY <1>4, <2>1 DEF EngineRestarts, AdaptIInv, Cached, RecentTyped
<1>5. CASE UNCHANGED adaptVars
  BY <1>5 DEF adaptVars, AdaptIInv, Cached, RecentTyped
<1> QED
  BY <1>1, <1>2, <1>3, <1>4, <1>5 DEF AdaptNext

\* Every reachable state meets it.
LEMMA AdaptInvariant ==
    AdaptSpec => []AdaptIInv
<1>1. AdaptIInv /\ [AdaptNext]_adaptVars => AdaptIInv'
  BY AdaptSteps
<1> QED
  BY <1>1, AdaptInitially, PTL DEF AdaptSpec

\* Every variable has its type, and the panic threshold is not below 0.3.
THEOREM AdaptiveTyped ==
    AdaptSpec => []AdaptTypeOK
<1>1. AdaptIInv => AdaptTypeOK
  <2> SUFFICES ASSUME AdaptIInv PROVE AdaptTypeOK
    OBVIOUS
  <2> DEFINE plain == Factors(10, 10, FALSE)
  <2>1. plain \in FactorRecords /\ plain.regime # 0 /\ plain.vol = 10
    BY DEF Factors, FactorRecords, VolFactors, RegimeFactors
  <2>2. factors \in FactorRecords
    BY DEF AdaptIInv
  <2>3. \E f \in FactorRecords : f.regime # 0 /\ profile = Adapt(f)
    BY <2>1, <2>2 DEF AdaptIInv
  <2>4. PICK f \in FactorRecords : f.regime # 0 /\ profile = Adapt(f)
    BY <2>3
  <2>5. profile.size = f.vol /\ profile.gap >= 1 /\ profile.panic >= 30
    BY <2>4, AdaptBounds
  <2>6. profile.size \in VolFactors
    BY <2>4, <2>5 DEF FactorRecords
  <2> QED
    BY <2>2, <2>5, <2>6 DEF AdaptTypeOK, AdaptIInv, RecentTyped, FactorRecords, VolFactors, RegimeFactors
<1> QED
  BY <1>1, AdaptInvariant, PTL

-----------------------------------------------------------------------------
(* The hysteresis: a factor is the one its own thresholds lead to.         *)

\* An average below a threshold is below a greater one.
LEMMA BelowMonotone ==
    ASSUME NEW a \in Int, NEW c \in Nat, NEW s \in Int, NEW t \in Int, s <= t,
           Below(<<a, c>>, s)
    PROVE  Below(<<a, c>>, t)
<1>1. s * c <= t * c /\ s * c \in Int /\ t * c \in Int /\ 10 * a \in Int
  OBVIOUS
<1>2. 10 * a < s * c
  BY DEF Below
<1>3. 10 * a < t * c
  BY <1>1, <1>2
<1> QED
  BY <1>3 DEF Below

\* An average is a sum and a positive count.
LEMMA AverageTyped ==
    ASSUME AdaptIInv, recent # << >>
    PROVE  /\ AverageVolume = <<AverageVolume[1], AverageVolume[2]>>
           /\ AverageVolume[1] \in Int /\ AverageVolume[2] \in Nat \ {0}
<1> DEFINE D == DOMAIN recent
           f == [i \in D |-> recent[i].volume]
<1>1. IsFiniteSet(D) /\ D # {} /\ \A i \in D : recent[i].volume \in Nat
  <2>1. D = 1..Len(recent) /\ Len(recent) \in Nat /\ Len(recent) # 0
    BY DEF AdaptIInv, RecentTyped
  <2>2. IsFiniteSet(1..Len(recent))
    BY <2>1, FS_Interval
  <2>3. \A i \in D : recent[i] \in Buckets
    BY DEF AdaptIInv, RecentTyped
  <2> QED
    BY <2>1, <2>2, <2>3, AdaptiveAssumption
<1>2. ASSUME NEW S \in SUBSET D, S # {}
      PROVE  /\ AverageOf(S) = <<AverageOf(S)[1], AverageOf(S)[2]>>
             /\ AverageOf(S)[1] \in Int /\ AverageOf(S)[2] \in Nat \ {0}
  <2>1. IsFiniteSet(S) /\ Cardinality(S) \in Nat /\ Cardinality(S) # 0
    BY <1>1, <1>2, FS_Subset, FS_CardinalityType, FS_EmptySet
  <2> DEFINE g == [i \in S |-> recent[i].volume]
  <2>2. Numbers(g, S)
    BY <1>1 DEF Numbers
  <2> HIDE DEF g
  <2>3. SumFunctionOnSet(g, S) \in Int
    BY <2>1, <2>2, SumTypes
  <2> QED
    BY <2>1, <2>3 DEF AverageOf, g
<1>3. \E S \in SUBSET D : S # {} /\ AverageVolume = AverageOf(S)
  BY <1>1 DEF AverageVolume
<1> QED
  BY <1>2, <1>3

\* The thresholds that apply with the factor vol in the cache.
ThresholdsOf(cached, vol) ==
    <<IF cached /\ vol \in 7..9 THEN 8 * VolLow ELSE 10 * VolLow,
      IF cached /\ vol \in 10..14 THEN 8 * VolMid ELSE 10 * VolMid,
      IF cached /\ vol >= 15 THEN 8 * VolHigh ELSE 10 * VolHigh>>

\* The factor that they make of an average.
VolOf(avg, th) ==
    IF Below(avg, th[1]) THEN 3
    ELSE IF Below(avg, th[2]) THEN 7
    ELSE IF Below(avg, th[3]) THEN 10
    ELSE 15

\* The thresholds are in their order, the eased ones too.
LEMMA BelowChain ==
    ASSUME NEW a \in Int, NEW c \in Nat
    PROVE  LET avg == <<a, c>> IN
           /\ Below(avg, 8 * VolLow) => Below(avg, 10 * VolLow)
           /\ Below(avg, 8 * VolMid) => Below(avg, 10 * VolMid)
           /\ Below(avg, 8 * VolHigh) => Below(avg, 10 * VolHigh)
           /\ Below(avg, 10 * VolLow) => Below(avg, 10 * VolMid)
           /\ Below(avg, 10 * VolMid) => Below(avg, 10 * VolHigh)
<1>1. VolLow \in Int /\ VolMid \in Int /\ VolHigh \in Int
      /\ 0 < VolLow /\ VolLow < VolMid /\ VolMid < VolHigh
  BY AdaptiveAssumption
<1>2. /\ 8 * VolLow \in Int /\ 10 * VolLow \in Int /\ 8 * VolMid \in Int /\ 10 * VolMid \in Int
      /\ 8 * VolHigh \in Int /\ 10 * VolHigh \in Int
      /\ 8 * VolLow <= 10 * VolLow /\ 8 * VolMid <= 10 * VolMid /\ 8 * VolHigh <= 10 * VolHigh
      /\ 10 * VolLow <= 10 * VolMid /\ 10 * VolMid <= 10 * VolHigh
  BY <1>1
<1> QED
  BY <1>2, BelowMonotone

\* The factor of an average, once in the cache, is the factor of that average
\* again: the thresholds that it eases do not move it.
LEMMA SteadyVol ==
    ASSUME NEW a \in Int, NEW c \in Nat, NEW cached \in BOOLEAN, NEW v \in VolFactors
    PROVE  LET w == VolOf(<<a, c>>, ThresholdsOf(cached, v)) IN
           VolOf(<<a, c>>, ThresholdsOf(TRUE, w)) = w
<1> DEFINE avg == <<a, c>>
           w == VolOf(avg, ThresholdsOf(cached, v))
           l8 == Below(avg, 8 * VolLow)   l10 == Below(avg, 10 * VolLow)
           m8 == Below(avg, 8 * VolMid)   m10 == Below(avg, 10 * VolMid)
           h8 == Below(avg, 8 * VolHigh)  h10 == Below(avg, 10 * VolHigh)
<1>1. (l8 => l10) /\ (m8 => m10) /\ (h8 => h10) /\ (l10 => m10) /\ (m10 => h10)
  BY BelowChain
<1>2. v \in Int /\ ~(v \in 7..9 /\ v \in 10..14) /\ ~(v \in 7..9 /\ v >= 15)
      /\ ~(v \in 10..14 /\ v >= 15)
  BY DEF VolFactors
<1>3. w \in {3, 7, 10, 15}
  BY DEF VolOf
<1>5. PICK th : th = ThresholdsOf(cached, v)
  OBVIOUS
<1>6. \/ th = <<8 * VolLow, 10 * VolMid, 10 * VolHigh>>
      \/ th = <<10 * VolLow, 8 * VolMid, 10 * VolHigh>>
      \/ th = <<10 * VolLow, 10 * VolMid, 8 * VolHigh>>
      \/ th = <<10 * VolLow, 10 * VolMid, 10 * VolHigh>>
  BY <1>2, <1>5 DEF ThresholdsOf
<1>7. w = VolOf(avg, th)
  BY <1>5
<1>8. \A p, q, r : VolOf(avg, <<p, q, r>>) =
         IF Below(avg, p) THEN 3 ELSE IF Below(avg, q) THEN 7 ELSE IF Below(avg, r) THEN 10 ELSE 15
  BY DEF VolOf
<1> HIDE DEF w
<1>9. \/ w = IF l8 THEN 3 ELSE IF m10 THEN 7 ELSE IF h10 THEN 10 ELSE 15
      \/ w = IF l10 THEN 3 ELSE IF m8 THEN 7 ELSE IF h10 THEN 10 ELSE 15
      \/ w = IF l10 THEN 3 ELSE IF m10 THEN 7 ELSE IF h8 THEN 10 ELSE 15
      \/ w = IF l10 THEN 3 ELSE IF m10 THEN 7 ELSE IF h10 THEN 10 ELSE 15
  BY <1>6, <1>7, <1>8
<1> SUFFICES VolOf(avg, ThresholdsOf(TRUE, w)) = w
  BY DEF w
<1>10. CASE w = 3
  <2>1. l10
    BY <1>1, <1>9, <1>10
  <2>2. VolOf(avg, ThresholdsOf(TRUE, 3)) = 3
    BY <2>1 DEF VolOf, ThresholdsOf
  <2> QED
    BY <1>10, <2>2
<1>11. CASE w = 7
  <2>1. ~l8 /\ m10
    BY <1>1, <1>9, <1>11
  <2>2. VolOf(avg, ThresholdsOf(TRUE, 7)) = 7
    BY <2>1 DEF VolOf, ThresholdsOf
  <2> QED
    BY <1>11, <2>2
<1>12. CASE w = 10
  <2>1. ~l10 /\ ~m8 /\ h10
    BY <1>1, <1>9, <1>12
  <2>2. VolOf(avg, ThresholdsOf(TRUE, 10)) = 10
    BY <2>1 DEF VolOf, ThresholdsOf
  <2> QED
    BY <1>12, <2>2
<1>13. CASE w = 15
  <2>1. ~l10 /\ ~m10 /\ ~h8
    BY <1>1, <1>9, <1>13
  <2>2. VolOf(avg, ThresholdsOf(TRUE, 15)) = 15
    BY <2>1 DEF VolOf, ThresholdsOf
  <2> QED
    BY <1>13, <2>2
<1> QED
  BY <1>3, <1>10, <1>11, <1>12, <1>13

\* hs of n rows are a share of so many hundredths.
Shares(hs, n, hundredths) == 100 * hs >= hundredths * n

\* The regime that so many low and high rows of n make.
RegimeOf(lows, highs, n, cached, regime) ==
    LET low  == IF cached /\ regime <= 8 THEN 64 ELSE 80
        high == IF cached /\ regime >= 15 THEN 40
                ELSE IF cached /\ regime > 8 THEN 60
                ELSE 50
    IN  IF Shares(lows, n, low) THEN 8 ELSE IF Shares(highs, n, high) THEN 15 ELSE 10

\* The same of the regime.
LEMMA SteadyRegime ==
    ASSUME NEW lows \in Nat, NEW highs \in Nat, NEW n \in Nat, NEW cached \in BOOLEAN,
           NEW r \in RegimeFactors
    PROVE  LET q == RegimeOf(lows, highs, n, cached, r) IN
           RegimeOf(lows, highs, n, TRUE, q) = q
<1> DEFINE q == RegimeOf(lows, highs, n, cached, r)
           low == IF cached /\ r <= 8 THEN 64 ELSE 80
           high == IF cached /\ r >= 15 THEN 40 ELSE IF cached /\ r > 8 THEN 60 ELSE 50
<1>1. low \in {64, 80} /\ high \in {40, 50, 60} /\ low \in Int /\ high \in Int
  OBVIOUS
<1>2. q = IF Shares(lows, n, low) THEN 8 ELSE IF Shares(highs, n, high) THEN 15 ELSE 10
  BY DEF RegimeOf
<1>3. \A x \in Nat, s, t \in Int : s <= t /\ Shares(x, n, t) => Shares(x, n, s)
  <2> SUFFICES ASSUME NEW x \in Nat, NEW s \in Int, NEW t \in Int, s <= t, 100 * x >= t * n
               PROVE  100 * x >= s * n
    BY DEF Shares
  <2>1. s * n <= t * n /\ s * n \in Int /\ t * n \in Int /\ 100 * x \in Int
    OBVIOUS
  <2> QED
    BY <2>1
<1>4. q \in {8, 15, 10}
  BY <1>2
<1>5. RegimeOf(lows, highs, n, TRUE, 8) =
         IF Shares(lows, n, 64) THEN 8 ELSE IF Shares(highs, n, 50) THEN 15 ELSE 10
  BY DEF RegimeOf
<1>6. RegimeOf(lows, highs, n, TRUE, 15) =
         IF Shares(lows, n, 80) THEN 8 ELSE IF Shares(highs, n, 40) THEN 15 ELSE 10
  BY DEF RegimeOf
<1>7. RegimeOf(lows, highs, n, TRUE, 10) =
         IF Shares(lows, n, 80) THEN 8 ELSE IF Shares(highs, n, 60) THEN 15 ELSE 10
  BY DEF RegimeOf
<1> HIDE DEF q, low, high
<1>8. (Shares(lows, n, low) => Shares(lows, n, 64)) /\ (Shares(lows, n, 80) => Shares(lows, n, low))
      /\ (Shares(highs, n, high) => Shares(highs, n, 40))
      /\ (Shares(highs, n, 60) => Shares(highs, n, high))
  <2>1. 64 <= low /\ low <= 80 /\ 40 <= high /\ high <= 60
    BY <1>1
  <2> QED
    BY <1>1, <1>3, <2>1
<1> SUFFICES RegimeOf(lows, highs, n, TRUE, q) = q
  BY DEF q
<1>9. CASE q = 8
  <2>1. Shares(lows, n, low)
    BY <1>2, <1>9
  <2>2. RegimeOf(lows, highs, n, TRUE, 8) = 8
    BY <1>5, <1>8, <2>1
  <2> QED
    BY <1>9, <2>2
<1>10. CASE q = 15
  <2>1. ~Shares(lows, n, low) /\ Shares(highs, n, high)
    BY <1>2, <1>10
  <2>2. RegimeOf(lows, highs, n, TRUE, 15) = 15
    BY <1>6, <1>8, <2>1
  <2> QED
    BY <1>10, <2>2
<1>11. CASE q = 10
  <2>1. ~Shares(lows, n, low) /\ ~Shares(highs, n, high)
    BY <1>2, <1>11
  <2>2. RegimeOf(lows, highs, n, TRUE, 10) = 10
    BY <1>7, <1>8, <2>1
  <2> QED
    BY <1>11, <2>2
<1> QED
  BY <1>4, <1>9, <1>10, <1>11

\* VolFactor is VolOf, with the factors in the cache.
LEMMA VolIs ==
    \E k \in BOOLEAN :
       /\ k <=> Cached
       /\ \A avg : VolFactor(avg) = VolOf(avg, ThresholdsOf(k, factors.vol))
<1>1. CASE Cached
  <2>1. \A avg : VolFactor(avg) = VolOf(avg, ThresholdsOf(TRUE, factors.vol))
    BY <1>1 DEF VolFactor, VolOf, Thresholds, ThresholdsOf
  <2> QED
    BY <1>1, <2>1
<1>2. CASE ~Cached
  <2>1. \A avg : VolFactor(avg) = VolOf(avg, ThresholdsOf(FALSE, factors.vol))
    BY <1>2 DEF VolFactor, VolOf, Thresholds, ThresholdsOf
  <2> QED
    BY <1>2, <2>1
<1> QED
  BY <1>1, <1>2

\* How many of the rows have a mood.
OfMood(mood) == Cardinality({i \in DOMAIN recent : recent[i].mood = mood})

\* It is a number.
LEMMA MoodsCounted ==
    ASSUME RecentTyped PROVE \A mood : OfMood(mood) \in Nat
<1> SUFFICES ASSUME NEW mood PROVE OfMood(mood) \in Nat
  OBVIOUS
<1>1. DOMAIN recent = 1..Len(recent) /\ Len(recent) \in Nat
  BY DEF RecentTyped
<1>2. IsFiniteSet(1..Len(recent))
  BY <1>1, FS_Interval
<1> DEFINE S == {i \in DOMAIN recent : recent[i].mood = mood}
<1>3. S \subseteq 1..Len(recent)
  BY <1>1
<1> HIDE DEF S
<1>4. Cardinality(S) \in Nat
  BY <1>2, <1>3, FS_Subset, FS_CardinalityType
<1> QED
  BY <1>4 DEF OfMood, S

\* RegimeFactor is RegimeOf, with the factors in the cache.
LEMMA RegimeIs ==
    \E k \in BOOLEAN :
       /\ k <=> Cached
       /\ RegimeFactor = RegimeOf(OfMood("low"), OfMood("high"), Len(recent), k, factors.regime)
<1>1. CASE Cached
  BY <1>1 DEF RegimeFactor, RegimeOf, Share, Shares, OfMood
<1>2. CASE ~Cached
  BY <1>2 DEF RegimeFactor, RegimeOf, Share, Shares, OfMood
<1> QED
  BY <1>1, <1>2

\* The factors are calculated from the snapshots and the cached factors only.
LEMMA SameFactors ==
    ASSUME recent' = recent, noOrder' = noOrder, factors' = factors
    PROVE  /\ NewFactors' = NewFactors /\ Cached' = Cached
           /\ Replaces(NewFactors)' = Replaces(NewFactors)
<1>1. Cached' = Cached
  BY DEF Cached
<1>2. AverageVolume' = AverageVolume
  BY DEF AverageVolume, AverageOf
<1>3. VolFactor(AverageVolume)' = VolFactor(AverageVolume)
  <2>1. Thresholds' = Thresholds
    BY <1>1 DEF Thresholds
  <2> QED
    BY <1>2, <2>1 DEF VolFactor
<1>4. RegimeFactor' = RegimeFactor
  BY <1>1 DEF RegimeFactor, Share
<1>5. NewFactors' = NewFactors
  BY <1>3, <1>4 DEF NewFactors
<1>6. Replaces(NewFactors)' = Replaces(NewFactors)
  BY <1>1, <1>5 DEF Replaces
<1> QED
  BY <1>1, <1>5, <1>6

\* What is recalculated from the same snapshots is what was adopted.
LEMMA NewFactorsAgain ==
    ASSUME AdaptIInv, recent' = recent, noOrder' = noOrder, factors' = NewFactors
    PROVE  NewFactors' = NewFactors
<1>1. NewFactors \in FactorRecords /\ NewFactors # NoFactors
  BY NewFactorsTyped
<1>2. Cached'
  BY <1>1 DEF Cached, NoFactors, Factors
<1>3. CASE recent = << >> \/ Len(recent) < MinBuckets
  BY <1>3 DEF NewFactors
<1>4. CASE ~(recent = << >> \/ Len(recent) < MinBuckets)
  <2> DEFINE v == VolFactor(AverageVolume)
             r == RegimeFactor
  <2>1. NewFactors = Factors(v, r, FALSE)
    BY <1>4 DEF NewFactors
  <2>2. factors'.vol = v /\ factors'.regime = r
    BY <2>1 DEF Factors
  <2>3. NewFactors' = Factors(v', r', FALSE)
    BY <1>4 DEF NewFactors
  <2>4. v' = v
    <3>1. PICK k \in BOOLEAN : (k <=> Cached) /\
             \A avg : VolFactor(avg) = VolOf(avg, ThresholdsOf(k, factors.vol))
      BY VolIs
    <3>2. \A avg : VolFactor(avg)' = VolOf(avg', ThresholdsOf(TRUE, factors'.vol))
      BY <1>2 DEF VolFactor, VolOf, Thresholds, ThresholdsOf
    <3>3. AverageVolume' = AverageVolume
      BY DEF AverageVolume, AverageOf
    <3>4. PICK a, c : a = AverageVolume[1] /\ c = AverageVolume[2] /\ a \in Int /\ c \in Nat
                      /\ AverageVolume = <<a, c>>
      BY <1>4, AverageTyped
    <3>5. v' = VolOf(<<a, c>>, ThresholdsOf(TRUE, v))
      BY <1>2, <2>2, <3>3, <3>4 DEF VolFactor, VolOf, Thresholds, ThresholdsOf
    <3>6. v = VolOf(<<a, c>>, ThresholdsOf(k, factors.vol))
      BY <3>1, <3>4
    <3>7. factors.vol \in VolFactors
      BY DEF AdaptIInv, FactorRecords
    <3> HIDE DEF v
    <3> QED
      BY <3>4, <3>5, <3>6, <3>7, SteadyVol
  <2>5. r' = r
    <3>1. PICK k \in BOOLEAN : (k <=> Cached) /\
             r = RegimeOf(OfMood("low"), OfMood("high"), Len(recent), k, factors.regime)
      BY RegimeIs
    <3>2. r' = RegimeOf(OfMood("low"), OfMood("high"), Len(recent), TRUE, r)
      BY <1>2, <2>2 DEF RegimeFactor, RegimeOf, Share, Shares, OfMood
    <3>3. OfMood("low") \in Nat /\ OfMood("high") \in Nat /\ Len(recent) \in Nat
          /\ factors.regime \in RegimeFactors
      BY MoodsCounted DEF AdaptIInv, FactorRecords, RecentTyped
    <3> HIDE DEF r
    <3>4. PICK lows, highs, n : lows = OfMood("low") /\ highs = OfMood("high") /\ n = Len(recent)
      OBVIOUS
    <3>5. r = RegimeOf(lows, highs, n, k, factors.regime) /\ r' = RegimeOf(lows, highs, n, TRUE, r)
      BY <3>1, <3>2, <3>4
    <3>6. lows \in Nat /\ highs \in Nat /\ n \in Nat
      BY <3>3, <3>4
    <3>7. PICK old \in RegimeFactors : old = factors.regime
      BY <3>3
    <3>d. PICK d : d = r
      OBVIOUS
    <3>8. d = RegimeOf(lows, highs, n, k, old) /\ r' = RegimeOf(lows, highs, n, TRUE, d)
      BY <3>5, <3>7, <3>d
    <3>s. \A a, b, c \in Nat, x \in BOOLEAN, o \in RegimeFactors :
             RegimeOf(a, b, c, TRUE, RegimeOf(a, b, c, x, o)) = RegimeOf(a, b, c, x, o)
      BY SteadyRegime, Zenon
    <3>9. RegimeOf(lows, highs, n, TRUE, RegimeOf(lows, highs, n, k, old)) = RegimeOf(lows, highs, n, k, old)
      <4>1. k \in BOOLEAN /\ old \in RegimeFactors
        OBVIOUS
      <4>2. \A x \in BOOLEAN, o \in RegimeFactors :
               RegimeOf(lows, highs, n, TRUE, RegimeOf(lows, highs, n, x, o)) = RegimeOf(lows, highs, n, x, o)
        BY <3>6, <3>s, Zenon
      <4>3. \A o \in RegimeFactors :
               RegimeOf(lows, highs, n, TRUE, RegimeOf(lows, highs, n, k, o)) = RegimeOf(lows, highs, n, k, o)
        BY <4>1, <4>2, Zenon
      <4> QED
        BY <4>1, <4>3, Zenon
    <3>10. RegimeOf(lows, highs, n, TRUE, d) = d
      BY <3>8, <3>9, Zenon
    <3> QED
      BY <3>d, <3>8, <3>10
  <2> QED
    BY <2>1, <2>3, <2>4, <2>5
<1> QED
  BY <1>3, <1>4

\* Once the factors were made of the rows as they are, making them again
\* replaces nothing.
Settled == same => Cached /\ (NewFactors = factors \/ ~Replaces(NewFactors))

\* Every step keeps this.
LEMMA SettledSteps ==
    ASSUME AdaptIInv, Settled, [AdaptNext]_adaptVars PROVE Settled'
<1>1. CASE Recalculate
  <2> DEFINE new == NewFactors
             used == IF Replaces(new) THEN new ELSE factors
  <2>1. factors' = used /\ noOrder' = noOrder /\ recent' = recent
    BY <1>1 DEF Recalculate
  <2>2. CASE Replaces(new)
    <3>1. factors' = new
      BY <2>1, <2>2
    <3>2. NewFactors' = new
      BY <2>1, <3>1, NewFactorsAgain
    <3>3. new # NoFactors
      BY NewFactorsTyped
    <3>4. Cached'
      BY <3>1, <3>3 DEF Cached, NoFactors, Factors
    <3> QED
      BY <3>1, <3>2, <3>4 DEF Settled
  <2>3. CASE ~Replaces(new)
    <3>1. factors' = factors /\ Cached
      BY <2>1, <2>3 DEF Replaces
    <3>2. NewFactors' = NewFactors /\ Cached' = Cached
          /\ Replaces(NewFactors)' = Replaces(NewFactors)
      BY <2>1, <3>1, SameFactors
    <3>4. ~Replaces(NewFactors)'
      BY <2>3, <3>2
    <3> QED
      BY <3>1, <3>2, <3>4 DEF Settled
  <2> QED
    BY <2>2, <2>3
<1>2. CASE IntervalPasses \/ UNCHANGED adaptVars
  <2>1. UNCHANGED <<noOrder, recent, factors, same>>
    BY <1>2 DEF IntervalPasses, adaptVars
  <2>2. /\ NewFactors' = NewFactors /\ Cached' = Cached
        /\ Replaces(NewFactors)' = Replaces(NewFactors)
    BY <2>1, SameFactors
  <2> QED
    BY <2>1, <2>2 DEF Settled
<1>3. ASSUME NEW bucket \in Buckets, NextSnapshot(bucket) PROVE Settled'
  BY <1>3 DEF NextSnapshot, Settled
<1>4. CASE EngineRestarts
  BY <1>4 DEF EngineRestarts, Settled
<1> QED
  BY <1>1, <1>2, <1>3, <1>4 DEF AdaptNext

\* A recalculation without a new snapshot changes neither the factors nor the
\* profile.
THEOREM FactorsAreSteady ==
    AdaptSpec => SteadyFactors
<1>1. AdaptInit => Settled
  BY DEF AdaptInit, Settled
<1>2. AdaptIInv /\ Settled /\ [AdaptNext]_adaptVars => Settled'
  BY SettledSteps
<1>3. AdaptSpec => []Settled
  BY <1>1, <1>2, AdaptInvariant, PTL DEF AdaptSpec
<1>4. ASSUME AdaptIInv, Settled, [AdaptNext]_adaptVars, same, factors' # NoFactors
      PROVE  UNCHANGED <<factors, profile>>
  <2>1. CASE Recalculate
    <3> DEFINE used == IF Replaces(NewFactors) THEN NewFactors ELSE factors
    <3>1. factors' = used /\ profile' = Adapt(used)
      BY <2>1 DEF Recalculate
    <3>2. used = factors /\ Cached
      BY <1>4 DEF Settled
    <3> QED
      BY <1>4, <3>1, <3>2 DEF AdaptIInv
  <2>2. CASE IntervalPasses
    BY <2>2 DEF IntervalPasses
  <2>3. ASSUME NEW bucket \in Buckets, NextSnapshot(bucket) PROVE UNCHANGED <<factors, profile>>
    BY <2>3 DEF NextSnapshot
  <2>4. CASE EngineRestarts
    BY <1>4, <2>4 DEF EngineRestarts
  <2>5. CASE UNCHANGED adaptVars
    BY <2>5 DEF adaptVars
  <2> QED
    BY <1>4, <2>1, <2>2, <2>3, <2>4, <2>5 DEF AdaptNext
<1>5. AdaptIInv /\ Settled /\ [AdaptNext]_adaptVars
         => [same /\ factors' # NoFactors => UNCHANGED <<factors, profile>>]_adaptVars
  BY <1>4
<1> QED
  BY <1>3, <1>5, AdaptInvariant, PTL DEF AdaptSpec, SteadyFactors

-----------------------------------------------------------------------------
(* A fall of the volume factor.                                            *)

\* The average a factor was entered at is not below the unlowered threshold.
EnteredAbove ==
    Cached =>
       /\ factors.few => factors.vol \in {0, 3, 5}
       /\ ~factors.few =>
            /\ factors.vol \in {3, 7, 10, 15}
            /\ \E e \in Int, c \in Nat \ {0} :
                 /\ entered = <<e, c>>
                 /\ factors.vol = 7  => ~Below(<<e, c>>, 10 * VolLow)
                 /\ factors.vol = 10 => ~Below(<<e, c>>, 10 * VolMid)
                 /\ factors.vol = 15 => ~Below(<<e, c>>, 10 * VolHigh)

\* What is calculated from few rows, and from enough.
LEMMA NewFactorsAre ==
    ASSUME AdaptIInv
    PROVE  \/ NewFactors.few = TRUE /\ NewFactors.vol \in {0, 3, 5}
           \/ /\ NewFactors.few = FALSE /\ NewFactors.vol = VolFactor(AverageVolume)
              /\ recent # << >>
<1>1. CASE recent = << >> \/ Len(recent) < MinBuckets
  BY <1>1 DEF NewFactors, Factors
<1>2. CASE ~(recent = << >> \/ Len(recent) < MinBuckets)
  BY <1>2 DEF NewFactors, Factors
<1> QED
  BY <1>1, <1>2

\* The volume factor by the thresholds as the cached factor has moved them.
LEMMA VolFactorBy ==
    \A avg :
       /\ VolFactor(avg) \in {3, 7, 10, 15}
       /\ VolFactor(avg) = 3 => Below(avg, Thresholds[1])
       /\ VolFactor(avg) = 7 => ~Below(avg, Thresholds[1]) /\ Below(avg, Thresholds[2])
       /\ VolFactor(avg) = 10 => ~Below(avg, Thresholds[2]) /\ Below(avg, Thresholds[3])
       /\ VolFactor(avg) = 15 => ~Below(avg, Thresholds[3])
BY DEF VolFactor

\* Every step keeps what is known of a factor that was entered from below.
LEMMA EnteredAboveSteps ==
    ASSUME AdaptIInv, EnteredAbove, [AdaptNext]_adaptVars PROVE EnteredAbove'
<1>1. CASE Recalculate
  <2> DEFINE new == NewFactors
             used == IF Replaces(new) THEN new ELSE factors
  <2>1. /\ factors' = used
        /\ entered' = IF used.few THEN <<0, 0>>
                      ELSE IF factors.few \/ used.vol # factors.vol THEN AverageVolume
                      ELSE entered
    BY <1>1 DEF Recalculate
  <2>2. new \in FactorRecords /\ new # NoFactors /\ factors \in FactorRecords
    BY NewFactorsTyped DEF AdaptIInv
  <2>3. \/ new.few = TRUE /\ new.vol \in {0, 3, 5}
        \/ new.few = FALSE /\ new.vol = VolFactor(AverageVolume) /\ recent # << >>
    BY NewFactorsAre
  <2>4. ~Cached => factors.few = TRUE /\ used = new
    BY DEF Cached, NoFactors, Factors, Replaces
  <2>5. used = new \/ (used = factors /\ Cached)
    BY <2>4
  <2> HIDE DEF new, used
  <2>6. CASE used.few
    <3>1. used.vol \in {0, 3, 5}
      BY <2>2, <2>3, <2>5, <2>6 DEF EnteredAbove
    <3> QED
      BY <2>1, <2>6, <3>1 DEF EnteredAbove
  <2>7. CASE ~used.few /\ (factors.few \/ used.vol # factors.vol)
    <3>1. used = new /\ used.vol = VolFactor(AverageVolume) /\ recent # << >>
      BY <2>2, <2>3, <2>5, <2>7
    <3>2. PICK e \in Int, c \in Nat \ {0} : AverageVolume = <<e, c>>
      BY <3>1, AverageTyped
    <3>3. entered' = <<e, c>>
      BY <2>1, <2>7, <3>2
    <3>4. PICK v : v = used.vol
      OBVIOUS
    <3>5. /\ v \in {3, 7, 10, 15}
          /\ v = 7 => ~Below(<<e, c>>, Thresholds[1])
          /\ v = 10 => ~Below(<<e, c>>, Thresholds[2])
          /\ v = 15 => ~Below(<<e, c>>, Thresholds[3])
      BY <3>1, <3>2, <3>4, VolFactorBy
    <3>6. Cached /\ factors.vol \in {7, 10, 15} => factors.vol # v
      BY <2>7, <3>4 DEF EnteredAbove
    <3>7. factors.vol \in VolFactors
      BY <2>2 DEF FactorRecords
    <3>8. /\ v = 7 => ~(Cached /\ factors.vol \in 7..9)
          /\ v = 10 => ~(Cached /\ factors.vol \in 10..14)
          /\ v = 15 => ~(Cached /\ factors.vol >= 15)
      BY <3>6, <3>7 DEF VolFactors
    <3>9. /\ v = 7 => Thresholds[1] = 10 * VolLow
          /\ v = 10 => Thresholds[2] = 10 * VolMid
          /\ v = 15 => Thresholds[3] = 10 * VolHigh
      BY <3>8 DEF Thresholds
    <3>10. factors'.vol = v /\ factors'.few = used.few
      BY <2>1, <3>4
    <3>11. /\ v = 7  => ~Below(<<e, c>>, 10 * VolLow)
           /\ v = 10 => ~Below(<<e, c>>, 10 * VolMid)
           /\ v = 15 => ~Below(<<e, c>>, 10 * VolHigh)
      BY <3>5, <3>9
    <3> QED
      BY <2>7, <3>3, <3>5, <3>10, <3>11 DEF EnteredAbove
  <2>8. CASE ~used.few /\ ~factors.few /\ used.vol = factors.vol
    <3>1. Cached
      BY <2>8 DEF Cached, NoFactors, Factors
    <3>2. entered' = entered /\ factors'.vol = factors.vol /\ ~factors'.few
      BY <2>1, <2>8
    <3> QED
      BY <2>8, <3>1, <3>2 DEF EnteredAbove
  <2> QED
    BY <2>6, <2>7, <2>8
<1>2. ASSUME NEW bucket \in Buckets, NextSnapshot(bucket) PROVE EnteredAbove'
  BY <1>2 DEF NextSnapshot, EnteredAbove, Cached
<1>3. CASE EngineRestarts
  BY <1>3 DEF EngineRestarts, EnteredAbove, Cached
<1>4. CASE IntervalPasses \/ UNCHANGED adaptVars
  <2>1. factors' = factors /\ entered' = entered
    BY <1>4 DEF IntervalPasses, adaptVars
  <2> QED
    BY <2>1 DEF EnteredAbove, Cached
<1> QED
  BY <1>1, <1>2, <1>3, <1>4 DEF AdaptNext

\* Below a lowered threshold now, not below it then: a fifth is lost.
LEMMA LostAFifth ==
    ASSUME NEW a \in Int, NEW c \in Nat, NEW e \in Int, NEW d \in Nat \ {0},
           NEW X \in Nat, Below(<<a, c>>, 8 * X), ~Below(<<e, d>>, 10 * X)
    PROVE  10 * a * d < 8 * e * c
<1>1. 10 * a < (8 * X) * c /\ ~(10 * e < (10 * X) * d)
  BY DEF Below
<1>2. \A p, q \in Int : p < q => p * d < q * d
  OBVIOUS
<1>3. (10 * a) * d < ((8 * X) * c) * d
  BY <1>1, <1>2
<1>4. X * d <= e
  <2>1. (10 * X) * d = 10 * (X * d) /\ X * d \in Int
    OBVIOUS
  <2> QED
    BY <1>1, <2>1
<1>5. (X * d) * c <= e * c
  <2>1. \A p, q \in Int : p <= q => p * c <= q * c
    OBVIOUS
  <2>2. X * d \in Int
    OBVIOUS
  <2> QED
    BY <1>4, <2>1, <2>2
<1>6. ((8 * X) * c) * d = 8 * ((X * d) * c)
  OBVIOUS
<1>7. 10 * a * d = (10 * a) * d /\ 8 * e * c = 8 * (e * c)
      /\ (10 * a) * d \in Int /\ e * c \in Int /\ (X * d) * c \in Int
  OBVIOUS
<1> QED
  BY <1>3, <1>5, <1>6, <1>7

\* A fall from one factor to another is below the lowered threshold of the first.
LEMMA FallsBelow ==
    ASSUME WideThresholds, NEW a \in Int, NEW c \in Nat, Cached,
           factors.vol \in {3, 7, 10, 15}, VolFactor(<<a, c>>) < factors.vol
    PROVE  \/ factors.vol = 7 /\ Below(<<a, c>>, 8 * VolLow)
           \/ factors.vol = 10 /\ Below(<<a, c>>, 8 * VolMid)
           \/ factors.vol = 15 /\ Below(<<a, c>>, 8 * VolHigh)
<1>1. VolLow \in Int /\ VolMid \in Int /\ VolHigh \in Int
  BY AdaptiveAssumption
<1>2. /\ Below(<<a, c>>, 10 * VolLow) => Below(<<a, c>>, 8 * VolMid)
      /\ Below(<<a, c>>, 10 * VolMid) => Below(<<a, c>>, 8 * VolHigh)
      /\ Below(<<a, c>>, 10 * VolLow) => Below(<<a, c>>, 10 * VolMid)
      /\ 10 * VolLow \in Int /\ 8 * VolMid \in Int /\ 10 * VolMid \in Int /\ 8 * VolHigh \in Int
  <2>1. /\ 10 * VolLow \in Int /\ 8 * VolMid \in Int /\ 10 * VolMid \in Int /\ 8 * VolHigh \in Int
    BY <1>1
  <2>2. 10 * VolLow <= 8 * VolMid /\ 10 * VolMid <= 8 * VolHigh
    BY DEF WideThresholds
  <2> QED
    BY <2>1, <2>2, BelowMonotone, BelowChain
<1>3. PICK v : v = VolFactor(<<a, c>>)
  OBVIOUS
<1>4. /\ v \in {3, 7, 10, 15}
      /\ v = 3 => Below(<<a, c>>, Thresholds[1])
      /\ v = 7 => Below(<<a, c>>, Thresholds[2])
      /\ v = 10 => Below(<<a, c>>, Thresholds[3])
  BY <1>3, VolFactorBy
<1>5. CASE factors.vol = 7
  <2>1. v = 3 /\ Thresholds[1] = 8 * VolLow
    BY <1>3, <1>4, <1>5 DEF Thresholds
  <2> QED
    BY <1>4, <1>5, <2>1
<1>6. CASE factors.vol = 10
  <2>1. v \in {3, 7} /\ Thresholds[1] = 10 * VolLow /\ Thresholds[2] = 8 * VolMid
    BY <1>3, <1>4, <1>6 DEF Thresholds
  <2> QED
    BY <1>2, <1>4, <1>6, <2>1
<1>7. CASE factors.vol = 15
  <2>1. v \in {3, 7, 10} /\ Thresholds[1] = 10 * VolLow /\ Thresholds[2] = 10 * VolMid
        /\ Thresholds[3] = 8 * VolHigh
    BY <1>3, <1>4, <1>7 DEF Thresholds
  <2> QED
    BY <1>2, <1>4, <1>7, <2>1
<1>8. factors.vol # 3
  BY <1>3, <1>4
<1> QED
  BY <1>5, <1>6, <1>7, <1>8

\* With thresholds that far apart, a market's volume factor falls, whatever
\* came in between, only when its average has lost more than a fifth of what
\* it was when the factor was entered.
THEOREM FallsAreReal ==
    ASSUME WideThresholds PROVE AdaptSpec => FallsOnRealDrop
<1>1. AdaptInit => EnteredAbove
  BY DEF AdaptInit, EnteredAbove, Cached
<1>2. AdaptIInv /\ EnteredAbove /\ [AdaptNext]_adaptVars => EnteredAbove'
  BY EnteredAboveSteps
<1>3. AdaptSpec => []EnteredAbove
  BY <1>1, <1>2, AdaptInvariant, PTL DEF AdaptSpec
<1>4. ASSUME AdaptIInv, EnteredAbove, [AdaptNext]_adaptVars, Cached, ~factors.few,
             factors' # NoFactors, ~factors'.few, factors'.vol < factors.vol
      PROVE  10 * AverageVolume[1] * entered[2] < 8 * entered[1] * AverageVolume[2]
  <2>0. factors.vol \in {3, 7, 10, 15}
    BY <1>4 DEF EnteredAbove
  <2>1. Recalculate
    <3>1. ~(factors.vol < factors.vol)
      BY <2>0
    <3>2. CASE IntervalPasses
      BY <1>4, <3>1, <3>2 DEF IntervalPasses
    <3>3. ASSUME NEW bucket \in Buckets, NextSnapshot(bucket) PROVE FALSE
      BY <1>4, <3>1, <3>3 DEF NextSnapshot
    <3>4. CASE EngineRestarts
      BY <1>4, <3>4 DEF EngineRestarts
    <3>5. CASE UNCHANGED adaptVars
      BY <1>4, <3>1, <3>5 DEF adaptVars
    <3> QED
      BY <1>4, <3>2, <3>3, <3>4, <3>5 DEF AdaptNext
  <2>2. factors' = NewFactors
    <3>1. factors' = NewFactors \/ factors' = factors
      BY <2>1 DEF Recalculate
    <3> QED
      BY <1>4, <2>0, <3>1
  <2>3. factors'.vol = VolFactor(AverageVolume) /\ recent # << >>
    BY <1>4, <2>2, NewFactorsAre
  <2>4. PICK a \in Int, c \in Nat \ {0} : AverageVolume = <<a, c>>
    BY <1>4, <2>3, AverageTyped
  <2>5. PICK e \in Int, d \in Nat \ {0} :
          /\ entered = <<e, d>>
          /\ factors.vol = 7  => ~Below(<<e, d>>, 10 * VolLow)
          /\ factors.vol = 10 => ~Below(<<e, d>>, 10 * VolMid)
          /\ factors.vol = 15 => ~Below(<<e, d>>, 10 * VolHigh)
    BY <1>4 DEF EnteredAbove
  <2>6. \/ factors.vol = 7 /\ Below(<<a, c>>, 8 * VolLow)
        \/ factors.vol = 10 /\ Below(<<a, c>>, 8 * VolMid)
        \/ factors.vol = 15 /\ Below(<<a, c>>, 8 * VolHigh)
    BY <1>4, <2>0, <2>3, <2>4, FallsBelow
  <2>7. \E X \in Nat : Below(<<a, c>>, 8 * X) /\ ~Below(<<e, d>>, 10 * X)
    BY <2>5, <2>6, AdaptiveAssumption
  <2>8. 10 * a * d < 8 * e * c
    BY <2>7, LostAFifth
  <2> QED
    BY <2>4, <2>5, <2>8
<1>5. AdaptIInv /\ EnteredAbove /\ [AdaptNext]_adaptVars
        => [Cached /\ ~factors.few /\ factors' # NoFactors /\ ~factors'.few
              /\ factors'.vol < factors.vol
             => 10 * AverageVolume[1] * entered[2] < 8 * entered[1] * AverageVolume[2]]_adaptVars
  BY <1>4
<1> QED
  BY <1>3, <1>5, AdaptInvariant, PTL DEF AdaptSpec, FallsOnRealDrop
=============================================================================
