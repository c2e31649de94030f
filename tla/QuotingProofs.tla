--------------------------- MODULE QuotingProofs ----------------------------
(***************************************************************************)
(* What the strategies quote and what a plan leaves resting, for every     *)
(* grid, ladder and position: a plan settles, a pair of bids does not cost *)
(* more than the set it completes, offers are covered by what is held, up  *)
(* to the tolerance, and bids by their limit; and every machine of         *)
(* MCQuoting is well typed.                                                *)
(***************************************************************************)
EXTENDS MCQuoting, GateProofs, SnapshotsProofs, SequenceTheorems

-----------------------------------------------------------------------------
(* The plan (Selection, QuotePlan).                                        *)

-----------------------------------------------------------------------------
(* Selections.                                                             *)

\* A later index has a greater rank, and every rank is taken.
LEMMA RankCounts ==
    ASSUME NEW c \in Nat, NEW I \in SUBSET (1..c)
    PROVE  /\ IsFiniteSet(I) /\ Cardinality(I) \in Nat
           /\ \A i \in I : Rank(i, I) \in 1..Cardinality(I)
           /\ \A i, j \in I : i < j => Rank(i, I) < Rank(j, I)
           /\ \A k \in 1..Cardinality(I) : \E i \in I : Rank(i, I) = k
<1>1. IsFiniteSet(1..c)
  BY FS_Interval
<1>2. IsFiniteSet(I) /\ Cardinality(I) \in Nat
  BY <1>1, FS_Subset, FS_CardinalityType
<1> DEFINE upTo(i) == {j \in I : j <= i}
<1>3. \A i \in I : /\ IsFiniteSet(upTo(i)) /\ Cardinality(upTo(i)) \in Nat
                   /\ Cardinality(upTo(i)) <= Cardinality(I) /\ upTo(i) # {}
  BY <1>2, FS_Subset, FS_CardinalityType
<1>4. \A i \in I : Rank(i, I) \in 1..Cardinality(I)
  <2> SUFFICES ASSUME NEW i \in I PROVE Rank(i, I) \in 1..Cardinality(I)
    OBVIOUS
  <2>1. Cardinality(upTo(i)) # 0
    BY <1>3, FS_EmptySet
  <2>2. Rank(i, I) = Cardinality(upTo(i))
    BY DEF Rank
  <2> HIDE DEF upTo
  <2> QED
    BY <1>2, <1>3, <2>1, <2>2
<1>5. ASSUME NEW i \in I, NEW j \in I, i < j PROVE Rank(i, I) < Rank(j, I)
  <2>0. \A k \in I : k \in Int
    OBVIOUS
  <2>1. upTo(i) \subseteq upTo(j) /\ upTo(i) # upTo(j)
    <3>1. ASSUME NEW k \in I, k <= i PROVE k <= j
      BY <1>5, <2>0, <3>1
    <3>2. j \in upTo(j) /\ ~(j \in upTo(i))
      BY <1>5, <2>0
    <3> QED
      BY <3>1, <3>2
  <2>2. Rank(i, I) = Cardinality(upTo(i)) /\ Rank(j, I) = Cardinality(upTo(j))
    BY DEF Rank
  <2> HIDE DEF upTo
  <2>3. Cardinality(upTo(i)) <= Cardinality(upTo(j)) /\ Cardinality(upTo(i)) # Cardinality(upTo(j))
    BY <1>3, <2>1, FS_Subset
  <2> QED
    BY <1>3, <2>2, <2>3
<1> HIDE DEF upTo
<1>6. ASSUME NEW k \in 1..Cardinality(I) PROVE \E i \in I : Rank(i, I) = k
  <2> DEFINE W == 1..Cardinality(I)
             f == [i \in I |-> Rank(i, I)]
  <2>1. \A i, j \in I : f[i] = f[j] => i = j
    BY <1>4, <1>5
  <2>2. f \in Injection(I, W)
    BY <1>4, <2>1 DEF Injection, IsInjective
  <2>3. IsFiniteSet(W) /\ Cardinality(W) = Cardinality(I)
    BY <1>2, FS_Interval
  <2>4. f \in Surjection(I, W)
    BY <2>2, <2>3, FS_Injection
  <2>5. \A i \in I : f[i] = Rank(i, I)
    OBVIOUS
  <2> HIDE DEF f
  <2> QED
    BY <2>4, <2>5 DEF Surjection
<1> QED
  BY <1>2, <1>4, <1>5, <1>6

\* p has the elements of s at the indices I, at their ranks, and no others.
Lists(p, s, I) ==
    /\ DOMAIN p = 1..Cardinality(I)
    /\ \A i \in I : p[Rank(i, I)] = s[i]
    /\ \A k \in 1..Cardinality(I) : \E i \in I : Rank(i, I) = k /\ p[k] = s[i]

\* A selection does.
LEMMA PickedElements ==
    ASSUME NEW c \in Nat, NEW I \in SUBSET (1..c), NEW s
    PROVE  Lists(Picked(s, I), s, I)
<1>1. /\ Cardinality(I) \in Nat
      /\ \A i \in I : Rank(i, I) \in 1..Cardinality(I)
      /\ \A i, j \in I : i < j => Rank(i, I) < Rank(j, I)
      /\ \A k \in 1..Cardinality(I) : \E i \in I : Rank(i, I) = k
  BY RankCounts
<1>2. ASSUME NEW k \in 1..Cardinality(I)
      PROVE  LET i == CHOOSE i \in I : Rank(i, I) = k
             IN  i \in I /\ Rank(i, I) = k /\ Picked(s, I)[k] = s[i]
  BY <1>1 DEF Picked
<1>3. \A i, j \in I : Rank(i, I) = Rank(j, I) => i = j
  <2> SUFFICES ASSUME NEW i \in I, NEW j \in I, Rank(i, I) = Rank(j, I), i # j PROVE FALSE
    OBVIOUS
  <2>1. i \in Int /\ j \in Int
    OBVIOUS
  <2>2. Rank(i, I) < Rank(j, I) \/ Rank(j, I) < Rank(i, I)
    BY <1>1, <2>1
  <2>3. Rank(i, I) \in Int
    BY <1>1
  <2> QED
    BY <2>2, <2>3
<1>4. DOMAIN Picked(s, I) = 1..Cardinality(I)
  BY DEF Picked
<1> QED
  BY <1>1, <1>2, <1>3, <1>4 DEF Lists

\* A selection is a sequence of what it selects from.
LEMMA PickedTyped ==
    ASSUME NEW Q, NEW c \in Nat, NEW I \in SUBSET (1..c), NEW s, \A i \in I : s[i] \in Q
    PROVE  Picked(s, I) \in Seq(Q) /\ Len(Picked(s, I)) = Cardinality(I)
           /\ Cardinality(I) \in Nat /\ IsFiniteSet(I)
<1>1. Cardinality(I) \in Nat /\ IsFiniteSet(I)
  BY RankCounts
<1>2. \A k \in 1..Cardinality(I) : \E i \in I : Rank(i, I) = k /\ Picked(s, I)[k] = s[i]
  <2>1. Lists(Picked(s, I), s, I)
    BY PickedElements
  <2> QED
    BY <2>1 DEF Lists
<1>3. \A k \in 1..Cardinality(I) : Picked(s, I)[k] \in Q
  BY <1>2
<1>4. Picked(s, I) = [k \in 1..Cardinality(I) |-> Picked(s, I)[k]]
  BY DEF Picked
<1>5. Picked(s, I) \in [1..Cardinality(I) -> Q]
  BY <1>3, <1>4
<1> QED
  BY <1>1, <1>5

\* The sum over what is picked is the sum over what it is picked from.
LEMMA SumPicked ==
    ASSUME NEW c \in Nat, NEW I \in SUBSET (1..c), NEW f, NEW g,
           Numbers(g, 1..Cardinality(I)), \A i \in I : f[i] = g[Rank(i, I)]
    PROVE  SumFunctionOnSet(f, I) = SumFunctionOnSet(g, 1..Cardinality(I))
<1> DEFINE n == Cardinality(I)
           p == [i \in I |-> Rank(i, I)]
<1>1. /\ IsFiniteSet(I)
      /\ \A i \in I : Rank(i, I) \in 1..n
      /\ \A i, j \in I : i < j => Rank(i, I) < Rank(j, I)
      /\ \A k \in 1..n : \E i \in I : Rank(i, I) = k
  BY RankCounts
<1>0. n \in Nat
  BY RankCounts
<1>2. \A i, j \in I : p[i] = p[j] => i = j
  <2> SUFFICES ASSUME NEW i \in I, NEW j \in I, Rank(i, I) = Rank(j, I), i # j PROVE FALSE
    OBVIOUS
  <2>1. Rank(i, I) < Rank(j, I) \/ Rank(j, I) < Rank(i, I)
    BY <1>1
  <2>2. Rank(i, I) \in Int
    BY <1>1
  <2> QED
    BY <2>1, <2>2
<1>3. p \in [I -> 1..n] /\ \A i \in I : f[i] = g[p[i]]
  BY <1>1
<1>4. {p[i] : i \in I} = 1..n
  <2>1. \A i \in I : p[i] = Rank(i, I)
    OBVIOUS
  <2> HIDE DEF p, n
  <2>2. \A k \in 1..n : \E i \in I : p[i] = k
    BY <1>1, <2>1
  <2> QED
    BY <1>3, <2>2
<1> HIDE DEF n, p
<1>5. SumFunctionOnSet(f, I) = SumFunctionOnSet(g, {p[i] : i \in I})
  <2>1. PICK U, R : U = 1..n /\ R = I
    OBVIOUS
  <2>2. Numbers(g, U) /\ p \in [R -> U] /\ IsFiniteSet(R)
    BY <1>1, <1>3, <2>1 DEF n
  <2>3. (\A x, y \in R : p[x] = p[y] => x = y) /\ (\A x \in R : f[x] = g[p[x]])
    BY <1>2, <1>3, <2>1
  <2>4. SumFunctionOnSet(f, R) = SumFunctionOnSet(g, {p[x] : x \in R})
    BY <2>2, <2>3, SumRenamed
  <2> QED
    BY <2>1, <2>4
<1> QED
  BY <1>4, <1>5 DEF n

-----------------------------------------------------------------------------
(* A plan, quote by quote.                                                 *)

\* A plan while the targets are gone through: the orders it keeps and the
\* quotes it places so far.
PlansOf(live, Q) == [keep : SUBSET DOMAIN live, place : Seq(Q)]

\* The plan before the first target.
NoPlan == [keep |-> {}, place |-> << >>]

\* The plans after so many of the quotes.
PlanRun(P, targets, live, Q, tol) ==
    /\ P \in [0..Len(targets) -> PlansOf(live, Q)]
    /\ P[0] = NoPlan
    /\ \A k \in 1..Len(targets) : P[k] = Match(live, P[k - 1], targets[k], tol)
    /\ P[Len(targets)] = Reconcile(targets, live, tol)

\* The orders that would do for a target and are not kept for an earlier one.
FreeFor(live, plan, q, tol) == {i \in DOMAIN live : i \notin plan.keep /\ Satisfies(live[i], q, tol)}

\* The first of them, the one that reconciler.py takes.
FirstFree(live, plan, q, tol) ==
    CHOOSE i \in FreeFor(live, plan, q, tol) : \A j \in FreeFor(live, plan, q, tol) : i <= j

\* There is a first when there is any.
LEMMA FirstFreeIsFirst ==
    ASSUME NEW Q, NEW tol, NEW live \in Seq(Q), NEW plan, NEW q, FreeFor(live, plan, q, tol) # {}
    PROVE  /\ FirstFree(live, plan, q, tol) \in FreeFor(live, plan, q, tol)
           /\ \A j \in FreeFor(live, plan, q, tol) : FirstFree(live, plan, q, tol) <= j
<1> DEFINE B == FreeFor(live, plan, q, tol)
<1>1. B \in SUBSET Nat
  BY DEF FreeFor
<1> HIDE DEF B
<1>2. \E n \in B : \A k \in B : n <= k
  BY <1>1, LeastNumber DEF B
<1> QED
  BY <1>2 DEF B, FirstFree

\* What the plan is after a target: it keeps the first free order, or places
\* the target.
Matched(after, live, plan, q, tol) ==
    /\ FreeFor(live, plan, q, tol) = {} =>
         after.keep = plan.keep /\ after.place = Append(plan.place, q)
    /\ FreeFor(live, plan, q, tol) # {} =>
         /\ after.keep = plan.keep \cup {FirstFree(live, plan, q, tol)}
         /\ after.place = plan.place

\* What matching one quote does.
LEMMA MatchStep ==
    ASSUME NEW Q, NEW tol, NEW live \in Seq(Q), NEW plan \in PlansOf(live, Q), NEW q \in Q
    PROVE  /\ Match(live, plan, q, tol) \in PlansOf(live, Q)
           /\ Matched(Match(live, plan, q, tol), live, plan, q, tol)
<1>1. plan.keep \in SUBSET DOMAIN live /\ plan.place \in Seq(Q)
      /\ plan = [keep |-> plan.keep, place |-> plan.place]
  BY DEF PlansOf
<1> DEFINE free == FreeFor(live, plan, q, tol)
           first == FirstFree(live, plan, q, tol)
<1>a. Match(live, plan, q, tol) = IF free = {} THEN [plan EXCEPT !.place = Append(plan.place, q)]
                             ELSE [plan EXCEPT !.keep = plan.keep \cup {first}]
  BY Zenon DEF Match, FreeFor, FirstFree
<1> HIDE DEF free, first
<1>2. Match(live, plan, q, tol) =
         IF free = {}
         THEN [keep |-> plan.keep, place |-> Append(plan.place, q)]
         ELSE [keep |-> plan.keep \cup {first}, place |-> plan.place]
  BY <1>1, <1>a
<1>3. Append(plan.place, q) \in Seq(Q)
  BY <1>1
<1>4. free # {} => first \in DOMAIN live
  BY FirstFreeIsFirst DEF FreeFor, free, first
<1>5. /\ Match(live, plan, q, tol) \in PlansOf(live, Q)
      /\ free = {} => /\ Match(live, plan, q, tol).keep = plan.keep
                      /\ Match(live, plan, q, tol).place = Append(plan.place, q)
      /\ free # {} => /\ Match(live, plan, q, tol).keep = plan.keep \cup {first}
                      /\ Match(live, plan, q, tol).place = plan.place
  BY <1>1, <1>2, <1>3, <1>4 DEF PlansOf
<1> QED
  BY <1>5 DEF free, first, Matched

\* Reconcile goes through the quotes in their order.
LEMMA PlanRuns ==
    ASSUME NEW Q, NEW tol, NEW live \in Seq(Q), NEW targets \in Seq(Q)
    PROVE  \E P : PlanRun(P, targets, live, Q, tol)
<1> DEFINE n == Len(targets)
           S == DOMAIN targets
           V == PlansOf(live, Q)
           step == [k \in S |-> [p \in V |-> Match(live, p, targets[k], tol)]]
           pick == [s \in SUBSET S |-> Max(s)]
<1>1. n \in Nat /\ S = 1..n /\ IsFiniteSet(1..n)
  BY FS_Interval
<1>2. NoPlan \in V
  BY DEF NoPlan, PlansOf
<1>3. \A k \in S, p \in V : Match(live, p, targets[k], tol) \in V
  BY MatchStep
<1>4. step \in [S -> [V -> V]] /\ \A k \in S, p \in V : step[k][p] = Match(live, p, targets[k], tol)
  BY <1>3
<1>5. \A s \in SUBSET S : s # {} => pick[s] \in s /\ pick[s] = Max(s) /\ \A k \in s : k <= Max(s)
  <2> SUFFICES ASSUME NEW s \in SUBSET S, s # {}
               PROVE  Max(s) \in s /\ \A k \in s : k <= Max(s)
    OBVIOUS
  <2>1. s \in SUBSET (0..n)
    BY <1>1
  <2> HIDE DEF n, S, pick
  <2> QED
    BY <1>1, <2>1, MaxIsGreatest
<1> DEFINE Eq(h) == h = [s \in SUBSET S |->
                           IF s = {} THEN NoPlan
                           ELSE Match(live, h[s \ {Max(s)}], targets[Max(s)], tol)]
<1>6. Reconcile(targets, live, tol) = (CHOOSE h : Eq(h))[S]
  BY DEF Reconcile, FoldLeft, MapThenFoldSet, NoPlan
<1> HIDE DEF step, pick, V, Eq
<1>7. IsFiniteSet(S) /\ Picks(pick, S)
  BY <1>1, <1>5 DEF Picks
<1>8. PICK g \in [SUBSET S -> V] : Solves(g, S, NoPlan, step, pick)
  BY <1>2, <1>4, <1>7, SolutionExists
<1>9. \A s \in SUBSET S : s # {} =>
         /\ Max(s) \in S /\ s \ {Max(s)} \in SUBSET S
         /\ g[s] = Match(live, g[s \ {Max(s)}], targets[Max(s)], tol)
  BY <1>4, <1>5, <1>8 DEF Solves
<1>10. Eq(g)
  <2>1. \A s \in SUBSET S : g[s] = IF s = {} THEN NoPlan
                                   ELSE Match(live, g[s \ {Max(s)}], targets[Max(s)], tol)
    BY <1>8, <1>9 DEF Solves
  <2> QED
    BY <1>8, <2>1 DEF Eq
<1>11. PICK h : h = (CHOOSE h1 : Eq(h1)) /\ Eq(h)
  BY <1>10
<1>12. \A s \in SUBSET S : h[s] = IF s = {} THEN NoPlan
                                   ELSE Match(live, h[s \ {Max(s)}], targets[Max(s)], tol)
  BY <1>11 DEF Eq
<1> DEFINE P == [k \in 0..n |-> h[1..k]]
<1>13. \A k \in 1..n : /\ 1..k \in SUBSET S /\ 1..k # {} /\ Max(1..k) = k
                       /\ (1..k) \ {k} = 1..(k - 1) /\ k - 1 \in 0..n
  <2> SUFFICES ASSUME NEW k \in 1..n
               PROVE  /\ 1..k \in SUBSET S /\ 1..k # {} /\ Max(1..k) = k
                      /\ (1..k) \ {k} = 1..(k - 1) /\ k - 1 \in 0..n
    OBVIOUS
  <2>1. 1..k \in SUBSET S /\ k \in 1..k
    BY <1>1
  <2>2. Max(1..k) \in 1..k /\ k <= Max(1..k)
    BY <2>1, <1>5
  <2> QED
    BY <1>1, <2>1, <2>2
<1>14. \A k \in 1..n : P[k] = Match(live, P[k - 1], targets[k], tol)
  <2> SUFFICES ASSUME NEW k \in 1..n PROVE P[k] = Match(live, P[k - 1], targets[k], tol)
    OBVIOUS
  <2>1. k \in 0..n /\ k - 1 \in 0..n
    BY <1>1
  <2>2. P[k] = h[1..k] /\ P[k - 1] = h[1..(k - 1)]
    BY <2>1
  <2> QED
    BY <2>2, <1>12, <1>13
<1>15. P[0] = NoPlan
  <2>1. 1..0 = {} /\ 0 \in 0..n
    BY <1>1
  <2> QED
    BY <2>1, <1>12
<1>16. P[n] = Reconcile(targets, live, tol)
  BY <1>1, <1>6, <1>11
<1>17. \A k \in 0..n : P[k] \in V
  <2> DEFINE Good == {k \in Nat : k <= n => P[k] \in V}
  <2> HIDE DEF P
  <2>1. 0 \in Good
    BY <1>2, <1>15
  <2>2. ASSUME NEW k \in Good PROVE k + 1 \in Good
    <3>1. CASE k + 1 <= n
      <4>1. P[k] \in V /\ k + 1 \in 1..n /\ (k + 1) - 1 = k
        BY <1>1, <3>1
      <4>2. P[k + 1] = Match(live, P[k], targets[k + 1], tol)
        BY <1>14, <4>1
      <4> QED
        BY <1>1, <1>3, <4>1, <4>2
    <3>2. CASE ~(k + 1 <= n)
      BY <3>2
    <3> QED
      BY <3>1, <3>2
  <2> HIDE DEF Good
  <2>3. Good = Nat
    BY <2>1, <2>2, NumbersByStep DEF Good
  <2> QED
    BY <1>1, <2>3 DEF Good
<1>18. P \in [0..n -> V]
  BY <1>17
<1> HIDE DEF P
<1> QED
  BY <1>14, <1>15, <1>16, <1>18 DEF PlanRun, V

\* The quote k finds a live order, the first that is free.
Takes(P, targets, live, k, tol) == FreeFor(live, P[k - 1], targets[k], tol) # {}

\* The order that the k-th target takes.
TakenBy(P, targets, live, k, tol) == FirstFree(live, P[k - 1], targets[k], tol)

\* One step of a run.
StepOf(P, targets, live, Q, k, tol) ==
    /\ P[k - 1] \in PlansOf(live, Q) /\ P[k] \in PlansOf(live, Q)
    /\ targets[k] \in Q
    /\ Takes(P, targets, live, k, tol) =>
         /\ TakenBy(P, targets, live, k, tol) \in DOMAIN live \ P[k - 1].keep
         /\ Satisfies(live[TakenBy(P, targets, live, k, tol)], targets[k], tol)
         /\ \A i \in DOMAIN live \ P[k - 1].keep :
               Satisfies(live[i], targets[k], tol) => TakenBy(P, targets, live, k, tol) <= i
         /\ P[k].keep = P[k - 1].keep \cup {TakenBy(P, targets, live, k, tol)}
         /\ P[k].place = P[k - 1].place
    /\ ~Takes(P, targets, live, k, tol) =>
         /\ \A i \in DOMAIN live \ P[k - 1].keep : ~Satisfies(live[i], targets[k], tol)
         /\ P[k].keep = P[k - 1].keep
         /\ P[k].place = Append(P[k - 1].place, targets[k])

\* A run of the plan goes from each target to the next.
LEMMA RunSteps ==
    ASSUME NEW Q, NEW tol, NEW live \in Seq(Q), NEW targets \in Seq(Q), NEW P,
           PlanRun(P, targets, live, Q, tol), NEW k \in 1..Len(targets)
    PROVE  StepOf(P, targets, live, Q, k, tol)
<1> DEFINE free == FreeFor(live, P[k - 1], targets[k], tol)
           first == FirstFree(live, P[k - 1], targets[k], tol)
<1>1. k - 1 \in 0..Len(targets) /\ k \in 0..Len(targets) /\ targets[k] \in Q
  OBVIOUS
<1>2. P[k - 1] \in PlansOf(live, Q) /\ P[k] \in PlansOf(live, Q)
  BY <1>1 DEF PlanRun
<1>3. P[k] = Match(live, P[k - 1], targets[k], tol)
  BY DEF PlanRun
<1>4. /\ free = {} => P[k].keep = P[k - 1].keep /\ P[k].place = Append(P[k - 1].place, targets[k])
      /\ free # {} => P[k].keep = P[k - 1].keep \cup {first} /\ P[k].place = P[k - 1].place
  <2>1. PICK plan \in PlansOf(live, Q), q \in Q : plan = P[k - 1] /\ q = targets[k]
    BY <1>1, <1>2
  <2>2. P[k] = Match(live, plan, q, tol)
    BY <1>3, <2>1
  <2>3. Matched(P[k], live, plan, q, tol)
    BY <2>2, MatchStep
  <2> QED
    BY <2>1, <2>3 DEF Matched
<1>5. free # {} => first \in free /\ \A j \in free : first <= j
  BY FirstFreeIsFirst
<1>6. \A i : i \in free <=> i \in DOMAIN live \ P[k - 1].keep /\ Satisfies(live[i], targets[k], tol)
  BY DEF FreeFor
<1>7. Takes(P, targets, live, k, tol) <=> free # {}
  BY DEF Takes
<1>8. TakenBy(P, targets, live, k, tol) = first
  BY DEF TakenBy
<1> HIDE DEF free, first
<1> QED
  BY <1>1, <1>2, <1>4, <1>5, <1>6, <1>7, <1>8 DEF StepOf

\* A plan only grows.
GrowsTo(p, q) ==
    /\ p.keep \subseteq q.keep
    /\ Len(p.place) <= Len(q.place)
    /\ \A i \in 1..Len(p.place) : q.place[i] = p.place[i]

\* What one stretch of targets adds and what the next one adds make up what
\* both add.
LEMMA GrowthAdds ==
    ASSUME NEW Q, NEW live, NEW p \in PlansOf(live, Q), NEW q \in PlansOf(live, Q),
           NEW r \in PlansOf(live, Q), GrowsTo(p, q), GrowsTo(q, r)
    PROVE  GrowsTo(p, r)
<1>1. Len(p.place) \in Nat /\ Len(q.place) \in Nat /\ Len(r.place) \in Nat
  BY DEF PlansOf
<1>2. PICK a, b, c : a = Len(p.place) /\ b = Len(q.place) /\ c = Len(r.place)
  OBVIOUS
<1>3. a \in Nat /\ b \in Nat /\ c \in Nat /\ a <= b /\ b <= c
  BY <1>1, <1>2 DEF GrowsTo
<1>4. a <= c /\ \A i \in 1..a : i \in 1..b
  BY <1>3
<1>5. \A i \in 1..a : r.place[i] = p.place[i]
  BY <1>2, <1>4 DEF GrowsTo
<1>6. p.keep \subseteq r.keep
  BY DEF GrowsTo
<1> QED
  BY <1>2, <1>4, <1>5, <1>6 DEF GrowsTo

\* A target only ever adds to the plan.
LEMMA StepGrows ==
    ASSUME NEW Q, NEW tol, NEW live \in Seq(Q), NEW targets \in Seq(Q), NEW P,
           PlanRun(P, targets, live, Q, tol), NEW k \in 1..Len(targets)
    PROVE  GrowsTo(P[k - 1], P[k])
<1>1. StepOf(P, targets, live, Q, k, tol)
  BY RunSteps
<1>2. P[k - 1].place \in Seq(Q) /\ targets[k] \in Q
  BY <1>1 DEF StepOf, PlansOf
<1>3. CASE Takes(P, targets, live, k, tol)
  BY SMTT(30), <1>1, <1>2, <1>3 DEF StepOf, GrowsTo
<1>4. CASE ~Takes(P, targets, live, k, tol)
  <2>1. P[k].keep = P[k - 1].keep /\ P[k].place = Append(P[k - 1].place, targets[k])
    BY <1>1, <1>4 DEF StepOf
  <2> QED
    BY <1>2, <2>1 DEF GrowsTo
<1> QED
  BY <1>3, <1>4

\* So does any stretch of targets.
LEMMA RunGrows ==
    ASSUME NEW Q, NEW tol, NEW live \in Seq(Q), NEW targets \in Seq(Q), NEW P,
           PlanRun(P, targets, live, Q, tol), NEW j \in 0..Len(targets), NEW k \in j..Len(targets)
    PROVE  GrowsTo(P[j], P[k])
<1> DEFINE n == Len(targets)
           Good == {i \in Nat : j <= i /\ i <= n => GrowsTo(P[j], P[i])}
<1>0. n \in Nat
  OBVIOUS
<1>t. \A i \in 0..n : P[i] \in PlansOf(live, Q)
  BY DEF PlanRun
<1>1. GrowsTo(P[j], P[j])
  BY <1>t DEF GrowsTo, PlansOf
<1> HIDE DEF n
<1>2. 0 \in Good
  <2>1. j <= 0 => j = 0
    BY <1>0 DEF n
  <2> QED
    BY <1>1, <2>1
<1>3. ASSUME NEW i \in Good PROVE i + 1 \in Good
  <2> SUFFICES ASSUME j <= i + 1, i + 1 <= n PROVE GrowsTo(P[j], P[i + 1])
    OBVIOUS
  <2>1. j \in Int /\ i \in Nat
    OBVIOUS
  <2>2. CASE j = i + 1
    BY <1>1, <2>2
  <2>3. CASE j # i + 1
    <3>1. j <= i /\ i <= n /\ i + 1 \in 1..n /\ (i + 1) - 1 = i /\ i \in 0..n /\ i + 1 \in 0..n
          /\ j \in 0..n
      BY <1>0, <2>1, <2>3 DEF n
    <3>2. GrowsTo(P[j], P[i])
      BY <3>1
    <3>3. GrowsTo(P[i], P[i + 1])
      BY <3>1, StepGrows DEF n
    <3> QED
      BY <1>t, <3>1, <3>2, <3>3, GrowthAdds
  <2> QED
    BY <2>2, <2>3
<1> HIDE DEF Good
<1>4. Good = Nat
  BY <1>2, <1>3, NumbersByStep DEF Good
<1> QED
  BY <1>0, <1>4 DEF Good, n

\* What is kept was taken by a quote, and what is placed is for one.
Sourced(P, targets, live, k, tol) ==
    /\ \A x \in P[k].keep : \E j \in 1..k :
          Takes(P, targets, live, j, tol) /\ x = TakenBy(P, targets, live, j, tol)
    /\ \A i \in 1..Len(P[k].place) : \E j \in 1..k :
          ~Takes(P, targets, live, j, tol) /\ Len(P[j].place) = i

\* What is kept and placed so far comes of the targets so far.
LEMMA RunSourced ==
    ASSUME NEW Q, NEW tol, NEW live \in Seq(Q), NEW targets \in Seq(Q), NEW P,
           PlanRun(P, targets, live, Q, tol), NEW k \in 0..Len(targets)
    PROVE  Sourced(P, targets, live, k, tol)
<1> DEFINE n == Len(targets)
           Good == {i \in Nat : i <= n => Sourced(P, targets, live, i, tol)}
<1>0. n \in Nat
  OBVIOUS
<1>1. 0 \in Good
  BY DEF PlanRun, NoPlan, Sourced
<1>2. ASSUME NEW i \in Good PROVE i + 1 \in Good
  <2> SUFFICES ASSUME i + 1 <= n PROVE Sourced(P, targets, live, i + 1, tol)
    OBVIOUS
  <2>1. i \in Nat /\ i + 1 \in 1..n /\ (i + 1) - 1 = i /\ i <= n
    BY <1>0
  <2>2. Sourced(P, targets, live, i, tol)
    BY <2>1
  <2>3. PICK m \in 1..n : m = i + 1 /\ m - 1 = i
    BY <2>1
  <2>4. StepOf(P, targets, live, Q, m, tol)
    BY RunSteps
  <2>5. m \in 1..m /\ \A j \in 1..i : j \in 1..m
    BY <2>1, <2>3
  <2>6. P[i].place \in Seq(Q) /\ targets[m] \in Q
    BY <2>3, <2>4 DEF StepOf, PlansOf
  <2>7. CASE Takes(P, targets, live, m, tol)
    <3>1. P[m].keep = P[i].keep \cup {TakenBy(P, targets, live, m, tol)} /\ P[m].place = P[i].place
      BY <2>3, <2>4, <2>7 DEF StepOf
    <3>2. ASSUME NEW x \in P[m].keep
          PROVE  \E j \in 1..m : Takes(P, targets, live, j, tol) /\ x = TakenBy(P, targets, live, j, tol)
      BY <2>2, <2>5, <2>7, <3>1 DEF Sourced
    <3>3. ASSUME NEW x \in 1..Len(P[m].place)
          PROVE  \E j \in 1..m : ~Takes(P, targets, live, j, tol) /\ Len(P[j].place) = x
      BY <2>2, <2>5, <3>1 DEF Sourced
    <3> QED
      BY <2>3, <3>2, <3>3 DEF Sourced
  <2>8. CASE ~Takes(P, targets, live, m, tol)
    <3>1. P[m].keep = P[i].keep /\ P[m].place = Append(P[i].place, targets[m])
      BY <2>3, <2>4, <2>8 DEF StepOf
    <3>2. ASSUME NEW x \in P[m].keep
          PROVE  \E j \in 1..m : Takes(P, targets, live, j, tol) /\ x = TakenBy(P, targets, live, j, tol)
      BY <2>2, <2>5, <3>1 DEF Sourced
    <3>3. ASSUME NEW x \in 1..Len(P[m].place)
          PROVE  \E j \in 1..m : ~Takes(P, targets, live, j, tol) /\ Len(P[j].place) = x
      <4>1. Len(P[m].place) = Len(P[i].place) + 1 /\ Len(P[i].place) \in Nat
        BY <2>6, <3>1
      <4>2. CASE x = Len(P[m].place)
        BY <2>5, <2>8, <4>2
      <4>3. CASE x # Len(P[m].place)
        <5>1. PICK a \in Nat : a = Len(P[i].place) /\ Len(P[m].place) = a + 1
          BY <4>1
        <5>2. x \in 1..(a + 1) /\ x # a + 1
          BY <4>3, <5>1
        <5>3. x \in 1..a
          BY <5>2
        <5>4. x \in 1..Len(P[i].place)
          BY <5>1, <5>3
        <5> QED
          BY <2>2, <2>5, <5>4 DEF Sourced
      <4> QED
        BY <4>2, <4>3
    <3> QED
      BY <2>3, <3>2, <3>3 DEF Sourced
  <2> QED
    BY <2>7, <2>8
<1> HIDE DEF Good
<1>3. Good = Nat
  BY <1>1, <1>2, NumbersByStep DEF Good
<1> QED
  BY <1>0, <1>3 DEF Good, n

-----------------------------------------------------------------------------
(* The orders after a plan.                                                *)

\* The executed plan: what is kept, in the order it was in, then what is placed.
AfterPlan(after, plan, live, Q) ==
    /\ Cardinality(plan.keep) \in Nat
    /\ after \in Seq(Q) /\ Len(after) = Cardinality(plan.keep) + Len(plan.place)
    /\ \A x \in plan.keep : /\ Rank(x, plan.keep) \in 1..Cardinality(plan.keep)
                            /\ after[Rank(x, plan.keep)] = live[x]
    /\ \A x, y \in plan.keep : x < y => Rank(x, plan.keep) < Rank(y, plan.keep)
    /\ \A i \in 1..Cardinality(plan.keep) : \E x \in plan.keep :
          Rank(x, plan.keep) = i /\ after[i] = live[x]
    /\ \A i \in 1..Len(plan.place) : after[Cardinality(plan.keep) + i] = plan.place[i]

\* What rests after the plan is executed: the orders kept, in their order,
\* and then the quotes placed.
LEMMA ExecutedIs ==
    ASSUME NEW Q, NEW live \in Seq(Q), NEW plan \in PlansOf(live, Q)
    PROVE  AfterPlan(Executed(plan, live), plan, live, Q)
<1> DEFINE K == plan.keep
           kept == Picked(live, K)
           c == Cardinality(K)
           after == Executed(plan, live)
<1>1. plan.place \in Seq(Q) /\ K \in SUBSET DOMAIN live
  BY DEF PlansOf
<1>2. PICK n \in Nat : DOMAIN live = 1..n
  OBVIOUS
<1>3. K \in SUBSET (1..n) /\ \A x \in K : live[x] \in Q
  BY <1>1, <1>2
<1>4. kept \in Seq(Q) /\ Len(kept) = c /\ c \in Nat
  BY <1>3, PickedTyped
<1>5. Lists(kept, live, K)
  BY <1>3, PickedElements
<1>6. /\ \A x \in K : Rank(x, K) \in 1..c
      /\ \A x, y \in K : x < y => Rank(x, K) < Rank(y, K)
  BY <1>3, RankCounts
<1>7. after = kept \o plan.place
  BY DEF Executed
<1> HIDE DEF K, kept, c, after
<1>8. /\ after \in Seq(Q) /\ Len(after) = c + Len(plan.place)
      /\ \A i \in 1..c : after[i] = kept[i]
      /\ \A i \in 1..Len(plan.place) : after[c + i] = plan.place[i]
  <2>1. PICK s \in Seq(Q), t \in Seq(Q) : s = kept /\ t = plan.place
    BY <1>1, <1>4
  <2>2. after = s \o t
    BY <1>7, <2>1
  <2>3. /\ s \o t \in Seq(Q) /\ Len(s \o t) = Len(s) + Len(t)
        /\ \A i \in 1..Len(s) : (s \o t)[i] = s[i]
        /\ \A i \in 1..Len(t) : (s \o t)[Len(s) + i] = t[i]
    OBVIOUS
  <2> QED
    BY <1>4, <2>1, <2>2, <2>3
<1>9. \A x \in K : after[Rank(x, K)] = live[x]
  BY <1>5, <1>6, <1>8 DEF Lists
<1>10. \A i \in 1..c : \E x \in K : Rank(x, K) = i /\ after[i] = live[x]
  BY <1>5, <1>8 DEF Lists, c
<1> QED
  BY <1>4, <1>6, <1>8, <1>9, <1>10 DEF AfterPlan, K, c, after

\* Where the order of quote k is among them.
LandsAt(P, targets, live, k, tol) ==
    LET K == P[Len(targets)].keep
    IN  IF Takes(P, targets, live, k, tol) THEN Rank(TakenBy(P, targets, live, k, tol), K)
        ELSE Cardinality(K) + Len(P[k].place)

\* Where the order that a target takes is found after the plan.
KeptAt(P, targets, live, after, k, tol) ==
    LET K == P[Len(targets)].keep
        x == TakenBy(P, targets, live, k, tol)
    IN  /\ x \in K /\ x \in P[k].keep /\ x \notin P[k - 1].keep
        /\ x \in Nat
        /\ LandsAt(P, targets, live, k, tol) = Rank(x, K)
        /\ LandsAt(P, targets, live, k, tol) \in 1..Cardinality(K)
        /\ Satisfies(after[LandsAt(P, targets, live, k, tol)], targets[k], tol)

\* Where the quote that a target places is found after the plan.
PlacedAt(P, targets, live, after, k, tol) ==
    LET c == Cardinality(P[Len(targets)].keep)
        p == Len(P[k].place)
    IN  /\ c \in Nat
        /\ p \in 1..Len(P[Len(targets)].place) /\ p = Len(P[k - 1].place) + 1
        /\ LandsAt(P, targets, live, k, tol) = c + p
        /\ LandsAt(P, targets, live, k, tol) \in 1..Len(after)
        /\ Satisfies(after[LandsAt(P, targets, live, k, tol)], targets[k], tol)

\* A kept order comes at its rank.
LEMMA KeptLands ==
    ASSUME NEW Q, NEW tol, NEW live \in Seq(Q), NEW targets \in Seq(Q), NEW P,
           PlanRun(P, targets, live, Q, tol), NEW after, AfterPlan(after, P[Len(targets)], live, Q),
           NEW k \in 1..Len(targets), Takes(P, targets, live, k, tol)
    PROVE  KeptAt(P, targets, live, after, k, tol)
<1> DEFINE K == P[Len(targets)].keep
           x == TakenBy(P, targets, live, k, tol)
<1>1. StepOf(P, targets, live, Q, k, tol)
  BY RunSteps
<1>2. x \in P[k].keep /\ x \notin P[k - 1].keep /\ x \in DOMAIN live /\ Satisfies(live[x], targets[k], tol)
  BY <1>1 DEF StepOf
<1>3. k \in 0..Len(targets) /\ Len(targets) \in k..Len(targets)
  OBVIOUS
<1>4. P[k].keep \subseteq K
  BY <1>3, RunGrows DEF GrowsTo
<1>5. x \in K /\ x \in Nat
  BY <1>2, <1>4
<1>6. LandsAt(P, targets, live, k, tol) = Rank(x, K)
  BY DEF LandsAt
<1>7. Rank(x, K) \in 1..Cardinality(K) /\ after[Rank(x, K)] = live[x]
  BY <1>5 DEF AfterPlan
<1> QED
  BY <1>2, <1>5, <1>6, <1>7 DEF KeptAt

\* A placed order comes after those that are kept.
LEMMA PlacedLands ==
    ASSUME NEW Q, NEW tol, \A q \in Q : Satisfies(q, q, tol),
           NEW live \in Seq(Q), NEW targets \in Seq(Q), NEW P,
           PlanRun(P, targets, live, Q, tol), NEW after, AfterPlan(after, P[Len(targets)], live, Q),
           NEW k \in 1..Len(targets), ~Takes(P, targets, live, k, tol)
    PROVE  PlacedAt(P, targets, live, after, k, tol)
<1> DEFINE last == P[Len(targets)]
           c == Cardinality(last.keep)
           p == Len(P[k].place)
<1>1. StepOf(P, targets, live, Q, k, tol)
  BY RunSteps
<1>2. P[k].place = Append(P[k - 1].place, targets[k]) /\ P[k - 1].place \in Seq(Q)
      /\ targets[k] \in Q
  BY <1>1 DEF StepOf, PlansOf
<1>3. p = Len(P[k - 1].place) + 1 /\ Len(P[k - 1].place) \in Nat /\ P[k].place[p] = targets[k]
  BY <1>2
<1>4. k \in 0..Len(targets) /\ Len(targets) \in k..Len(targets) /\ Len(targets) \in 0..Len(targets)
  OBVIOUS
<1>5. GrowsTo(P[k], last)
  BY <1>4, RunGrows
<1>6. last \in PlansOf(live, Q)
  BY <1>4 DEF PlanRun
<1>7. Len(last.place) \in Nat
  BY <1>6 DEF PlansOf
<1> HIDE DEF p, last
<1>8. p \in 1..Len(last.place)
  BY <1>3, <1>5, <1>7 DEF GrowsTo, p
<1>9. p \in 1..Len(P[k].place)
  BY <1>3, <1>8 DEF p
<1>10. last.place[p] = targets[k]
  BY <1>3, <1>5, <1>9 DEF GrowsTo
<1>11. LandsAt(P, targets, live, k, tol) = c + p
  BY DEF LandsAt, p, last
<1>12. c \in Nat /\ Len(after) = c + Len(last.place) /\ after[c + p] = last.place[p]
  BY <1>8 DEF AfterPlan, last
<1>13. c + p \in 1..Len(after)
  BY <1>7, <1>8, <1>12
<1>14. Satisfies(after[c + p], targets[k], tol)
  BY <1>2, <1>10, <1>12
<1> QED
  BY <1>3, <1>8, <1>11, <1>12, <1>13, <1>14 DEF p, last, PlacedAt

\* Every quote has its order, and every order is that of a quote.
Landed(P, targets, live, after, tol) ==
    /\ \A k \in 1..Len(targets) :
          /\ LandsAt(P, targets, live, k, tol) \in 1..Len(after)
          /\ Satisfies(after[LandsAt(P, targets, live, k, tol)], targets[k], tol)
    /\ \A i \in 1..Len(after) : \E k \in 1..Len(targets) : LandsAt(P, targets, live, k, tol) = i

LEMMA LandsOnAll ==
    ASSUME NEW Q, NEW tol, \A q \in Q : Satisfies(q, q, tol),
           NEW live \in Seq(Q), NEW targets \in Seq(Q), NEW P,
           PlanRun(P, targets, live, Q, tol), NEW after, AfterPlan(after, P[Len(targets)], live, Q)
    PROVE  Landed(P, targets, live, after, tol)
<1> DEFINE n == Len(targets)
           last == P[n]
           c == Cardinality(last.keep)
           d == Len(last.place)
<1>1. n \in Nat /\ n \in 0..n
  OBVIOUS
<1>2. last \in PlansOf(live, Q)
  BY <1>1 DEF PlanRun
<1>3. d \in Nat /\ c \in Nat /\ Len(after) = c + d
  BY <1>2 DEF PlansOf, AfterPlan
<1>4. ASSUME NEW k \in 1..n
      PROVE  /\ LandsAt(P, targets, live, k, tol) \in 1..Len(after)
             /\ Satisfies(after[LandsAt(P, targets, live, k, tol)], targets[k], tol)
  <2>1. CASE Takes(P, targets, live, k, tol)
    <3>1. /\ LandsAt(P, targets, live, k, tol) \in 1..c
          /\ Satisfies(after[LandsAt(P, targets, live, k, tol)], targets[k], tol)
      BY <2>1, KeptLands DEF KeptAt
    <3> HIDE DEF c, d, n
    <3>2. \A i \in 1..c : i \in 1..Len(after)
      BY <1>3
    <3> QED
      BY <3>1, <3>2
  <2>2. CASE ~Takes(P, targets, live, k, tol)
    BY <2>2, PlacedLands DEF PlacedAt
  <2> QED
    BY <2>1, <2>2
<1>5. Sourced(P, targets, live, n, tol)
  BY <1>1, RunSourced
<1>6. ASSUME NEW i \in 1..Len(after) PROVE \E k \in 1..n : LandsAt(P, targets, live, k, tol) = i
  <2>1. CASE i \in 1..c
    <3>1. PICK x \in last.keep : Rank(x, last.keep) = i
      BY <2>1 DEF AfterPlan
    <3>2. PICK k \in 1..n : Takes(P, targets, live, k, tol) /\ x = TakenBy(P, targets, live, k, tol)
      BY <1>5 DEF Sourced
    <3>3. LandsAt(P, targets, live, k, tol) = i
      BY <3>1, <3>2 DEF LandsAt
    <3> QED
      BY <3>3
  <2>2. CASE i \notin 1..c
    <3> HIDE DEF c, d
    <3>1. i - c \in 1..d /\ c + (i - c) = i
      BY <1>3, <2>2
    <3>2. PICK k \in 1..n : ~Takes(P, targets, live, k, tol) /\ Len(P[k].place) = i - c
      BY <1>5, <3>1 DEF Sourced, d
    <3>3. LandsAt(P, targets, live, k, tol) = c + Len(P[k].place)
      BY <3>2 DEF LandsAt, c
    <3>4. LandsAt(P, targets, live, k, tol) = i
      BY <3>1, <3>2, <3>3
    <3> QED
      BY <3>4
  <2> QED
    BY <2>1, <2>2
<1> QED
  BY <1>4, <1>6 DEF Landed

\* Two quotes do not have the same order.
LEMMA LandsOnce ==
    ASSUME NEW Q, NEW tol, \A q \in Q : Satisfies(q, q, tol),
           NEW live \in Seq(Q), NEW targets \in Seq(Q), NEW P,
           PlanRun(P, targets, live, Q, tol), NEW after, AfterPlan(after, P[Len(targets)], live, Q),
           NEW k \in 1..Len(targets), NEW j \in 1..(k - 1)
    PROVE  LandsAt(P, targets, live, j, tol) # LandsAt(P, targets, live, k, tol)
<1> DEFINE K == P[Len(targets)].keep
           c == Cardinality(K)
           x == TakenBy(P, targets, live, j, tol)
           y == TakenBy(P, targets, live, k, tol)
<1>1. j \in 1..Len(targets) /\ k - 1 \in j..Len(targets) /\ j \in 0..Len(targets)
  OBVIOUS
<1>2. GrowsTo(P[j], P[k - 1])
  BY <1>1, RunGrows
<1>3. k - 1 \in 0..Len(targets)
  OBVIOUS
<1>4. P[k - 1] \in PlansOf(live, Q) /\ P[j] \in PlansOf(live, Q)
  BY <1>1, <1>3 DEF PlanRun
<1>5. Len(P[k - 1].place) \in Nat /\ Len(P[j].place) \in Nat /\ Len(P[j].place) <= Len(P[k - 1].place)
  BY <1>2, <1>4 DEF PlansOf, GrowsTo
<1>6. CASE Takes(P, targets, live, j, tol) /\ Takes(P, targets, live, k, tol)
  <2>1. x \in K /\ x \in P[j].keep /\ LandsAt(P, targets, live, j, tol) = Rank(x, K) /\ x \in Nat
        /\ LandsAt(P, targets, live, j, tol) \in 1..c
    <3>a. KeptAt(P, targets, live, after, j, tol)
      BY <1>1, <1>6, KeptLands
    <3> QED
      BY <3>a DEF KeptAt
  <2>2. y \in K /\ y \notin P[k - 1].keep /\ LandsAt(P, targets, live, k, tol) = Rank(y, K) /\ y \in Nat
        /\ LandsAt(P, targets, live, k, tol) \in 1..c
    <3>a. KeptAt(P, targets, live, after, k, tol)
      BY <1>6, KeptLands
    <3> QED
      BY <3>a DEF KeptAt
  <2>3. x # y
    BY <1>2, <2>1, <2>2 DEF GrowsTo
  <2> HIDE DEF x, y, K, c
  <2>4. x < y \/ y < x
    BY <2>1, <2>2, <2>3
  <2>5. Rank(x, K) < Rank(y, K) \/ Rank(y, K) < Rank(x, K)
    BY <2>1, <2>2, <2>4 DEF AfterPlan, K
  <2> QED
    BY <2>1, <2>2, <2>5
<1>7. CASE Takes(P, targets, live, j, tol) /\ ~Takes(P, targets, live, k, tol)
  <2>1. LandsAt(P, targets, live, j, tol) \in 1..c
    <3>a. KeptAt(P, targets, live, after, j, tol)
      BY <1>1, <1>7, KeptLands
    <3> QED
      BY <3>a DEF KeptAt
  <2>2. LandsAt(P, targets, live, k, tol) = c + Len(P[k].place) /\ c \in Nat
        /\ Len(P[k].place) = Len(P[k - 1].place) + 1
    <3>a. PlacedAt(P, targets, live, after, k, tol)
      BY <1>7, PlacedLands
    <3> QED
      BY <3>a DEF PlacedAt
  <2> HIDE DEF c
  <2> QED
    BY <1>5, <2>1, <2>2
<1>8. CASE ~Takes(P, targets, live, j, tol) /\ Takes(P, targets, live, k, tol)
  <2>1. LandsAt(P, targets, live, k, tol) \in 1..c
    <3>a. KeptAt(P, targets, live, after, k, tol)
      BY <1>8, KeptLands
    <3> QED
      BY <3>a DEF KeptAt
  <2>2. LandsAt(P, targets, live, j, tol) = c + Len(P[j].place) /\ c \in Nat
        /\ Len(P[j].place) \in 1..Len(P[Len(targets)].place)
    <3>a. PlacedAt(P, targets, live, after, j, tol)
      BY <1>1, <1>8, PlacedLands
    <3> QED
      BY <3>a DEF PlacedAt
  <2> HIDE DEF c
  <2> QED
    BY <1>5, <2>1, <2>2
<1>9. CASE ~Takes(P, targets, live, j, tol) /\ ~Takes(P, targets, live, k, tol)
  <2>1. LandsAt(P, targets, live, k, tol) = c + Len(P[k].place) /\ c \in Nat
        /\ Len(P[k].place) = Len(P[k - 1].place) + 1
    <3>a. PlacedAt(P, targets, live, after, k, tol)
      BY <1>9, PlacedLands
    <3> QED
      BY <3>a DEF PlacedAt
  <2>2. LandsAt(P, targets, live, j, tol) = c + Len(P[j].place)
    <3>a. PlacedAt(P, targets, live, after, j, tol)
      BY <1>1, <1>9, PlacedLands
    <3> QED
      BY <3>a DEF PlacedAt
  <2> HIDE DEF c
  <2> QED
    BY SMTT(30), <1>5, <2>1, <2>2
<1> QED
  BY <1>6, <1>7, <1>8, <1>9

\* The order of a quote is the first of those that satisfy it and are not those
\* of the quotes before it.
LEMMA LandsFirst ==
    ASSUME NEW Q, NEW tol, \A q \in Q : Satisfies(q, q, tol),
           NEW live \in Seq(Q), NEW targets \in Seq(Q), NEW P,
           PlanRun(P, targets, live, Q, tol), NEW after, AfterPlan(after, P[Len(targets)], live, Q),
           NEW k \in 1..Len(targets), NEW i \in 1..Len(after),
           Satisfies(after[i], targets[k], tol),
           \A j \in 1..(k - 1) : LandsAt(P, targets, live, j, tol) # i
    PROVE  LandsAt(P, targets, live, k, tol) <= i
<1> DEFINE last == P[Len(targets)]
           K == last.keep
           c == Cardinality(K)
           y == TakenBy(P, targets, live, k, tol)
<1>1. StepOf(P, targets, live, Q, k, tol) /\ Sourced(P, targets, live, k - 1, tol)
  BY RunSteps, RunSourced
<1>2. \A j \in 1..(k - 1) : j \in 1..Len(targets)
  OBVIOUS
<1>3. last \in PlansOf(live, Q)
  <2>1. Len(targets) \in 0..Len(targets)
    OBVIOUS
  <2> QED
    BY <2>1 DEF PlanRun
<1>4. K \subseteq DOMAIN live /\ Len(last.place) \in Nat /\ c \in Nat
      /\ Len(after) = c + Len(last.place) /\ DOMAIN live \subseteq Nat
  BY <1>3 DEF AfterPlan, PlansOf
<1>5. ASSUME i \in 1..c
      PROVE  Takes(P, targets, live, k, tol) /\ LandsAt(P, targets, live, k, tol) <= i
  <2>1. PICK x \in K : Rank(x, K) = i /\ after[i] = live[x]
    BY <1>5 DEF AfterPlan
  <2>2. x \notin P[k - 1].keep
    <3>1. SUFFICES ASSUME x \in P[k - 1].keep PROVE FALSE
      OBVIOUS
    <3>2. PICK j \in 1..(k - 1) : Takes(P, targets, live, j, tol) /\ x = TakenBy(P, targets, live, j, tol)
      BY <1>1, <3>1 DEF Sourced
    <3>3. LandsAt(P, targets, live, j, tol) = i
      BY <2>1, <3>2 DEF LandsAt
    <3> QED
      BY <3>3
  <2>3. x \in DOMAIN live \ P[k - 1].keep /\ Satisfies(live[x], targets[k], tol)
    BY <1>4, <2>1, <2>2
  <2>4. Takes(P, targets, live, k, tol) /\ y <= x
    BY <1>1, <2>3 DEF StepOf
  <2>5. y \in K /\ LandsAt(P, targets, live, k, tol) = Rank(y, K) /\ y \in Nat
    <3>a. KeptAt(P, targets, live, after, k, tol)
      BY <2>4, KeptLands
    <3> QED
      BY <3>a DEF KeptAt
  <2>6. x \in Nat /\ Rank(x, K) \in 1..c
    BY <1>4, <2>1 DEF AfterPlan
  <2>7. y = x \/ Rank(y, K) < Rank(x, K)
    <3>1. y = x \/ y < x
      BY <2>4, <2>5, <2>6
    <3> HIDE DEF y
    <3> QED
      BY <2>1, <2>5, <3>1 DEF AfterPlan
  <2>8. Rank(y, K) \in 1..c
    BY <2>5 DEF AfterPlan
  <2> HIDE DEF y, K, c
  <2> QED
    BY <2>1, <2>4, <2>5, <2>6, <2>7, <2>8
<1>6. CASE Takes(P, targets, live, k, tol) /\ ~(i \in 1..c)
  <2>1. LandsAt(P, targets, live, k, tol) \in 1..c
    <3>a. KeptAt(P, targets, live, after, k, tol)
      BY <1>6, KeptLands
    <3> QED
      BY <3>a DEF KeptAt
  <2> HIDE DEF c
  <2> QED
    BY <1>4, <1>6, <2>1
<1>7. CASE ~Takes(P, targets, live, k, tol) /\ ~(i \in 1..c)
  <2>1. PICK p : p = i - c
    OBVIOUS
  <2>2. p \in 1..Len(last.place) /\ i = c + p
    <3> HIDE DEF c, last
    <3> QED
      BY <1>4, <1>7, <2>1
  <2>3. LandsAt(P, targets, live, k, tol) = c + Len(P[k].place) /\ Len(P[k].place) = Len(P[k - 1].place) + 1
        /\ Len(P[k].place) \in 1..Len(last.place)
    <3>a. PlacedAt(P, targets, live, after, k, tol)
      BY <1>7, PlacedLands
    <3> QED
      BY <3>a DEF PlacedAt
  <2>4. ~(p \in 1..Len(P[k - 1].place))
    <3>1. SUFFICES ASSUME p \in 1..Len(P[k - 1].place) PROVE FALSE
      OBVIOUS
    <3>2. PICK j \in 1..(k - 1) : ~Takes(P, targets, live, j, tol) /\ Len(P[j].place) = p
      BY <1>1, <3>1 DEF Sourced
    <3>3. LandsAt(P, targets, live, j, tol) = c + Len(P[j].place)
      BY <3>2 DEF LandsAt
    <3>4. LandsAt(P, targets, live, j, tol) = i
      BY <2>2, <3>2, <3>3
    <3> QED
      BY <3>4
  <2>5. Len(P[k - 1].place) \in Nat
    BY <1>1 DEF StepOf, PlansOf
  <2>6. Len(P[k].place) <= p
    <3> HIDE DEF last, c
    <3> QED
      BY <2>2, <2>3, <2>4, <2>5
  <2> HIDE DEF last, c
  <2> QED
    BY <1>4, <2>2, <2>3, <2>6
<1> QED
  BY <1>5, <1>6, <1>7

\* A plan that was executed leaves nothing to do for the same quotes.
THEOREM PlanIsSettled ==
    ASSUME NEW Q, NEW tol, \A q \in Q : Satisfies(q, q, tol), NEW live \in Seq(Q), NEW targets \in Seq(Q)
    PROVE  LET after == Executed(Reconcile(targets, live, tol), live)
           IN  after \in Seq(Q) /\ IsNoop(Reconcile(targets, after, tol), after)
<1> DEFINE n == Len(targets)
           after == Executed(Reconcile(targets, live, tol), live)
<1>1. PICK P : PlanRun(P, targets, live, Q, tol)
  BY PlanRuns
<1>2. n \in Nat /\ n \in 0..n
  OBVIOUS
<1>3. P[n] \in PlansOf(live, Q) /\ P[n] = Reconcile(targets, live, tol)
  BY <1>1, <1>2 DEF PlanRun
<1>4. AfterPlan(after, P[n], live, Q)
  BY <1>3, ExecutedIs
<1>5. after \in Seq(Q)
  BY <1>4 DEF AfterPlan
<1> HIDE DEF after
<1>6. PICK R : PlanRun(R, targets, after, Q, tol)
  BY <1>5, PlanRuns
<1> DEFINE Lands(k) == LandsAt(P, targets, live, k, tol)
<1>7. /\ \A k \in 1..n : Lands(k) \in 1..Len(after) /\ Satisfies(after[Lands(k)], targets[k], tol)
      /\ \A i \in 1..Len(after) : \E k \in 1..n : Lands(k) = i
  <2>1. Landed(P, targets, live, after, tol)
    BY <1>1, <1>4, LandsOnAll
  <2> QED
    BY <2>1 DEF Landed
<1>8. \A k \in 1..n : \A j \in 1..(k - 1) : Lands(j) # Lands(k)
  <2>1. ASSUME NEW k \in 1..Len(targets), NEW j \in 1..(k - 1)
        PROVE  LandsAt(P, targets, live, j, tol) # LandsAt(P, targets, live, k, tol)
    BY <1>1, <1>4, LandsOnce
  <2> QED
    BY <2>1
<1>9. \A k \in 1..n : \A i \in 1..Len(after) :
         Satisfies(after[i], targets[k], tol) /\ (\A j \in 1..(k - 1) : Lands(j) # i) => Lands(k) <= i
  BY <1>1, <1>4, LandsFirst
<1> HIDE DEF Lands
<1>10. \A k \in 0..n : R[k].keep = {Lands(j) : j \in 1..k} /\ R[k].place = << >>
  <2> DEFINE Good == {k \in Nat : k <= n => R[k].keep = {Lands(j) : j \in 1..k} /\ R[k].place = << >>}
  <2>1. 0 \in Good
    BY <1>6 DEF PlanRun, NoPlan
  <2>2. ASSUME NEW i \in Good PROVE i + 1 \in Good
    <3> SUFFICES ASSUME i + 1 <= n
                 PROVE  R[i + 1].keep = {Lands(j) : j \in 1..(i + 1)} /\ R[i + 1].place = << >>
      OBVIOUS
    <3>1. PICK k \in 1..n : k = i + 1 /\ k - 1 = i
      BY <1>2
    <3>2. R[k - 1].keep = {Lands(j) : j \in 1..(k - 1)} /\ R[k - 1].place = << >>
      BY <3>1
    <3> HIDE DEF Good
    <3>3. StepOf(R, targets, after, Q, k, tol)
      BY <1>5, <1>6, RunSteps
    <3>4. Lands(k) \in DOMAIN after \ R[k - 1].keep /\ Satisfies(after[Lands(k)], targets[k], tol)
      BY <1>5, <1>7, <1>8, <3>2
    <3>5. Takes(R, targets, after, k, tol)
      BY <3>3, <3>4 DEF StepOf
    <3> DEFINE y == TakenBy(R, targets, after, k, tol)
    <3>6. /\ y \in DOMAIN after \ R[k - 1].keep /\ Satisfies(after[y], targets[k], tol)
          /\ y <= Lands(k)
          /\ R[k].keep = R[k - 1].keep \cup {y} /\ R[k].place = R[k - 1].place
      BY <3>3, <3>4, <3>5 DEF StepOf
    <3>7. Lands(k) <= y
      BY SMTT(30), <1>5, <1>9, <3>2, <3>6
    <3>8. y = Lands(k)
      BY <1>5, <3>4, <3>6, <3>7
    <3>9. R[k].keep = {Lands(j) : j \in 1..(k - 1)} \cup {Lands(k)} /\ R[k].place = << >>
      BY <3>2, <3>6, <3>8
    <3>10. 1..k = (1..(k - 1)) \cup {k}
      OBVIOUS
    <3>11. R[k].keep = {Lands(j) : j \in 1..k}
      BY <3>9, <3>10
    <3> QED
      BY <3>1, <3>9, <3>11
  <2> HIDE DEF Good
  <2>3. Good = Nat
    BY <2>1, <2>2, NumbersByStep DEF Good
  <2> QED
    BY <1>2, <2>3 DEF Good
<1>11. R[n].keep = DOMAIN after /\ R[n].place = << >>
  <2>1. DOMAIN after = 1..Len(after)
    BY <1>5
  <2>2. R[n].keep = {Lands(j) : j \in 1..n} /\ R[n].place = << >>
    BY <1>2, <1>10
  <2> HIDE DEF n
  <2> QED
    BY <1>7, <2>1, <2>2
<1>12. Reconcile(targets, after, tol) = R[n]
  BY <1>6 DEF PlanRun
<1> QED
  BY <1>5, <1>11, <1>12 DEF IsNoop, after

\* Each order satisfies a quote of its own.
Meets(after, targets, tol) ==
    \E at \in [1..Len(targets) -> 1..Len(after)] :
       /\ \A k \in 1..Len(targets) : Satisfies(after[at[k]], targets[k], tol)
       /\ \A i \in 1..Len(after) : \E k \in 1..Len(targets) : at[k] = i

\* The orders after a plan answer the quotes, each one order, and are those that
\* rested or the quotes themselves.
THEOREM PlanAnswers ==
    ASSUME NEW Q, NEW tol, \A q \in Q : Satisfies(q, q, tol), NEW live \in Seq(Q), NEW targets \in Seq(Q)
    PROVE  LET after == Executed(Reconcile(targets, live, tol), live)
           IN  after \in Seq(Q) /\ Meets(after, targets, tol)
<1> DEFINE n == Len(targets)
           after == Executed(Reconcile(targets, live, tol), live)
<1>1. PICK P : PlanRun(P, targets, live, Q, tol)
  BY PlanRuns
<1>2. n \in Nat /\ n \in 0..n
  OBVIOUS
<1>3. P[n] \in PlansOf(live, Q) /\ P[n] = Reconcile(targets, live, tol)
  BY <1>1, <1>2 DEF PlanRun
<1>4. AfterPlan(after, P[n], live, Q)
  BY <1>3, ExecutedIs
<1>5. after \in Seq(Q)
  BY <1>4 DEF AfterPlan
<1> HIDE DEF after
<1> DEFINE at == [k \in 1..n |-> LandsAt(P, targets, live, k, tol)]
<1>6. /\ \A k \in 1..n : /\ LandsAt(P, targets, live, k, tol) \in 1..Len(after)
                         /\ Satisfies(after[LandsAt(P, targets, live, k, tol)], targets[k], tol)
      /\ \A i \in 1..Len(after) : \E k \in 1..n : LandsAt(P, targets, live, k, tol) = i
  <2>1. Landed(P, targets, live, after, tol)
    BY <1>1, <1>4, LandsOnAll
  <2> QED
    BY <2>1 DEF Landed
<1>7. at \in [1..n -> 1..Len(after)] /\ \A k \in 1..n : at[k] = LandsAt(P, targets, live, k, tol)
  <2>1. \A k \in 1..n : LandsAt(P, targets, live, k, tol) \in 1..Len(after)
    BY <1>6
  <2> QED
    BY <2>1, Zenon
<1> HIDE DEF at
<1>8. Meets(after, targets, tol)
  BY <1>6, <1>7 DEF Meets
<1> QED
  BY <1>5, <1>8 DEF after

\* A sequence after without the element of live at i.
Removed(after, live, i, Q) ==
    /\ after \in Seq(Q) /\ Len(after) = Len(live) - 1
    /\ \A j \in 1..Len(after) : after[j] = live[IF j < i THEN j ELSE j + 1]

\* An order that is filled leaves the others, in their order.
LEMMA RemoveAtElements ==
    ASSUME NEW Q, NEW live \in Seq(Q), NEW i \in 1..Len(live)
    PROVE  Removed(RemoveAt(live, i), live, i, Q)
<1> DEFINE a == SubSeq(live, 1, i - 1)
           b == SubSeq(live, i + 1, Len(live))
           after == RemoveAt(live, i)
<1>1. Len(live) \in Nat /\ i \in Int /\ \A j \in 1..Len(live) : live[j] \in Q
  OBVIOUS
<1>2. /\ a \in Seq(Q) /\ Len(a) = (IF 1 <= i - 1 THEN (i - 1) - 1 + 1 ELSE 0)
      /\ \A j \in 1..((i - 1) - 1 + 1) : a[j] = live[1 + j - 1]
  <2>1. \A j \in 1..(i - 1) : live[j] \in Q
    BY <1>1
  <2> QED
    BY <1>1, <2>1, SubSeqProperties
<1>3. /\ b \in Seq(Q) /\ Len(b) = (IF i + 1 <= Len(live) THEN Len(live) - (i + 1) + 1 ELSE 0)
      /\ \A j \in 1..(Len(live) - (i + 1) + 1) : b[j] = live[(i + 1) + j - 1]
  <2>1. \A j \in (i + 1)..Len(live) : live[j] \in Q
    BY <1>1
  <2> QED
    BY <1>1, <2>1, SubSeqProperties
<1>4. after = a \o b
  BY DEF RemoveAt
<1> HIDE DEF a, b, after
<1>5. Len(a) = i - 1 /\ Len(b) = Len(live) - i
      /\ (i - 1) - 1 + 1 = i - 1 /\ Len(live) - (i + 1) + 1 = Len(live) - i
  BY <1>1, <1>2, <1>3
<1>6. /\ after \in Seq(Q) /\ Len(after) = Len(a) + Len(b)
      /\ \A j \in 1..(Len(a) + Len(b)) : after[j] = IF j <= Len(a) THEN a[j] ELSE b[j - Len(a)]
  BY <1>2, <1>3, <1>4, ConcatProperties
<1>7. Len(after) = Len(live) - 1
  BY <1>1, <1>5, <1>6
<1>8. ASSUME NEW j \in 1..Len(after) PROVE after[j] = live[IF j < i THEN j ELSE j + 1]
  <2>0. after[j] = IF j <= i - 1 THEN a[j] ELSE b[j - (i - 1)]
    BY <1>5, <1>6
  <2>1. CASE j < i
    <3>1. j \in 1..(i - 1) /\ 1 + j - 1 = j /\ j <= i - 1
      BY <1>1, <1>7, <2>1
    <3>2. a[j] = live[j]
      BY <1>2, <1>5, <3>1
    <3> QED
      BY <2>0, <2>1, <3>1, <3>2
  <2>2. CASE ~(j < i)
    <3>1. PICK m \in Int : m = j - (i - 1)
      BY <1>1
    <3>2. m \in 1..(Len(live) - i) /\ (i + 1) + m - 1 = j + 1 /\ ~(j <= i - 1)
      BY <1>1, <1>7, <2>2, <3>1
    <3>3. b[m] = live[(i + 1) + m - 1]
      BY <1>3, <1>5, <3>2
    <3> QED
      BY <2>0, <2>2, <3>1, <3>2, <3>3
  <2> QED
    BY <2>1, <2>2
<1> QED
  BY <1>6, <1>7, <1>8 DEF Removed, after

\* A number whose product with another is at most m is at most the quotient.
LEMMA QuotientReaches ==
    ASSUME NEW m \in Nat, NEW den \in Nat \ {0}
    PROVE  m \div den \in Nat /\ \A d \in Int : d * den <= m => d <= m \div den
<1>1. PICK q \in Nat : q = m \div den /\ m < den * q + den
  OBVIOUS
<1> SUFFICES ASSUME NEW d \in Int, d * den <= m, d > q PROVE FALSE
  BY <1>1
<1>2. PICK e \in Nat : d = q + 1 + e
  <2>1. d - q - 1 \in Nat /\ d = q + 1 + (d - q - 1)
    BY <1>1
  <2> QED
    BY <2>1
<1>3. (q + 1 + e) * den = den * q + den + e * den /\ e * den \in Nat
  BY <1>1
<1> QED
  BY <1>1, <1>2, <1>3

-----------------------------------------------------------------------------
(* The maker strategy (MakerQuotes).                                       *)

-----------------------------------------------------------------------------
(* Prices.                                                                 *)

\* What the maker's orders are.
Orders == [token : Tokens, side : {"BUY", "SELL"}, price : Grid, size : Nat \ {0}]

\* A price of whole ticks that is put on the grid is a price of the grid, and
\* is not raised but to the lowest.
LEMMA GridProducts ==
    ASSUME NEW m \in Int, GridSize >= 2
    PROVE  /\ OnGrid(PlanTick * m) \in Grid
           /\ OnGrid(PlanTick * m) <= PlanTick * m \/ OnGrid(PlanTick * m) = PlanTick
<1>1. PlanTick \in Nat \ {0} /\ GridSize \in Nat
  BY PlanAssumption, MakerAssumption
<1>2. One - PlanTick = PlanTick * (GridSize - 1) /\ One \in Int
  BY <1>1 DEF One
<1>3. \A i, j \in Int : i <= j => PlanTick * i <= PlanTick * j
  BY <1>1
<1>4. \A i \in Int : PlanTick * i \in Int
  BY <1>1
<1>5. PlanTick * 1 = PlanTick
  BY <1>1
<1>6. CASE m <= 1
  <2>1. PlanTick * m <= PlanTick /\ PlanTick <= One - PlanTick
    BY <1>1, <1>2, <1>3, <1>5, <1>6
  <2>2. OnGrid(PlanTick * m) = PlanTick
    BY <1>1, <1>2, <1>4, <2>1 DEF OnGrid, Clamp, Greater, Lesser
  <2>3. PlanTick * 1 \in Grid
    BY <1>1 DEF Grid
  <2> QED
    BY <1>5, <2>2, <2>3
<1>7. CASE m >= 1 /\ m <= GridSize - 1
  <2>1. PlanTick <= PlanTick * m /\ PlanTick * m <= One - PlanTick
    BY <1>1, <1>2, <1>3, <1>5, <1>7
  <2>2. OnGrid(PlanTick * m) = PlanTick * m
    BY <1>1, <1>2, <1>4, <2>1 DEF OnGrid, Clamp, Greater, Lesser
  <2>3. PlanTick * m \in Grid
    BY <1>1, <1>7 DEF Grid
  <2> QED
    BY <1>4, <2>2, <2>3
<1>8. CASE m >= GridSize - 1
  <2>1. One - PlanTick <= PlanTick * m /\ PlanTick <= One - PlanTick
    BY <1>1, <1>2, <1>3, <1>5, <1>8
  <2>2. OnGrid(PlanTick * m) = One - PlanTick
    BY <1>1, <1>2, <1>4, <2>1 DEF OnGrid, Clamp, Greater, Lesser
  <2>3. PlanTick * (GridSize - 1) \in Grid
    BY <1>1 DEF Grid
  <2> QED
    BY <1>2, <2>1, <2>2, <2>3
<1> QED
  BY <1>1, <1>6, <1>7, <1>8

\* The grid lies between a tick and one less a tick, in whole ticks.
LEMMA GridBounds ==
    ASSUME NEW p \in Grid
    PROVE  p \in Nat /\ PlanTick <= p /\ p <= One - PlanTick
           /\ \E m \in 1..(GridSize - 1) : p = PlanTick * m
<1>1. PlanTick \in Nat \ {0} /\ GridSize \in Nat
  BY PlanAssumption, MakerAssumption
<1>2. One - PlanTick = PlanTick * (GridSize - 1)
  BY <1>1 DEF One
<1>3. PICK m \in 1..(GridSize - 1) : p = PlanTick * m
  BY DEF Grid
<1>4. PlanTick * 1 <= PlanTick * m /\ PlanTick * m <= PlanTick * (GridSize - 1)
      /\ PlanTick * m \in Nat /\ PlanTick * 1 = PlanTick
  BY <1>1
<1> QED
  BY <1>2, <1>3, <1>4

\* A price that is rounded down is one of the grid, and at most what it was,
\* or the lowest.
LEMMA RoundDownTo ==
    ASSUME NEW x \in Int, GridSize >= 2
    PROVE  /\ RoundDown(x) \in Grid
           /\ RoundDown(x) <= x \/ RoundDown(x) = PlanTick
<1>1. PlanTick \in Nat \ {0}
  BY PlanAssumption
<1>2. PICK m \in Int : m = x \div PlanTick
  BY <1>1
<1>3. PlanTick * m <= x /\ PlanTick * m \in Int
  BY <1>1, <1>2
<1>4. RoundDown(x) = OnGrid(PlanTick * m)
  BY <1>2 DEF RoundDown
<1>5. OnGrid(PlanTick * m) \in Grid
      /\ (OnGrid(PlanTick * m) <= PlanTick * m \/ OnGrid(PlanTick * m) = PlanTick)
  BY GridProducts
<1>6. OnGrid(PlanTick * m) \in Int
  BY <1>5, GridBounds
<1> QED
  BY <1>3, <1>4, <1>5, <1>6

\* A price rounded up is on the grid.
LEMMA RoundUpOnGrid ==
    ASSUME NEW x \in Int, GridSize >= 2 PROVE RoundUp(x) \in Grid
<1>1. PlanTick \in Nat \ {0}
  BY PlanAssumption
<1>2. PICK m \in Int : m = (x + PlanTick - 1) \div PlanTick
  BY <1>1
<1> QED
  BY <1>2, GridProducts DEF RoundUp

\* An order satisfies the quote that it is.
LEMMA SatisfiesItself ==
    \A q \in Orders : Satisfies(q, q, MakerTolerance)
<1> SUFFICES ASSUME NEW q \in Orders PROVE Satisfies(q, q, MakerTolerance)
  OBVIOUS
<1>1. q.size \in Nat /\ q.price \in Nat
  BY GridBounds DEF Orders
<1>2. RepriceTicks * PlanTick \in Nat /\ ResizeNum * q.size \in Nat /\ ResizeDen \in Nat
  BY <1>1, PlanAssumption
<1>3. Between(q.price, q.price) = 0 /\ Between(q.size, q.size) = 0
  BY <1>1 DEF Between
<1>4. 0 * ResizeDen = 0
  BY <1>2
<1> QED
  BY <1>2, <1>3, <1>4 DEF Satisfies, PriceClose, SizeClose, MakerTolerance

-----------------------------------------------------------------------------
(* What the strategy wants.                                                *)

\* What a view of a book may show.
ViewsGiven == [bid : Grid \cup {NoLevel}, ask : Grid \cup {NoLevel}]

\* Inputs as the lemmas use them.
InputTyped(in) ==
    /\ in.fv \in Int /\ PlanTick <= in.fv /\ in.fv <= One - PlanTick
    /\ in.vol \in Vols /\ in.scale \in 0..4 /\ in.urgency \in {0, 2}
    /\ in.yesView \in ViewsGiven /\ in.noView \in ViewsGiven

\* What the strategy is given is well typed.
LEMMA InputsTyped ==
    ASSUME NEW v \in Views, NEW in \in Inputs(v)
    PROVE  InputTyped(in) /\ GridSize >= 2
<1>0. PlanTick \in Nat \ {0} /\ GridSize \in Nat /\ Nudges \subseteq Int /\ Scales \subseteq 0..4
  BY PlanAssumption, MakerAssumption
<1>1. v.bid \in Grid /\ v.ask \in Grid /\ v = [bid |-> v.bid, ask |-> v.ask]
  BY DEF Views
<1>2. GridSize >= 2
  <2>1. PICK m \in 1..(GridSize - 1) : v.bid = PlanTick * m
    BY <1>1, GridBounds
  <2> QED
    BY <1>0, <2>1
<1>3. One \in Int /\ One - PlanTick = PlanTick * (GridSize - 1)
      /\ PlanTick <= One - PlanTick
  <2>1. PlanTick * 1 <= PlanTick * (GridSize - 1) /\ PlanTick * 1 = PlanTick
    BY <1>0, <1>2
  <2> QED
    BY <1>0, <2>1 DEF One
<1>4. \A p \in Grid : One - p \in Grid
  <2> SUFFICES ASSUME NEW p \in Grid PROVE One - p \in Grid
    OBVIOUS
  <2>1. PICK m \in 1..(GridSize - 1) : p = PlanTick * m
    BY GridBounds
  <2>2. One - p = PlanTick * (GridSize - m) /\ GridSize - m \in 1..(GridSize - 1)
    BY <1>0, <2>1 DEF One
  <2> QED
    BY <2>2 DEF Grid
<1>5. v \in ViewsGiven /\ Mirror(v) \in ViewsGiven /\ NoBook \in ViewsGiven
  BY <1>1, <1>4 DEF ViewsGiven, Mirror, NoBook
<1>6. \A x \in Int : OnGrid(x) \in Int /\ PlanTick <= OnGrid(x) /\ OnGrid(x) <= One - PlanTick
  BY <1>0, <1>3 DEF OnGrid, Clamp, Greater, Lesser
<1>7. in.fv \in FairValues(v)
  BY DEF Inputs
<1>8. PICK x \in v.bid..v.ask, nudge \in Nudges : in.fv = OnGrid(x + nudge)
  BY <1>7 DEF FairValues
<1>9. x + nudge \in Int
  <2>1. v.bid \in Int /\ v.ask \in Int /\ nudge \in Int
    BY <1>0, <1>1, GridBounds
  <2> QED
    BY <2>1
<1>10. in.fv \in Int /\ PlanTick <= in.fv /\ in.fv <= One - PlanTick
  BY <1>6, <1>8, <1>9
<1>11. in.vol \in Vols /\ in.scale \in 0..4 /\ in.urgency \in {0, 2}
       /\ in.yesView = v /\ in.noView \in {Mirror(v), NoBook}
  BY <1>0 DEF Inputs
<1> QED
  BY <1>2, <1>5, <1>10, <1>11 DEF InputTyped

\* A level is a number, also where there is none.
LEMMA LevelsTyped ==
    ASSUME NEW l \in Grid \cup {NoLevel} PROVE l \in Int
BY GridBounds DEF NoLevel

\* The half spread is no less than delta_min, and no less than the spread of
\* a quiet market with that volatility (quoting.py:122-128).
LEMMA HalfSpreadBounds ==
    ASSUME NEW in, in.vol \in Vols
    PROVE  /\ HalfSpread(in) \in Int /\ QuietSpread(in.vol) \in Int
           /\ DeltaMin * PlanTick <= HalfSpread(in)
           /\ QuietSpread(in.vol) <= HalfSpread(in)
<1>1. in.vol \in Nat /\ RewardBand \in Nat /\ DeltaMin \in Nat /\ PlanTick \in Nat
  BY PlanAssumption, MakerAssumption
<1>2. PICK b \in Nat : b = DeltaMin * PlanTick
  BY <1>1
<1>3. PICK w \in Nat : w = b + in.vol /\ b <= w
  BY <1>1, <1>2
<1>4. HalfSpread(in) = IF in.regime = "QUIET" /\ RewardBand > 0
                       THEN Clamp(w, b, Greater(b, RewardBand)) ELSE w
  BY <1>2, <1>3 DEF HalfSpread
<1>5. QuietSpread(in.vol) = Clamp(w, b, IF RewardBand > 0 THEN Greater(b, RewardBand) ELSE w)
  BY <1>2, <1>3 DEF QuietSpread
<1>6. Greater(b, RewardBand) \in Nat /\ b <= Greater(b, RewardBand)
  BY <1>1 DEF Greater
<1>7. \A hi \in Nat : b <= hi => Clamp(w, b, hi) \in Nat /\ b <= Clamp(w, b, hi) /\ Clamp(w, b, hi) <= w
  BY <1>3 DEF Clamp, Greater, Lesser
<1> QED
  BY <1>2, <1>3, <1>4, <1>5, <1>6, <1>7

\* A bid is at most its target and an edge under the fair value, unless these
\* are under the grid.
LEMMA PlacedBids ==
    ASSUME NEW target \in Int, NEW view \in ViewsGiven, NEW fv \in Int, GridSize >= 2
    PROVE  LET p == PlaceBid(target, view, fv) IN
           p \in Grid /\ (p = PlanTick \/ p <= target)
<1> DEFINE e == fv - MinEdge * PlanTick
           edge == Lesser(target, e)
           joined == IF view.bid # NoLevel THEN Lesser(edge, view.bid) ELSE edge
           x == IF view.ask # NoLevel /\ joined >= view.ask THEN view.ask - PlanTick ELSE joined
<1>1. PlanTick \in Nat \ {0} /\ MinEdge \in Nat /\ e \in Int
  BY PlanAssumption, MakerAssumption
<1>2. view.bid \in Int /\ view.ask \in Int
  BY LevelsTyped DEF ViewsGiven
<1>3. PlaceBid(target, view, fv) = RoundDown(x)
  BY DEF PlaceBid
<1> HIDE DEF e
<1>4. edge \in Int /\ edge <= target
  BY <1>1 DEF Lesser
<1> HIDE DEF edge
<1>5. joined \in Int /\ joined <= edge
  BY <1>2, <1>4 DEF Lesser
<1> HIDE DEF joined
<1>6. x \in Int /\ x <= joined
  BY <1>1, <1>2, <1>5
<1> HIDE DEF x
<1>7. RoundDown(x) \in Grid /\ (RoundDown(x) <= x \/ RoundDown(x) = PlanTick)
  BY <1>6, RoundDownTo
<1>8. RoundDown(x) \in Int
  BY <1>7, GridBounds
<1> QED
  BY <1>3, <1>4, <1>5, <1>6, <1>7, <1>8

\* The quotes of one side of a token.
SideQuotes(token, side) == {q \in Orders : q.token = token /\ q.side = side}

\* Bids for a token, none above the top.
BidsUnder(token, top) == {q \in SideQuotes(token, "BUY") : q.price <= top}

\* Layers are bids of the token at its top bid or under it
\* (quoting.py:204-236).
LEMMA LayersTyped ==
    ASSUME NEW token \in Tokens, NEW top \in Grid, NEW total \in Int
    PROVE  AddLayers(token, top, total) \in Seq(BidsUnder(token, top))
<1> DEFINE floor == Greater(RewardFloor, ExchangeMin)
           fits == {n \in 1..Greater(1, LayerCount) : n = 1 \/ 2 * (total \div n) >= floor}
           layers == CHOOSE n \in fits : \A k \in fits : k <= n
           split == total \div layers
           per == IF 2 * split >= floor /\ split < floor THEN floor ELSE split
           levels == [i \in 1..layers |-> Quote(token, "BUY", top - (i - 1) * LayerStep * PlanTick, per)]
           positive == {i \in 1..layers : levels[i].price > 0}
<1>1. /\ PlanTick \in Nat \ {0} /\ ExchangeMin \in Nat \ {0} /\ RewardFloor \in Nat
      /\ LayerStep \in Nat /\ LayerCount \in Nat /\ GridSize \in Nat
  BY PlanAssumption, MakerAssumption
<1>2. floor \in Nat
  BY <1>1 DEF Greater
<1>3. layers \in Nat \ {0}
  <2>1. PICK c \in Nat : c = Greater(1, LayerCount) /\ 1 <= c
    BY <1>1 DEF Greater
  <2>2. 1 \in fits /\ fits \in SUBSET (0..c)
    BY <2>1
  <2> HIDE DEF fits
  <2>3. \E n \in fits : \A k \in fits : k <= n
    BY <2>1, <2>2, GreatestNumber
  <2>4. layers \in fits
    BY <2>3
  <2>5. fits \subseteq 1..c
    BY <2>1 DEF fits
  <2> HIDE DEF layers
  <2> QED
    BY <2>1, <2>4, <2>5
<1> HIDE DEF layers, floor
<1>4. split \in Int
  BY <1>3
<1> HIDE DEF split
<1>5. per \in Int
  BY <1>2, <1>4
<1> HIDE DEF per
<1>6. AddLayers(token, top, total) =
         IF total <= 0 \/ per < ExchangeMin THEN << >> ELSE Picked(levels, positive)
  BY DEF AddLayers, per, split, layers, floor
<1>7. ASSUME per >= ExchangeMin, NEW i \in positive PROVE levels[i] \in BidsUnder(token, top)
  <2>1. PICK m \in 1..(GridSize - 1) : top = PlanTick * m
    BY GridBounds
  <2>2. PICK k \in Nat : k = (i - 1) * LayerStep
    BY <1>1, <1>3
  <2>3. levels[i] = Quote(token, "BUY", top - (i - 1) * LayerStep * PlanTick, per)
        /\ levels[i].price > 0
    OBVIOUS
  <2>4. (i - 1) * LayerStep * PlanTick = PlanTick * k /\ PlanTick * k \in Nat
    BY <1>1, <2>2
  <2>5. PICK p \in Int : p = PlanTick * (m - k) /\ p = PlanTick * m - PlanTick * k
    BY <1>1, <2>2
  <2>6. levels[i] = Quote(token, "BUY", p, per) /\ p > 0
    BY <2>1, <2>3, <2>4, <2>5 DEF Quote
  <2>7. m - k \in 1..(GridSize - 1)
    <3>1. \A z \in Int : z <= 0 => PlanTick * z <= 0
      BY <1>1
    <3>2. ~(m - k <= 0)
      BY <2>2, <2>5, <2>6, <3>1
    <3> QED
      BY <1>1, <2>2, <3>2
  <2>8. p \in Grid /\ p <= top
    BY <2>1, <2>4, <2>5, <2>7, <1>1 DEF Grid
  <2>9. per \in Nat \ {0}
    BY <1>1, <1>5, <1>7
  <2> QED
    BY <2>6, <2>8, <2>9 DEF BidsUnder, SideQuotes, Orders, Quote
<1>8. positive \in SUBSET (1..layers) /\ layers \in Nat
  BY <1>3
<1> HIDE DEF levels, positive
<1>9. CASE total <= 0 \/ per < ExchangeMin
  BY <1>6, <1>9
<1>10. CASE ~(total <= 0 \/ per < ExchangeMin)
  <2>1. per >= ExchangeMin
    BY <1>1, <1>5, <1>10
  <2>2. Picked(levels, positive) \in Seq(BidsUnder(token, top))
    BY <1>7, <1>8, <2>1, PickedTyped
  <2> QED
    BY <1>6, <1>10, <2>2
<1> QED
  BY <1>9, <1>10

\* A number of shares is a whole number (quoting.py:197-201).
LEMMA SharesTyped ==
    ASSUME NEW price \in Grid, NEW in, InputTyped(in), NEW long \in Int, GridSize >= 2
    PROVE  SizeShares(price, in, long) \in Int
<1>1. PlanTick \in Nat \ {0} /\ QMax \in Nat \ {0} /\ BaseSize \in Nat /\ GridSize \in Nat
  BY PlanAssumption, MakerAssumption
<1>2. price \in Nat \ {0} /\ in.scale \in Nat /\ One \in Int
  BY <1>1, GridBounds DEF InputTyped, One
<1>3. Greater(long, 0) \in Int
  BY DEF Greater
<1> DEFINE rs == IF in.regime = "TRENDING" THEN 1 ELSE 2
<1>4. rs \in Int
  OBVIOUS
<1> HIDE DEF rs
<1>5. BaseSize * One * in.scale * rs * (QMax - Greater(long, 0)) \in Int
  BY <1>1, <1>2, <1>3, <1>4
<1>6. price * 4 * 2 * QMax \in Nat \ {0}
  BY <1>1, <1>2
<1>7. \A a \in Int, b \in Nat \ {0} : a \div b \in Int
  OBVIOUS
<1>8. SizeShares(price, in, long) =
        (BaseSize * One * in.scale * rs * (QMax - Greater(long, 0))) \div (price * 4 * 2 * QMax)
  BY DEF SizeShares, rs
<1> QED
  BY <1>5, <1>6, <1>7, <1>8

\* A token's bids are under the price its target leads to.
LEMMA EntryTyped ==
    ASSUME NEW token \in Tokens, NEW in, InputTyped(in), NEW target \in Int,
           NEW view \in ViewsGiven, NEW fv \in Int, NEW long \in Int, GridSize >= 2
    PROVE  Entry(token, in, target, view, fv, long)
              \in Seq(BidsUnder(token, PlaceBid(target, view, fv)))
<1> DEFINE price == PlaceBid(target, view, fv)
<1>1. price \in Grid
  BY PlacedBids
<1> HIDE DEF price
<1>2. AddLayers(token, price, SizeShares(price, in, long)) \in Seq(BidsUnder(token, price))
  BY <1>1, SharesTyped, LayersTyped
<1>3. << >> \in Seq(BidsUnder(token, price))
  OBVIOUS
<1>4. Entry(token, in, target, view, fv, long) \in
         {<< >>, AddLayers(token, price, SizeShares(price, in, long))}
  BY DEF Entry, price
<1> QED
  BY <1>2, <1>3, <1>4 DEF price

\* A token has one exit at the most, of all that is held.
LEMMA ExitTyped ==
    ASSUME NEW token \in Tokens, NEW in, InputTyped(in), NEW h \in [Tokens -> Nat],
           NEW view \in ViewsGiven, NEW fv \in Int, GridSize >= 2
    PROVE  /\ Exit(token, in, h, view, fv) \in Seq({q \in SideQuotes(token, "SELL") : q.size = h[token]})
           /\ Len(Exit(token, in, h, view, fv)) <= 1
<1> DEFINE passive == fv + HalfSpread(in)
           floor   == IF view.bid # NoLevel THEN view.bid + PlanTick ELSE passive
           urgency == IF in.regime = "REDUCE_ONLY" THEN Greater(in.urgency, 1) ELSE in.urgency
           walked  == (passive * (2 - urgency) + floor * urgency) \div 2
           target  == IF view.bid # NoLevel THEN Greater(walked, floor) ELSE walked
<1>1. PlanTick \in Nat /\ ExchangeMin \in Nat \ {0} /\ h[token] \in Nat
  BY PlanAssumption, MakerAssumption
<1>2. view.bid \in Int /\ in.urgency \in Int /\ HalfSpread(in) \in Int
  BY LevelsTyped, HalfSpreadBounds DEF ViewsGiven, InputTyped
<1>3. passive \in Int
  BY <1>2
<1> HIDE DEF passive
<1>4. floor \in Int /\ urgency \in Int
  BY <1>1, <1>2, <1>3 DEF Greater
<1> HIDE DEF floor, urgency
<1>5. walked \in Int
  BY <1>3, <1>4
<1> HIDE DEF walked
<1>6. target \in Int
  BY <1>4, <1>5 DEF Greater
<1> HIDE DEF target
<1>7. RoundUp(target) \in Grid
  BY <1>6, RoundUpOnGrid
<1>8. Exit(token, in, h, view, fv) =
         IF h[token] < ExchangeMin THEN << >> ELSE <<Quote(token, "SELL", RoundUp(target), h[token])>>
  BY DEF Exit, passive, floor, urgency, walked, target
<1>9. CASE h[token] < ExchangeMin
  BY <1>8, <1>9
<1>10. CASE ~(h[token] < ExchangeMin)
  <2> DEFINE q == Quote(token, "SELL", RoundUp(target), h[token])
  <2>1. q \in Orders /\ q.token = token /\ q.side = "SELL" /\ q.size = h[token]
    BY <1>1, <1>7, <1>10 DEF Orders, Quote
  <2> HIDE DEF q
  <2>2. <<q>> \in Seq({r \in SideQuotes(token, "SELL") : r.size = h[token]}) /\ Len(<<q>>) = 1
    BY <2>1 DEF SideQuotes
  <2>3. Exit(token, in, h, view, fv) = <<q>>
    BY <1>8, <1>10 DEF q
  <2> QED
    BY <2>2, <2>3
<1> QED
  BY <1>9, <1>10

-----------------------------------------------------------------------------
(* What a recompute wants.                                                 *)

\* Quotes of which no bid is over its token's price, and of which the tokens U
\* have one exit, of all that is held.
QuotesOf(W, U, h, py, pn) ==
    /\ W \in Seq(Orders)
    /\ \A k \in 1..Len(W) :
          /\ W[k].side = "BUY" => W[k].price <= (IF W[k].token = "yes" THEN py ELSE pn)
          /\ W[k].side = "SELL" => W[k].token \in U /\ W[k].size = h[W[k].token]
    /\ \A j, k \in 1..Len(W) :
          W[j].side = "SELL" /\ W[k].side = "SELL" /\ W[j].token = W[k].token => j = k

\* Such lists can be joined when no token has an exit in both.
LEMMA QuotesJoin ==
    ASSUME NEW A, NEW B, NEW U, NEW V, NEW h, NEW py, NEW pn, U \cap V = {},
           QuotesOf(A, U, h, py, pn), QuotesOf(B, V, h, py, pn)
    PROVE  QuotesOf(A \o B, U \cup V, h, py, pn)
<1> DEFINE C == A \o B
<1>1. A \in Seq(Orders) /\ B \in Seq(Orders)
  BY DEF QuotesOf
<1>2. /\ C \in Seq(Orders) /\ Len(C) = Len(A) + Len(B) /\ Len(A) \in Nat /\ Len(B) \in Nat
      /\ \A k \in 1..Len(C) : C[k] = IF k <= Len(A) THEN A[k] ELSE B[k - Len(A)]
  BY <1>1
<1> HIDE DEF C
<1>3. \A k \in 1..Len(C) : \/ k \in 1..Len(A) /\ C[k] = A[k]
                           \/ k - Len(A) \in 1..Len(B) /\ C[k] = B[k - Len(A)]
  BY <1>2
<1>4. ASSUME NEW k \in 1..Len(C)
      PROVE  /\ C[k].side = "BUY" => C[k].price <= (IF C[k].token = "yes" THEN py ELSE pn)
             /\ C[k].side = "SELL" => C[k].token \in U \cup V /\ C[k].size = h[C[k].token]
  <2>1. CASE k \in 1..Len(A) /\ C[k] = A[k]
    BY <2>1 DEF QuotesOf
  <2>2. CASE k - Len(A) \in 1..Len(B) /\ C[k] = B[k - Len(A)]
    <3>1. PICK i \in 1..Len(B) : C[k] = B[i]
      BY <2>2
    <3> QED
      BY <3>1 DEF QuotesOf
  <2> QED
    BY <1>3, <2>1, <2>2
<1>5. ASSUME NEW j \in 1..Len(C), NEW k \in 1..Len(C),
             C[j].side = "SELL", C[k].side = "SELL", C[j].token = C[k].token
      PROVE  j = k
  <2>1. PICK a : a = j - Len(A)
    OBVIOUS
  <2>2. PICK b : b = k - Len(A)
    OBVIOUS
  <2>3. /\ (j \in 1..Len(A) /\ C[j] = A[j]) \/ (a \in 1..Len(B) /\ C[j] = B[a])
        /\ (k \in 1..Len(A) /\ C[k] = A[k]) \/ (b \in 1..Len(B) /\ C[k] = B[b])
    BY <1>3, <2>1, <2>2
  <2>4. CASE (j \in 1..Len(A) /\ C[j] = A[j]) /\ (k \in 1..Len(A) /\ C[k] = A[k])
    BY <1>5, <2>4 DEF QuotesOf
  <2>5. CASE (a \in 1..Len(B) /\ C[j] = B[a]) /\ (b \in 1..Len(B) /\ C[k] = B[b])
    <3>1. a = b
      BY <1>5, <2>5 DEF QuotesOf
    <3> QED
      BY <1>2, <2>1, <2>2, <3>1
  <2>6. CASE (j \in 1..Len(A) /\ C[j] = A[j]) /\ (b \in 1..Len(B) /\ C[k] = B[b])
    <3>1. C[j].token \in U /\ C[k].token \in V
      BY <1>5, <2>6 DEF QuotesOf
    <3> QED
      BY <1>5, <3>1
  <2>7. CASE (a \in 1..Len(B) /\ C[j] = B[a]) /\ (k \in 1..Len(A) /\ C[k] = A[k])
    <3>1. C[j].token \in V /\ C[k].token \in U
      BY <1>5, <2>7 DEF QuotesOf
    <3> QED
      BY <1>5, <3>1
  <2> QED
    BY <2>3, <2>4, <2>5, <2>6, <2>7
<1>6. QuotesOf(C, U \cup V, h, py, pn)
  BY <1>2, <1>4, <1>5 DEF QuotesOf
<1> QED
  BY <1>6 DEF C

\* The bids of a token, and its exit, are such lists.
LEMMA BidsAreQuotes ==
    ASSUME NEW token \in Tokens, NEW top, NEW h, NEW py, NEW pn,
           top = (IF token = "yes" THEN py ELSE pn), NEW W \in Seq(BidsUnder(token, top))
    PROVE  QuotesOf(W, {}, h, py, pn)
<1>1. \A k \in 1..Len(W) : W[k] \in BidsUnder(token, top)
  OBVIOUS
<1>2. \A k \in 1..Len(W) : /\ W[k] \in Orders /\ W[k].token = token /\ W[k].side = "BUY"
                           /\ W[k].price <= top
  BY <1>1 DEF BidsUnder, SideQuotes
<1>3. W \in Seq(Orders)
  BY <1>2
<1> QED
  BY <1>2, <1>3 DEF QuotesOf

\* An exit by itself is a target of one token (quoting.py:239-260).
LEMMA ExitIsQuotes ==
    ASSUME NEW token \in Tokens, NEW h, NEW py, NEW pn,
           NEW W \in Seq({q \in SideQuotes(token, "SELL") : q.size = h[token]}), Len(W) <= 1
    PROVE  QuotesOf(W, {token}, h, py, pn)
<1>1. \A k \in 1..Len(W) : W[k] \in {q \in SideQuotes(token, "SELL") : q.size = h[token]}
  OBVIOUS
<1>2. \A k \in 1..Len(W) : /\ W[k] \in Orders /\ W[k].token = token /\ W[k].side = "SELL"
                           /\ W[k].size = h[token]
  BY <1>1 DEF SideQuotes
<1>3. W \in Seq(Orders)
  BY <1>2
<1>4. \A j, k \in 1..Len(W) : j = k
  OBVIOUS
<1> QED
  BY <1>2, <1>3, <1>4 DEF QuotesOf

\* A bid for a token: at the lowest price, or at most its target.
BidFor(p, target) == p \in Grid /\ (p = PlanTick \/ p <= target)

\* The quotes for some inputs and positions.
LEMMA ConstructIs ==
    ASSUME NEW v \in Views, NEW in \in Inputs(v), NEW h \in [Tokens -> Nat]
    PROVE  \E py, pn \in Grid :
              /\ BidFor(py, (in.fv - Skew(in, h)) - HalfSpread(in))
              /\ BidFor(pn, One - (in.fv - Skew(in, h)) - HalfSpread(in))
              /\ QuotesOf(MakerConstruct(in, h), Tokens, h, py, pn)
<1> DEFINE reserve == in.fv - Skew(in, h)
           delta == HalfSpread(in)
           ty == reserve - delta
           tn == One - reserve - delta
           py == PlaceBid(ty, in.yesView, in.fv)
           pn == PlaceBid(tn, in.noView, One - in.fv)
           ey == Entry("yes", in, ty, in.yesView, in.fv, NetOf(h))
           en == Entry("no", in, tn, in.noView, One - in.fv, -NetOf(h))
           xy == Exit("yes", in, h, in.yesView, in.fv)
           xn == Exit("no", in, h, in.noView, One - in.fv)
<1>1. InputTyped(in) /\ GridSize >= 2
  BY InputsTyped
<1>2. /\ in.fv \in Int /\ in.vol \in Nat /\ in.yesView \in ViewsGiven /\ in.noView \in ViewsGiven
      /\ QMax \in Nat \ {0} /\ One \in Int /\ delta \in Int
      /\ "yes" \in Tokens /\ "no" \in Tokens
  <2>1. in.vol \in Vols /\ in.fv \in Int /\ in.yesView \in ViewsGiven /\ in.noView \in ViewsGiven
    BY <1>1 DEF InputTyped
  <2>2. HalfSpread(in) \in Int
    BY <2>1, HalfSpreadBounds
  <2>3. One \in Int /\ QMax \in Nat \ {0} /\ Vols \subseteq Nat
    BY PlanAssumption, MakerAssumption DEF One
  <2> QED
    BY <2>1, <2>2, <2>3 DEF Tokens
<1>3. NetOf(h) \in Int
  <2>1. h["yes"] \in Int /\ h["no"] \in Int
    BY <1>2
  <2> QED
    BY <1>2, <2>1 DEF NetOf, Clamp, Greater, Lesser
<1>4. Skew(in, h) \in Int
  <2>1. in.vol * NetOf(h) \in Int /\ 2 * QMax \in Nat \ {0}
    BY <1>2, <1>3
  <2>2. \A a \in Int, b \in Nat \ {0} : a \div b \in Int
    OBVIOUS
  <2> QED
    BY <2>1, <2>2 DEF Skew
<1>5. ty \in Int /\ tn \in Int /\ One - in.fv \in Int /\ -NetOf(h) \in Int
  BY <1>2, <1>3, <1>4
<1>6. MakerConstruct(in, h) = IF in.regime = "EVENT" THEN << >> ELSE ((ey \o en) \o xy) \o xn
  BY DEF MakerConstruct
<1>a. MakerConstruct(in, h) = MakerConstruct(in, h) /\ ty = (in.fv - Skew(in, h)) - HalfSpread(in)
      /\ tn = One - (in.fv - Skew(in, h)) - HalfSpread(in)
  OBVIOUS
<1> HIDE DEF ty, tn
<1>7. BidFor(py, ty) /\ BidFor(pn, tn)
  BY <1>1, <1>2, <1>5, PlacedBids DEF BidFor
<1>8. ey \in Seq(BidsUnder("yes", py)) /\ en \in Seq(BidsUnder("no", pn))
  BY <1>1, <1>2, <1>3, <1>5, EntryTyped
<1>9. /\ xy \in Seq({q \in SideQuotes("yes", "SELL") : q.size = h["yes"]}) /\ Len(xy) <= 1
      /\ xn \in Seq({q \in SideQuotes("no", "SELL") : q.size = h["no"]}) /\ Len(xn) <= 1
  BY <1>1, <1>2, <1>5, ExitTyped
<1> HIDE DEF py, pn, ey, en, xy, xn
<1>10. QuotesOf(ey, {}, h, py, pn) /\ QuotesOf(en, {}, h, py, pn)
  <2>1. "no" # "yes"
    OBVIOUS
  <2> QED
    BY <1>2, <1>8, <2>1, BidsAreQuotes
<1>11. QuotesOf(xy, {"yes"}, h, py, pn) /\ QuotesOf(xn, {"no"}, h, py, pn)
  BY <1>2, <1>9, ExitIsQuotes
<1>12. QuotesOf(((ey \o en) \o xy) \o xn, Tokens, h, py, pn)
  <2>1. QuotesOf(ey \o en, {} \cup {}, h, py, pn)
    BY <1>10, QuotesJoin
  <2>2. QuotesOf((ey \o en) \o xy, ({} \cup {}) \cup {"yes"}, h, py, pn)
    BY <1>11, <2>1, QuotesJoin
  <2>3. ({} \cup {}) \cup {"yes"} = {"yes"} /\ {"yes"} \cap {"no"} = {} /\ {"yes"} \cup {"no"} = Tokens
    BY DEF Tokens
  <2>4. QuotesOf((ey \o en) \o xy, {"yes"}, h, py, pn)
    BY <2>2, <2>3
  <2>5. QuotesOf(((ey \o en) \o xy) \o xn, {"yes"} \cup {"no"}, h, py, pn)
    BY <1>11, <2>3, <2>4, QuotesJoin
  <2> QED
    BY <2>3, <2>5
<1>13. QuotesOf(<< >>, Tokens, h, py, pn)
  <2>1. << >> \in Seq(Orders) /\ Len(<< >>) = 0
    OBVIOUS
  <2> QED
    BY <2>1 DEF QuotesOf
<1>14. QuotesOf(MakerConstruct(in, h), Tokens, h, py, pn)
  BY <1>6, <1>12, <1>13
<1> QED
  BY <1>a, <1>7, <1>14 DEF BidFor

-----------------------------------------------------------------------------
(* The loop.                                                               *)

\* The orders after are those of live, but for the one at i, which has a share
\* less or is gone.
Shrunk(live, after, i) ==
    /\ after \in Seq(Orders)
    /\ \E p \in [1..Len(after) -> 1..Len(live)] :
          /\ \A j, k \in 1..Len(after) : p[j] = p[k] => j = k
          /\ \A j \in 1..Len(after) :
                /\ after[j].token = live[p[j]].token /\ after[j].side = live[p[j]].side
                /\ after[j].price = live[p[j]].price
                /\ after[j].size = live[p[j]].size - (IF p[j] = i THEN 1 ELSE 0)

\* The orders after a fill are such orders.
LEMMA FillsKeep ==
    ASSUME NEW live \in Seq(Orders), NEW i \in DOMAIN live, NEW after,
           after = (IF live[i].size = 1 THEN RemoveAt(live, i)
                    ELSE [live EXCEPT ![i].size = @ - 1])
    PROVE  Shrunk(live, after, i)
<1>1. i \in 1..Len(live) /\ Len(live) \in Nat /\ live[i] \in Orders
  OBVIOUS
<1>s. \A j \in 1..Len(live) : live[j].size \in Nat \ {0}
  <2>1. \A j \in 1..Len(live) : live[j] \in Orders
    OBVIOUS
  <2> QED
    BY <2>1 DEF Orders
<1>2. CASE live[i].size = 1
  <2>1. Removed(after, live, i, Orders)
    BY <1>1, <1>2, RemoveAtElements
  <2> DEFINE p == [j \in 1..Len(after) |-> IF j < i THEN j ELSE j + 1]
  <2>2. /\ p \in [1..Len(after) -> 1..Len(live)]
        /\ \A j \in 1..Len(after) : p[j] # i /\ p[j] \in 1..Len(live)
        /\ \A j, k \in 1..Len(after) : p[j] = p[k] => j = k
    BY <1>1, <2>1 DEF Removed
  <2>3. \A j \in 1..Len(after) : after[j] = live[p[j]]
    BY <2>1 DEF Removed
  <2> HIDE DEF p
  <2>4. \A j \in 1..Len(after) : after[j].size = live[p[j]].size - (IF p[j] = i THEN 1 ELSE 0)
    <3>1. \A n \in Nat : n - 0 = n
      OBVIOUS
    <3> QED
      BY <1>s, <2>2, <2>3, <3>1
  <2> QED
    BY <2>1, <2>2, <2>3, <2>4 DEF Removed, Shrunk
<1>3. CASE live[i].size # 1
  <2>1. live[i].size \in Nat \ {0} /\ live[i].size - 1 \in Nat \ {0}
    BY <1>1, <1>3 DEF Orders
  <2>2. PICK o : o = [live[i] EXCEPT !.size = live[i].size - 1]
    OBVIOUS
  <2>3. o \in Orders /\ o.token = live[i].token /\ o.side = live[i].side /\ o.price = live[i].price
        /\ o.size = live[i].size - 1
    BY <1>1, <2>1, <2>2 DEF Orders
  <2>4. after = [live EXCEPT ![i] = o]
    BY <1>3, <2>2
  <2>5. after \in Seq(Orders) /\ Len(after) = Len(live)
        /\ \A j \in 1..Len(live) : after[j] = IF j = i THEN o ELSE live[j]
    BY <1>1, <2>3, <2>4
  <2> DEFINE p == [j \in 1..Len(after) |-> j]
  <2>6. p \in [1..Len(after) -> 1..Len(live)] /\ \A j \in 1..Len(after) : p[j] = j
    BY <2>5
  <2> HIDE DEF p
  <2>7. \A j \in 1..Len(after) :
           /\ after[j].token = live[j].token /\ after[j].side = live[j].side
           /\ after[j].price = live[j].price
           /\ after[j].size = live[j].size - (IF j = i THEN 1 ELSE 0)
    <3>1. \A n \in Nat : n - 0 = n
      OBVIOUS
    <3> QED
      BY <1>s, <2>3, <2>5, <3>1
  <2> QED
    BY <2>5, <2>6, <2>7 DEF Shrunk
<1> QED
  BY <1>2, <1>3

\* What a recompute may want.
Wants(w) ==
    \E v \in Views : \E in \in Inputs(v) :
        w.held \in [Tokens -> Nat] /\ w.quotes = MakerConstruct(in, w.held)

\* Every target that a recompute may want is well typed.
LEMMA WantedWants == ASSUME NEW w \in Wanted PROVE Wants(w)
<1>1. PICK in \in UNION {Inputs(v) : v \in Views}, h \in [Tokens -> 0..(MaxStart + MaxFills)] :
         w = [held |-> h, quotes |-> MakerConstruct(in, h)]
  BY DEF Wanted
<1>2. PICK v \in Views : in \in Inputs(v)
  BY <1>1
<1>3. h \in [Tokens -> Nat] /\ w.held = h /\ w.quotes = MakerConstruct(in, h)
  BY <1>1
<1> QED
  BY <1>2, <1>3 DEF Wants

\* The orders and the positions, with what the fills may have added.
MakerIInv ==
    /\ makerLive \in Seq(Orders)
    /\ makerHeld \in [Tokens -> Nat]
    /\ \A t \in Tokens : makerHeld[t] <= MaxStart + makerFills
    /\ makerSlack \in [Tokens -> Nat]
    /\ makerPlan \in {"none", "settled", "open"}
    /\ makerRounds \in 0..MaxRounds /\ makerFills \in 0..MaxFills

\* After a recompute the orders answer its quotes and call for no more.
Reconciled(w) ==
    /\ makerLive' \in Seq(Orders) /\ Meets(makerLive', w.quotes, MakerTolerance)
    /\ makerPlan' = "settled"

\* A recompute executes the plan for its target (engine.py:529-580).
LEMMA RequoteReconciles ==
    ASSUME MakerIInv, NEW w \in Wanted, Requote(w) PROVE Reconciled(w)
<1> DEFINE targets == w.quotes
           after == Executed(Reconcile(targets, makerLive, MakerTolerance), makerLive)
<1>1. PICK v \in Views : \E in \in Inputs(v) :
         w.held \in [Tokens -> Nat] /\ w.quotes = MakerConstruct(in, w.held)
  BY WantedWants DEF Wants
<1>2. PICK in \in Inputs(v) : w.held \in [Tokens -> Nat] /\ w.quotes = MakerConstruct(in, w.held)
  BY <1>1
<1>3. \E py, pn \in Grid : QuotesOf(targets, Tokens, w.held, py, pn)
  BY <1>2, ConstructIs
<1>4. targets \in Seq(Orders) /\ makerLive \in Seq(Orders)
  BY <1>3 DEF QuotesOf, MakerIInv
<1>5. makerLive' = after
      /\ makerPlan' = IF IsNoop(Reconcile(targets, after, MakerTolerance), after)
                      THEN "settled" ELSE "open"
  BY DEF Requote
<1>6. \A q \in Orders : Satisfies(q, q, MakerTolerance)
  BY SatisfiesItself
<1> HIDE DEF targets
<1>7. after \in Seq(Orders) /\ IsNoop(Reconcile(targets, after, MakerTolerance), after)
  BY <1>4, <1>6, PlanIsSettled
<1>8. Meets(after, targets, MakerTolerance)
  BY <1>4, <1>6, PlanAnswers
<1> HIDE DEF after
<1> QED
  BY <1>5, <1>7, <1>8 DEF Reconciled, targets

\* What a step does to the positions and the counters.
LEMMA MakerFirst == MakerInit => MakerIInv
<1> SUFFICES ASSUME MakerInit PROVE MakerIInv
  OBVIOUS
<1>1. MaxStart \in Nat /\ MaxRounds \in Nat /\ MaxFills \in Nat
      /\ Starts \subseteq [Tokens -> 0..MaxStart]
  BY MakerAssumption DEF Tokens
<1>2. makerHeld \in [Tokens -> 0..MaxStart] /\ << >> \in Seq(Orders)
  BY <1>1 DEF MakerInit
<1>3. \A t \in Tokens : makerHeld[t] \in 0..MaxStart
  BY <1>2
<1> QED
  BY <1>1, <1>2, <1>3 DEF MakerInit, MakerIInv

\* How far over a position resize_frac reaches: what is within it, multiplied
\* out, is within its quotient.
LEMMA Tolerated ==
    ASSUME NEW n \in Nat
    PROVE  /\ (ResizeNum * n) \div ResizeDen \in Nat
           /\ \A d \in Int : d * ResizeDen <= ResizeNum * n => d <= (ResizeNum * n) \div ResizeDen
<1>1. PICK m \in Nat, den \in Nat \ {0} : m = ResizeNum * n /\ den = ResizeDen
  BY PlanAssumption
<1> QED
  BY <1>1, QuotientReaches

\* A recompute keeps the invariant.
LEMMA RequoteTyped ==
    ASSUME MakerIInv, NEW w \in Wanted, Requote(w) PROVE MakerIInv'
<1>1. Reconciled(w)
  BY RequoteReconciles
<1>2. makerRounds' \in 0..MaxRounds
  <2>1. MaxRounds \in Nat
    BY MakerAssumption
  <2> QED
    BY <2>1 DEF MakerIInv, Requote
<1>3. UNCHANGED <<makerHeld, makerFills>>
  BY DEF Requote
<1>4. makerSlack' \in [Tokens -> Nat]
  <2>1. \A t \in Tokens : (ResizeNum * makerHeld[t]) \div ResizeDen \in Nat
    BY Tolerated DEF MakerIInv
  <2> QED
    BY <2>1 DEF Requote
<1> QED
  BY <1>1, <1>2, <1>3, <1>4 DEF MakerIInv, Reconciled

\* A fill keeps the invariant.
LEMMA FillTyped ==
    ASSUME MakerIInv, NEW i \in DOMAIN makerLive, MakerFill(i) PROVE MakerIInv'
<1> DEFINE o == makerLive[i]
           more == makerHeld[o.token] + (IF o.side = "BUY" THEN 1 ELSE -1)
<1>1. MaxFills \in Nat /\ MaxStart \in Nat
  BY MakerAssumption
<1>2. makerLive \in Seq(Orders) /\ makerHeld \in [Tokens -> Nat]
      /\ (\A t \in Tokens : makerHeld[t] <= MaxStart + makerFills)
      /\ makerRounds \in 0..MaxRounds /\ makerFills \in 0..MaxFills
      /\ makerSlack \in [Tokens -> Nat]
  BY DEF MakerIInv
<1>3. o.token \in Tokens
  <2>1. o \in Orders
    BY <1>2
  <2> QED
    BY <2>1 DEF Orders
<1>4. /\ more >= 0 /\ makerFills < MaxFills /\ makerFills' = makerFills + 1
      /\ makerHeld' = [makerHeld EXCEPT ![o.token] = more]
      /\ makerLive' = (IF makerLive[i].size = 1 THEN RemoveAt(makerLive, i)
                       ELSE [makerLive EXCEPT ![i].size = @ - 1])
      /\ makerPlan' = "none" /\ UNCHANGED <<makerSlack, makerRounds>>
  BY DEF MakerFill
<1>5. makerLive' \in Seq(Orders)
  <2>1. Shrunk(makerLive, makerLive', i)
    BY <1>2, <1>4, FillsKeep
  <2> QED
    BY <2>1 DEF Shrunk
<1>6. more \in Nat /\ more <= makerHeld[o.token] + 1
  <2>1. makerHeld[o.token] \in Nat
    BY <1>2, <1>3
  <2> QED
    BY <1>4, <2>1
<1> HIDE DEF o, more
<1>7. makerHeld' \in [Tokens -> Nat]
  BY <1>2, <1>4, <1>6
<1>8. \A t \in Tokens : makerHeld'[t] <= MaxStart + makerFills'
  <2> SUFFICES ASSUME NEW t \in Tokens PROVE makerHeld'[t] <= MaxStart + makerFills'
    OBVIOUS
  <2>1. makerHeld[t] \in Nat /\ makerHeld[t] <= MaxStart + makerFills
        /\ makerHeld[o.token] \in Nat /\ makerHeld[o.token] <= MaxStart + makerFills
    BY <1>2, <1>3
  <2>2. makerHeld'[t] = IF t = o.token THEN more ELSE makerHeld[t]
    BY <1>2, <1>4
  <2> QED
    BY <1>1, <1>2, <1>4, <1>6, <2>1, <2>2
<1>9. makerFills' \in 0..MaxFills
  BY <1>1, <1>2, <1>4
<1> QED
  BY <1>2, <1>4, <1>5, <1>7, <1>8, <1>9 DEF MakerIInv

\* A merge keeps the invariant.
LEMMA MergeTyped ==
    ASSUME MakerIInv, MakerMerge PROVE MakerIInv'
<1>1. makerHeld \in [Tokens -> Nat] /\ (\A t \in Tokens : makerHeld[t] <= MaxStart + makerFills)
      /\ makerFills \in Nat /\ makerSlack \in [Tokens -> Nat]
  BY MakerAssumption DEF MakerIInv
<1>2. MaxStart \in Nat
  BY MakerAssumption
<1>3. makerHeld' = [t \in Tokens |-> makerHeld[t] - 1] /\ makerPlan' = "none"
      /\ makerSlack' = [t \in Tokens |-> makerSlack[t] + 1]
      /\ UNCHANGED <<makerLive, makerRounds, makerFills>>
      /\ \A t \in Tokens : makerHeld[t] > 0
  BY DEF MakerMerge
<1>4. \A t \in Tokens : /\ makerHeld[t] - 1 \in Nat /\ makerHeld[t] - 1 <= MaxStart + makerFills
                        /\ makerSlack[t] + 1 \in Nat
  BY <1>1, <1>2, <1>3
<1> QED
  BY <1>1, <1>3, <1>4 DEF MakerIInv

\* Every step of the maker keeps the invariant.
LEMMA MakerSteps == MakerIInv /\ [MakerNext]_makerVars => MakerIInv'
<1> SUFFICES ASSUME MakerIInv, [MakerNext]_makerVars PROVE MakerIInv'
  OBVIOUS
<1>1. ASSUME NEW w \in Wanted, Requote(w) PROVE MakerIInv'
  BY <1>1, RequoteTyped
<1>2. ASSUME NEW i \in DOMAIN makerLive, MakerFill(i) PROVE MakerIInv'
  BY <1>2, FillTyped
<1>3. CASE MakerMerge
  BY <1>3, MergeTyped
<1>4. CASE UNCHANGED makerVars
  BY <1>4 DEF makerVars, MakerIInv
<1> QED
  BY <1>1, <1>2, <1>3, <1>4 DEF MakerNext

\* Every reachable state of the maker meets the invariant.
LEMMA MakerAlways == MakerSpec => []MakerIInv
<1> QED
  BY MakerFirst, MakerSteps, PTL DEF MakerSpec

\* Every order that rests is one of the grid with a positive size, and no
\* position is negative or over what was there and what was matched
\* (quoting.py:66-170).
THEOREM MakerTyped == MakerSpec => []MakerTypeOK
<1>1. MakerIInv => MakerTypeOK
  <2> SUFFICES ASSUME MakerIInv PROVE MakerTypeOK
    OBVIOUS
  <2>1. MaxStart \in Nat /\ MaxFills \in Nat
    BY MakerAssumption
  <2>2. makerHeld \in [Tokens -> Nat] /\ (\A t \in Tokens : makerHeld[t] <= MaxStart + makerFills)
        /\ makerFills \in 0..MaxFills
    BY DEF MakerIInv
  <2>3. \A t \in Tokens : makerHeld[t] \in 0..(MaxStart + MaxFills)
    BY <2>1, <2>2
  <2>4. makerHeld \in [Tokens -> 0..(MaxStart + MaxFills)]
    BY <2>2, <2>3
  <2>5. \A i \in DOMAIN makerLive : makerLive[i] \in Orders
    BY DEF MakerIInv
  <2> QED
    BY <2>4, <2>5 DEF MakerIInv, MakerTypeOK, Orders
<1> QED
  BY <1>1, MakerAlways, PTL

-----------------------------------------------------------------------------
(* What a recompute leaves.                                                *)

\* A plan that was executed is settled: the matching finds for every quote the
\* order that it has just kept or placed for it (reconciler.py:37-38).
THEOREM PlansSettle == MakerSpec => []PlanSettles
<1>1. MakerInit => PlanSettles
  BY DEF MakerInit, PlanSettles
<1>2. MakerIInv /\ PlanSettles /\ [MakerNext]_makerVars => PlanSettles'
  <2> SUFFICES ASSUME MakerIInv, PlanSettles, [MakerNext]_makerVars PROVE PlanSettles'
    OBVIOUS
  <2>1. ASSUME NEW w \in Wanted, Requote(w) PROVE PlanSettles'
    BY <2>1, RequoteReconciles DEF Reconciled, PlanSettles
  <2>2. ASSUME NEW i \in DOMAIN makerLive, MakerFill(i) PROVE PlanSettles'
    BY <2>2 DEF MakerFill, PlanSettles
  <2>3. CASE MakerMerge
    BY <2>3 DEF MakerMerge, PlanSettles
  <2>4. CASE UNCHANGED makerVars
    BY <2>4 DEF makerVars, PlanSettles
  <2> QED
    BY <2>1, <2>2, <2>3, <2>4 DEF MakerNext
<1> QED
  BY <1>1, <1>2, MakerAlways, PTL DEF MakerSpec

\* The exits among some orders that answer some quotes.
LEMMA ExitsAnswered ==
    ASSUME NEW after \in Seq(Orders), NEW W, NEW h \in [Tokens -> Nat], NEW py, NEW pn,
           QuotesOf(W, Tokens, h, py, pn), Meets(after, W, MakerTolerance), NEW t \in Tokens
    PROVE  /\ \A i, j \in 1..Len(after) :
                 after[i].token = t /\ after[i].side = "SELL"
                 /\ after[j].token = t /\ after[j].side = "SELL" => i = j
           /\ \A i \in 1..Len(after) :
                 after[i].token = t /\ after[i].side = "SELL" =>
                    (after[i].size - h[t]) * ResizeDen <= ResizeNum * h[t]
<1>1. W \in Seq(Orders)
  BY DEF QuotesOf
<1>2. PICK at \in [1..Len(W) -> 1..Len(after)] :
         /\ \A k \in 1..Len(W) : Satisfies(after[at[k]], W[k], MakerTolerance)
         /\ \A i \in 1..Len(after) : \E k \in 1..Len(W) : at[k] = i
  BY DEF Meets
<1>3. \A i \in 1..Len(after) : \E k \in 1..Len(W) : at[k] = i /\ Satisfies(after[i], W[k], MakerTolerance)
  BY <1>2
<1>4. ASSUME NEW i \in 1..Len(after), NEW j \in 1..Len(after),
             after[i].token = t, after[i].side = "SELL", after[j].token = t, after[j].side = "SELL"
      PROVE  i = j
  <2>1. PICK k \in 1..Len(W) : at[k] = i /\ Satisfies(after[i], W[k], MakerTolerance)
    BY <1>3
  <2>2. PICK l \in 1..Len(W) : at[l] = j /\ Satisfies(after[j], W[l], MakerTolerance)
    BY <1>3
  <2>3. /\ W[k].token = t /\ W[k].side = "SELL"
        /\ W[l].token = t /\ W[l].side = "SELL"
    BY <1>4, <2>1, <2>2 DEF Satisfies
  <2>4. k = l
    BY <2>3 DEF QuotesOf
  <2> QED
    BY <2>1, <2>2, <2>4
<1>5. ASSUME NEW i \in 1..Len(after), after[i].token = t, after[i].side = "SELL"
      PROVE  (after[i].size - h[t]) * ResizeDen <= ResizeNum * h[t]
  <2>1. PICK k \in 1..Len(W) : at[k] = i /\ Satisfies(after[i], W[k], MakerTolerance)
    BY <1>3
  <2>2. W[k].side = "SELL" /\ W[k].token = t
    BY <1>5, <2>1 DEF Satisfies
  <2>3. W[k].size = h[t]
    BY <2>2 DEF QuotesOf
  <2>4. Between(after[i].size, h[t]) * ResizeDen <= ResizeNum * h[t]
    BY <2>1, <2>3 DEF Satisfies, SizeClose, MakerTolerance
  <2>5. after[i].size \in Nat /\ h[t] \in Nat /\ ResizeDen \in Nat /\ ResizeNum \in Nat
    <3>1. after[i] \in Orders
      OBVIOUS
    <3> QED
      BY <3>1, PlanAssumption DEF Orders
  <2>6. PICK a \in Nat : a = after[i].size
    BY <2>5
  <2>7. PICK n \in Nat : n = h[t]
    BY <2>5
  <2>8. PICK d \in Int : d = a - n
    OBVIOUS
  <2>9. Between(a, n) \in Int /\ d <= Between(a, n)
    BY <2>8 DEF Between
  <2>10. \A x, y \in Int : \A z \in Nat : x <= y => x * z <= y * z
    OBVIOUS
  <2>11. d * ResizeDen <= Between(a, n) * ResizeDen
    BY <2>5, <2>9, <2>10
  <2>12. d * ResizeDen \in Int /\ Between(a, n) * ResizeDen \in Int /\ ResizeNum * n \in Int
    BY <2>5, <2>9
  <2>13. d * ResizeDen <= ResizeNum * n
    BY <2>4, <2>6, <2>7, <2>11, <2>12
  <2> QED
    BY <2>6, <2>7, <2>8, <2>13
<1> QED
  BY <1>4, <1>5

\* An order that is the exit of a token.
ExitOf(live, t, i) == live[i].token = t /\ live[i].side = "SELL"

\* Each token has one exit at the most, within its position and the slack.
Covered(live, stocks, slack) ==
    \A t \in Tokens :
        /\ \A i, j \in 1..Len(live) : ExitOf(live, t, i) /\ ExitOf(live, t, j) => i = j
        /\ \A i \in 1..Len(live) : ExitOf(live, t, i) => live[i].size <= stocks[t] + slack[t]

\* A recompute covers the exits anew: those of its plan are within the
\* tolerance of what is held.
LEMMA RequoteCovers ==
    ASSUME MakerIInv, NEW w \in Wanted, Requote(w)
    PROVE  Covered(makerLive', makerHeld', makerSlack')
<1>1. makerLive' \in Seq(Orders) /\ Meets(makerLive', w.quotes, MakerTolerance)
  BY RequoteReconciles DEF Reconciled
<1>2. PICK v \in Views : \E in \in Inputs(v) :
         w.held \in [Tokens -> Nat] /\ w.quotes = MakerConstruct(in, w.held)
  BY WantedWants DEF Wants
<1>3. PICK in \in Inputs(v) : w.held \in [Tokens -> Nat] /\ w.quotes = MakerConstruct(in, w.held)
  BY <1>2
<1>4. PICK py, pn \in Grid : QuotesOf(w.quotes, Tokens, w.held, py, pn)
  BY <1>3, ConstructIs
<1>5. w.held = makerHeld /\ makerHeld' = makerHeld
      /\ \A t \in Tokens : makerSlack'[t] = (ResizeNum * makerHeld[t]) \div ResizeDen
  BY DEF Requote
<1>6. PICK after : after = makerLive'
  OBVIOUS
<1> SUFFICES ASSUME NEW t \in Tokens
             PROVE  /\ \A i, j \in 1..Len(after) : ExitOf(after, t, i) /\ ExitOf(after, t, j) => i = j
                    /\ \A i \in 1..Len(after) :
                          ExitOf(after, t, i) => after[i].size <= makerHeld'[t] + makerSlack'[t]
  BY <1>6 DEF Covered
<1>7. /\ \A i, j \in 1..Len(after) : ExitOf(after, t, i) /\ ExitOf(after, t, j) => i = j
      /\ \A i \in 1..Len(after) : ExitOf(after, t, i) =>
            (after[i].size - w.held[t]) * ResizeDen <= ResizeNum * w.held[t]
  BY <1>1, <1>3, <1>4, <1>6, ExitsAnswered DEF ExitOf
<1>8. ASSUME NEW i \in 1..Len(after), ExitOf(after, t, i)
      PROVE  after[i].size <= makerHeld'[t] + makerSlack'[t]
  <2>1. PICK n \in Nat : n = w.held[t]
    BY <1>3
  <2>2. after[i].size \in Nat
    <3>1. after[i] \in Orders
      BY <1>1, <1>6
    <3> QED
      BY <3>1 DEF Orders
  <2>3. PICK d \in Int : d = after[i].size - n
    BY <2>2
  <2>4. d <= (ResizeNum * n) \div ResizeDen /\ (ResizeNum * n) \div ResizeDen \in Nat
    BY <1>7, <1>8, <2>1, <2>3, Tolerated
  <2>5. makerHeld'[t] = n /\ makerSlack'[t] = (ResizeNum * n) \div ResizeDen
    BY <1>5, <2>1
  <2> QED
    BY <2>2, <2>3, <2>4, <2>5
<1> QED
  BY <1>7, <1>8

\* A fill lowers an exit with the position it sells, and no other position.
LEMMA FillCovers ==
    ASSUME MakerIInv, Covered(makerLive, makerHeld, makerSlack),
           NEW i \in DOMAIN makerLive, MakerFill(i)
    PROVE  Covered(makerLive', makerHeld', makerSlack')
<1>1. PICK live, after : live = makerLive /\ after = makerLive'
  OBVIOUS
<1>2. /\ live \in Seq(Orders) /\ makerHeld \in [Tokens -> Nat] /\ makerSlack \in [Tokens -> Nat]
      /\ i \in DOMAIN live /\ i \in 1..Len(live)
  BY <1>1 DEF MakerIInv
<1>3. /\ after = (IF live[i].size = 1 THEN RemoveAt(live, i) ELSE [live EXCEPT ![i].size = @ - 1])
      /\ makerHeld' = [makerHeld EXCEPT ![live[i].token] =
                          makerHeld[live[i].token] + (IF live[i].side = "BUY" THEN 1 ELSE -1)]
      /\ makerSlack' = makerSlack
  BY <1>1 DEF MakerFill
<1>4. Shrunk(live, after, i)
  BY <1>2, <1>3, FillsKeep
<1>5. PICK p \in [1..Len(after) -> 1..Len(live)] :
         /\ \A j, k \in 1..Len(after) : p[j] = p[k] => j = k
         /\ \A j \in 1..Len(after) :
               /\ after[j].token = live[p[j]].token /\ after[j].side = live[p[j]].side
               /\ after[j].price = live[p[j]].price
               /\ after[j].size = live[p[j]].size - (IF p[j] = i THEN 1 ELSE 0)
  BY <1>4 DEF Shrunk
<1>6. live[i].side \in {"BUY", "SELL"} /\ live[i].token \in Tokens
  <2>1. live[i] \in Orders
    BY <1>2
  <2> QED
    BY <2>1 DEF Orders
<1> SUFFICES ASSUME NEW t \in Tokens
             PROVE  /\ \A j, k \in 1..Len(after) : ExitOf(after, t, j) /\ ExitOf(after, t, k) => j = k
                    /\ \A j \in 1..Len(after) :
                          ExitOf(after, t, j) => after[j].size <= makerHeld'[t] + makerSlack'[t]
  BY <1>1 DEF Covered
<1>7. /\ \A j, k \in 1..Len(live) : ExitOf(live, t, j) /\ ExitOf(live, t, k) => j = k
      /\ \A j \in 1..Len(live) : ExitOf(live, t, j) => live[j].size <= makerHeld[t] + makerSlack[t]
  BY <1>1 DEF Covered
<1>8. \A j \in 1..Len(after) : ExitOf(after, t, j) => p[j] \in 1..Len(live) /\ ExitOf(live, t, p[j])
  BY <1>5 DEF ExitOf
<1>9. \A j, k \in 1..Len(after) : ExitOf(after, t, j) /\ ExitOf(after, t, k) => j = k
  BY <1>5, <1>7, <1>8
<1>10. ASSUME NEW j \in 1..Len(after), ExitOf(after, t, j)
       PROVE  after[j].size <= makerHeld'[t] + makerSlack'[t]
  <2>1. PICK k \in 1..Len(live) : k = p[j] /\ ExitOf(live, t, k)
    BY <1>8, <1>10
  <2>2. live[k].size \in Nat
    <3>1. live[k] \in Orders
      BY <1>2
    <3> QED
      BY <3>1 DEF Orders
  <2>3. PICK h \in Nat, s \in Nat : h = makerHeld[t] /\ s = makerSlack[t] /\ makerSlack'[t] = s
    BY <1>2, <1>3
  <2>4. live[k].size <= h + s
    BY <1>7, <2>1, <2>3
  <2>5. CASE k = i
    <3>1. makerHeld'[t] = h + (-1)
      <4>1. live[i].token = t /\ live[i].side = "SELL" /\ t \in DOMAIN makerHeld
        BY <1>2, <2>1, <2>5 DEF ExitOf
      <4>2. makerHeld'[t] = makerHeld[t] + (-1)
        BY <1>3, <4>1
      <4> QED
        BY <2>3, <4>2
    <3>2. after[j].size = live[k].size - 1
      BY <1>5, <2>1, <2>5
    <3>3. live[k].size - 1 <= (h + (-1)) + s
      BY <2>2, <2>4
    <3> QED
      BY <2>3, <3>1, <3>2, <3>3
  <2>6. CASE k # i
    <3>1. ~(live[i].token = t /\ live[i].side = "SELL")
      BY <1>2, <1>7, <2>1, <2>6 DEF ExitOf
    <3>2. makerHeld'[t] = h \/ makerHeld'[t] = h + 1
      <4>1. CASE live[i].token = t
        <5>1. live[i].side = "BUY" /\ t \in DOMAIN makerHeld
          BY <1>2, <1>6, <3>1, <4>1
        <5>2. makerHeld'[t] = makerHeld[t] + 1
          BY <1>3, <4>1, <5>1
        <5> QED
          BY <2>3, <5>2
      <4>2. CASE live[i].token # t
        <5>1. makerHeld'[t] = makerHeld[t]
          BY <1>2, <1>3, <4>2
        <5> QED
          BY <2>3, <5>1
      <4> QED
        BY <4>1, <4>2
    <3>3. after[j].size = live[k].size
      BY <1>5, <2>1, <2>2, <2>6
    <3> QED
      BY <2>2, <2>3, <2>4, <3>2, <3>3
  <2> QED
    BY <2>5, <2>6
<1> QED
  BY <1>9, <1>10

\* At any time, through recomputes, fills and merges, a token has one exit at
\* the most, and the exit is over the position by no more than resize_frac of
\* what the last recompute saw held and the sets merged since then
\* (quoting.py:255-257, reconciler.py:54).
THEOREM ExitsAreCovered == MakerSpec => []ExitsCovered
<1> DEFINE Good == Covered(makerLive, makerHeld, makerSlack)
<1>1. MakerInit => Good
  BY DEF MakerInit, Covered
<1>2. MakerIInv /\ Good /\ [MakerNext]_makerVars => Good'
  <2> SUFFICES ASSUME MakerIInv, Good, [MakerNext]_makerVars PROVE Good'
    OBVIOUS
  <2>1. ASSUME NEW w \in Wanted, Requote(w) PROVE Good'
    BY <2>1, RequoteCovers
  <2>2. ASSUME NEW i \in DOMAIN makerLive, MakerFill(i) PROVE Good'
    BY <2>2, FillCovers
  <2>3. CASE MakerMerge
    <3>1. \A t \in Tokens : makerHeld'[t] = makerHeld[t] - 1 /\ makerSlack'[t] = makerSlack[t] + 1
                            /\ makerHeld[t] \in Nat /\ makerSlack[t] \in Nat
      BY <2>3 DEF MakerMerge, MakerIInv
    <3>2. makerLive' = makerLive
      BY <2>3 DEF MakerMerge
    <3>3. \A t \in Tokens : makerHeld'[t] + makerSlack'[t] = makerHeld[t] + makerSlack[t]
      BY <3>1
    <3> QED
      BY <3>2, <3>3 DEF Covered
  <2>4. CASE UNCHANGED makerVars
    BY <2>4 DEF makerVars, Covered
  <2> QED
    BY <2>1, <2>2, <2>3, <2>4 DEF MakerNext
<1>3. MakerIInv /\ Good => ExitsCovered
  <2> SUFFICES ASSUME MakerIInv, Good, NEW t \in Tokens
               PROVE  /\ Cardinality({i \in DOMAIN makerLive : ExitOf(makerLive, t, i)}) <= 1
                      /\ \A o \in Resting(t, "SELL") : o.size <= makerHeld[t] + makerSlack[t]
    BY DEF ExitsCovered, ExitOf
  <2>1. DOMAIN makerLive = 1..Len(makerLive)
    BY DEF MakerIInv
  <2>2. \A o \in Resting(t, "SELL") : o.size <= makerHeld[t] + makerSlack[t]
    BY <2>1 DEF Resting, Covered, ExitOf
  <2> DEFINE S == {i \in DOMAIN makerLive : ExitOf(makerLive, t, i)}
  <2>3. \A i, j \in S : i = j
    BY <2>1 DEF Covered
  <2>4. Cardinality(S) <= 1
    <3> HIDE DEF S
    <3>1. CASE S = {}
      BY <3>1, FS_EmptySet
    <3>2. CASE S # {}
      <4>1. PICK i : i \in S
        BY <3>2
      <4>2. S = {i}
        BY <2>3, <4>1
      <4>3. Cardinality({i}) = 1
        BY FS_Singleton, Zenon
      <4>4. Cardinality(S) = 1
        BY <4>2, <4>3
      <4> QED
        BY <4>4
    <3> QED
      BY <3>1, <3>2
  <2> QED
    BY <2>2, <2>4
<1> HIDE DEF Good
<1> QED
  BY <1>1, <1>2, <1>3, MakerAlways, PTL DEF MakerSpec

-----------------------------------------------------------------------------
(* A pair does not lose.                                                   *)

\* A bid at this price can be moved by the tolerance and one tick.
Room == PlanTick * (RepriceTicks + 1)

\* A net position within the limit moves the fair value by half the
\* volatility at most (quoting.py:120).
LEMMA SkewBounds ==
    ASSUME NEW vol \in Nat, NEW n \in Int, NEW Q \in Nat \ {0}, -Q <= n, n <= Q
    PROVE  /\ (vol * n) \div (2 * Q) \in Int
           /\ -HalfVol(vol) <= (vol * n) \div (2 * Q) /\ (vol * n) \div (2 * Q) <= HalfVol(vol)
<1>1. PICK s \in Int : s = (vol * n) \div (2 * Q)
  <2>1. vol * n \in Int /\ 2 * Q \in Nat \ {0}
    OBVIOUS
  <2>2. \A a \in Int, b \in Nat \ {0} : a \div b \in Int
    OBVIOUS
  <2> QED
    BY <2>1, <2>2
<1>2. PICK x \in Int : x = vol * n
  OBVIOUS
<1>3. PICK y \in Nat : y = vol * Q
  OBVIOUS
<1>4. -y <= x /\ x <= y
  <2>1. \A a, b \in Int : a <= b => vol * a <= vol * b
    OBVIOUS
  <2>2. vol * (-Q) <= vol * n /\ vol * n <= vol * Q /\ vol * (-Q) = -(vol * Q)
    BY <2>1
  <2> QED
    BY <1>2, <1>3, <2>2
<1>5. PICK d \in Nat \ {0} : d = 2 * Q
  OBVIOUS
<1>6. s = x \div d
  BY <1>1, <1>2, <1>5
<1>7. d * s <= x /\ x < d * (s + 1) /\ d * s \in Int /\ d * (s + 1) \in Int
  BY <1>5, <1>6
<1>8. PICK w \in Nat : w = HalfVol(vol) /\ vol <= 2 * w
  BY DEF HalfVol
<1>9. y <= Q * (2 * w) /\ Q * (2 * w) = d * w /\ d * w \in Nat
  <2>1. \A a, b \in Nat : a <= b => Q * a <= Q * b
    OBVIOUS
  <2>2. 2 * w \in Nat /\ Q * vol <= Q * (2 * w) /\ Q * vol = vol * Q
    BY <1>8, <2>1
  <2>3. Q * (2 * w) = (2 * Q) * w
    OBVIOUS
  <2> QED
    BY <1>3, <1>5, <2>2, <2>3
<1>10. d * s <= d * w /\ d * (-w) < d * (s + 1) /\ d * (-w) \in Int
  <2>1. d * (-w) = -(d * w)
    OBVIOUS
  <2> QED
    BY <1>4, <1>7, <1>9, <2>1
<1>11. \A a, b \in Int : d * a <= d * b => a <= b
  BY <1>5
<1>12. \A a, b \in Int : d * a < d * b => a < b
  BY <1>5
<1>13. s <= w
  BY <1>8, <1>10, <1>11
<1>14. -w < s + 1
  BY <1>8, <1>10, <1>12
<1> QED
  BY <1>1, <1>8, <1>13, <1>14

\* A bid that the tolerance did not push to the end of the grid leaves room
\* for the other bid.
LEMMA BidHasRoom ==
    ASSUME ToleranceIsSmall, NEW p \in Grid, p = PlanTick \/ p + PlanTick * RepriceTicks < One
    PROVE  p + Room <= One
<1>1. PlanTick \in Nat \ {0} /\ GridSize \in Nat /\ RepriceTicks \in Nat
      /\ RepriceTicks + 2 <= GridSize
  BY PlanAssumption, MakerAssumption DEF ToleranceIsSmall
<1>2. PICK m \in Int : p = PlanTick * m
  BY GridBounds
<1>3. \A a, b \in Int : a <= b => PlanTick * a <= PlanTick * b
  BY <1>1
<1>4. \A a, b \in Int : PlanTick * a < PlanTick * b => a < b
  BY <1>1
<1>5. \A a, b \in Int : PlanTick * a + PlanTick * b = PlanTick * (a + b) /\ PlanTick * a \in Int
  BY <1>1
<1>6. One = PlanTick * GridSize /\ PlanTick * 1 = PlanTick
  BY <1>1 DEF One
<1>7. ASSUME NEW n \in Int, p = PlanTick * n, n + RepriceTicks + 1 <= GridSize PROVE p + Room <= One
  <2>1. p + Room = PlanTick * (n + (RepriceTicks + 1))
    BY <1>1, <1>5, <1>7 DEF Room
  <2>2. n + (RepriceTicks + 1) <= GridSize /\ n + (RepriceTicks + 1) \in Int
    BY <1>1, <1>7
  <2> QED
    BY <1>1, <1>3, <1>6, <2>1, <2>2
<1>8. CASE p = PlanTick
  <2>1. p = PlanTick * 1 /\ 1 + RepriceTicks + 1 <= GridSize
    BY <1>1, <1>6, <1>8
  <2> QED
    BY <1>7, <2>1
<1>9. CASE p + PlanTick * RepriceTicks < One
  <2>1. PlanTick * (m + RepriceTicks) < PlanTick * GridSize
    <3>1. PlanTick * m + PlanTick * RepriceTicks = PlanTick * (m + RepriceTicks)
      BY <1>1, <1>5
    <3> QED
      BY <1>2, <1>6, <1>9, <3>1
  <2>2. m + RepriceTicks < GridSize
    BY <1>1, <1>4, <2>1
  <2>3. m + RepriceTicks + 1 <= GridSize
    BY <1>1, <2>2
  <2> QED
    BY <1>2, <1>7, <2>3
<1> QED
  BY <1>8, <1>9

\* The prices for the two tokens: each leaves its room, and unless one is the
\* lowest the tolerance cannot bring the pair over one.
LEMMA BidsApart ==
    ASSUME ToleranceIsSmall, NEW v \in Views, NEW in \in Inputs(v), NEW h \in [Tokens -> Nat],
           NEW py \in Grid, NEW pn \in Grid,
           BidFor(py, (in.fv - Skew(in, h)) - HalfSpread(in)),
           BidFor(pn, One - (in.fv - Skew(in, h)) - HalfSpread(in))
    PROVE  /\ py + Room <= One /\ pn + Room <= One
           /\ \/ py = PlanTick \/ pn = PlanTick
              \/ py + pn + 2 * (PlanTick * RepriceTicks) <= One
<1>1. InputTyped(in)
  BY InputsTyped
<1>2. /\ in.fv \in Int /\ PlanTick <= in.fv /\ in.fv <= One - PlanTick
      /\ in.vol \in Vols /\ in.vol \in Nat
  BY <1>1, MakerAssumption DEF InputTyped
<1>3. /\ PlanTick \in Nat \ {0} /\ One \in Int /\ QMax \in Nat \ {0}
      /\ RepriceTicks \in Nat /\ DeltaMin \in Nat
  BY PlanAssumption, MakerAssumption DEF One
<1>4. NetOf(h) \in Int /\ -QMax <= NetOf(h) /\ NetOf(h) <= QMax
  <2>1. h["yes"] \in Int /\ h["no"] \in Int
    BY DEF Tokens
  <2> QED
    BY <1>3, <2>1 DEF NetOf, Clamp, Greater, Lesser
<1>5. PICK s \in Int : s = Skew(in, h) /\ -HalfVol(in.vol) <= s /\ s <= HalfVol(in.vol)
  BY <1>2, <1>3, <1>4, SkewBounds DEF Skew
<1>6. PICK w \in Int : w = HalfVol(in.vol)
  BY <1>2 DEF HalfVol
<1>7. PICK b \in Nat : b = DeltaMin * PlanTick
  BY <1>3
<1>8. PICK d \in Int : d = HalfSpread(in) /\ b <= d /\ QuietSpread(in.vol) <= d
                       /\ QuietSpread(in.vol) \in Int
  BY <1>2, <1>7, HalfSpreadBounds
<1>9. PICK r \in Nat : r = PlanTick * RepriceTicks
  BY <1>3
<1>10. (RepriceTicks - 1) * PlanTick = r - PlanTick /\ r <= b
  <2>1. RepriceTicks <= DeltaMin
    BY DEF ToleranceIsSmall
  <2>2. \A x, y \in Int : x <= y => PlanTick * x <= PlanTick * y
    BY <1>3
  <2>3. PlanTick * RepriceTicks <= PlanTick * DeltaMin
    BY <1>3, <2>1, <2>2
  <2>4. PlanTick * DeltaMin = DeltaMin * PlanTick
    BY <1>3
  <2>5. (RepriceTicks - 1) * PlanTick = PlanTick * RepriceTicks - PlanTick
    BY <1>3
  <2> QED
    BY <1>3, <1>7, <1>9, <2>3, <2>4, <2>5
<1>11. w + (r - PlanTick) < d
  <2>1. HalfVol(in.vol) + (RepriceTicks - 1) * PlanTick < QuietSpread(in.vol)
    BY <1>2 DEF ToleranceIsSmall
  <2> QED
    BY <1>3, <1>6, <1>8, <1>9, <1>10, <2>1
<1>12. py \in Int /\ pn \in Int
  BY GridBounds
<1>13. /\ py = PlanTick \/ py <= (in.fv - s) - d
       /\ pn = PlanTick \/ pn <= One - (in.fv - s) - d
  BY <1>5, <1>8 DEF BidFor
<1>14. /\ py = PlanTick \/ py + r < One
       /\ pn = PlanTick \/ pn + r < One
  BY <1>2, <1>3, <1>5, <1>6, <1>8, <1>9, <1>11, <1>12, <1>13
<1>15. py + Room <= One /\ pn + Room <= One
  BY <1>9, <1>14, BidHasRoom
<1>16. py = PlanTick \/ pn = PlanTick \/ py + pn + 2 * r <= One
  BY <1>2, <1>3, <1>5, <1>7, <1>8, <1>9, <1>10, <1>12, <1>13
<1> QED
  BY <1>9, <1>15, <1>16

\* Orders whose bids leave room for the other token's lowest bid.
Roomy == {q \in Orders : q.side = "BUY" => q.price + Room <= One}

\* The bids that answer some quotes are within the tolerance of their prices.
LEMMA BidsAnswered ==
    ASSUME NEW after, NEW W, NEW h, NEW py \in Grid, NEW pn \in Grid,
           QuotesOf(W, Tokens, h, py, pn), Meets(after, W, MakerTolerance), NEW i \in 1..Len(after),
           after[i].side = "BUY", after[i].price \in Int
    PROVE  after[i].price <= (IF after[i].token = "yes" THEN py ELSE pn) + PlanTick * RepriceTicks
<1>1. PICK k \in 1..Len(W) : Satisfies(after[i], W[k], MakerTolerance)
  BY DEF Meets
<1>2. W[k].token = after[i].token /\ W[k].side = "BUY"
      /\ Between(after[i].price, W[k].price) <= RepriceTicks * PlanTick
  BY <1>1 DEF Satisfies, PriceClose, MakerTolerance
<1>3. W[k].price <= (IF after[i].token = "yes" THEN py ELSE pn)
  BY <1>2 DEF QuotesOf
<1>4. W[k].price \in Int
  <2>1. W[k] \in Orders
    BY DEF QuotesOf
  <2> QED
    BY <2>1, GridBounds DEF Orders
<1>5. PICK r \in Nat : r = PlanTick * RepriceTicks /\ r = RepriceTicks * PlanTick
  BY PlanAssumption
<1>6. PICK p \in Int : p = (IF after[i].token = "yes" THEN py ELSE pn)
  BY GridBounds
<1>7. after[i].price - W[k].price <= Between(after[i].price, W[k].price)
      /\ Between(after[i].price, W[k].price) \in Int
  BY <1>4 DEF Between
<1> QED
  BY <1>2, <1>3, <1>4, <1>5, <1>6, <1>7

\* A recompute that finds the resting bids with their room leaves pairs that do
\* not lose.
PairIInv == makerLive \in Seq(Roomy) /\ PairNoLoss

\* A recompute leaves no pair of bids that together cost more than one.
LEMMA RequotePairs ==
    ASSUME ToleranceIsSmall, MakerIInv, PairIInv, NEW w \in Wanted, Requote(w)
    PROVE  PairIInv'
<1> DEFINE W == w.quotes
           after == Executed(Reconcile(W, makerLive, MakerTolerance), makerLive)
<1>1. PICK v \in Views : \E in \in Inputs(v) :
         w.held \in [Tokens -> Nat] /\ w.quotes = MakerConstruct(in, w.held)
  BY WantedWants DEF Wants
<1>2. PICK in \in Inputs(v) : w.held \in [Tokens -> Nat] /\ w.quotes = MakerConstruct(in, w.held)
  BY <1>1
<1>3. PICK py \in Grid, pn \in Grid :
         /\ BidFor(py, (in.fv - Skew(in, w.held)) - HalfSpread(in))
         /\ BidFor(pn, One - (in.fv - Skew(in, w.held)) - HalfSpread(in))
         /\ QuotesOf(w.quotes, Tokens, w.held, py, pn)
  BY <1>2, ConstructIs
<1>4. /\ py + Room <= One /\ pn + Room <= One
      /\ \/ py = PlanTick \/ pn = PlanTick
         \/ py + pn + 2 * (PlanTick * RepriceTicks) <= One
  BY <1>2, <1>3, BidsApart
<1>5. py \in Int /\ pn \in Int /\ One \in Int /\ PlanTick \in Nat /\ Room \in Int
      /\ PlanTick * RepriceTicks \in Nat /\ Room = PlanTick * RepriceTicks + PlanTick
  BY GridBounds, PlanAssumption, MakerAssumption DEF One, Room
<1>b. \A p \in Int : p <= py \/ p <= pn => p + Room <= One
  <2>1. PICK room \in Int, one \in Int : room = Room /\ one = One
    BY <1>5
  <2>2. py + room <= one /\ pn + room <= one
    BY <1>4, <2>1
  <2>3. \A p \in Int : p <= py \/ p <= pn => p + room <= one
    BY <1>5, <2>1, <2>2
  <2> QED
    BY <2>1, <2>3
<1>c. ASSUME NEW p \in Int, NEW q \in Int, p + Room <= One, q + Room <= One,
             p <= py + PlanTick * RepriceTicks, q <= pn + PlanTick * RepriceTicks
      PROVE  p + q <= One
  <2>1. PICK r \in Nat : r = PlanTick * RepriceTicks
    BY <1>5
  <2>2. p + (r + PlanTick) <= One /\ q + (r + PlanTick) <= One /\ p <= py + r /\ q <= pn + r
        /\ (py = PlanTick \/ pn = PlanTick \/ py + pn + 2 * r <= One)
    BY <1>4, <1>5, <1>c, <2>1
  <2> QED
    BY <1>5, <2>1, <2>2
<1>6. W \in Seq(Roomy)
  <2>1. W \in Seq(Orders)
    BY <1>3 DEF QuotesOf
  <2>2. ASSUME NEW k \in 1..Len(W) PROVE W[k] \in Roomy
    <3>1. W[k] \in Orders /\ W[k].price \in Int
      <4>1. W[k] \in Orders
        BY <2>1
      <4> QED
        BY <4>1, GridBounds DEF Orders
    <3>2. W[k].side = "BUY" => W[k].price <= (IF W[k].token = "yes" THEN py ELSE pn)
      BY <1>3 DEF QuotesOf
    <3>3. W[k].side = "BUY" => W[k].price + Room <= One
      BY <1>b, <3>1, <3>2
    <3> QED
      BY <3>1, <3>3 DEF Roomy
  <2> HIDE DEF W
  <2> QED
    BY <2>1, <2>2
<1>7. makerLive \in Seq(Roomy) /\ \A q \in Roomy : Satisfies(q, q, MakerTolerance)
  BY SatisfiesItself DEF PairIInv, Roomy
<1>8. makerLive' = after
  BY DEF Requote
<1>a. QuotesOf(W, Tokens, w.held, py, pn)
  BY <1>3
<1> HIDE DEF W
<1>9. after \in Seq(Roomy) /\ Meets(after, W, MakerTolerance)
  BY <1>6, <1>7, PlanAnswers
<1> HIDE DEF after
<1>10. ASSUME NEW i \in 1..Len(after), NEW j \in 1..Len(after),
              after[i].token = "yes", after[i].side = "BUY",
              after[j].token = "no", after[j].side = "BUY"
       PROVE  after[i].price + after[j].price <= One
  <2>1. after[i] \in Roomy /\ after[j] \in Roomy
    BY <1>9
  <2>2. /\ after[i].price \in Int /\ after[j].price \in Int
        /\ after[i].price + Room <= One /\ after[j].price + Room <= One
    BY <1>10, <2>1, GridBounds DEF Roomy, Orders
  <2>3. after[i].price <= py + PlanTick * RepriceTicks
    BY <1>a, <1>9, <1>10, <2>2, BidsAnswered
  <2>4. after[j].price <= pn + PlanTick * RepriceTicks
    <3>1. after[j].price <= (IF after[j].token = "yes" THEN py ELSE pn) + PlanTick * RepriceTicks
      BY <1>a, <1>9, <1>10, <2>2, BidsAnswered
    <3> QED
      BY <1>10, <3>1
  <2> QED
    BY <1>c, <2>2, <2>3, <2>4
<1>11. PairNoLoss'
  <2>1. DOMAIN after = 1..Len(after)
    BY <1>9
  <2> QED
    BY <1>8, <1>10, <2>1 DEF PairNoLoss, Resting
<1> QED
  BY <1>8, <1>9, <1>11 DEF PairIInv

\* However the market moved between two recomputes, whatever the tolerance kept
\* and whatever was filled in between, the bids that rest on the two sides never
\* cost more than the set they complete, when the tolerance for prices is small
\* against the half-spread (quoting.py:13-14).  The defaults of the profile
\* satisfy that for a volatility of up to some ticks (config.py:114-132).
THEOREM PairsDoNotLose ==
    ASSUME ToleranceIsSmall PROVE MakerSpec => []PairNoLoss
<1>1. MakerInit => PairIInv
  <2> SUFFICES ASSUME MakerInit PROVE PairIInv
    OBVIOUS
  <2>1. makerLive = << >>
    BY DEF MakerInit
  <2>2. DOMAIN makerLive = {} /\ makerLive \in Seq(Roomy)
    BY <2>1
  <2> QED
    BY <2>2 DEF PairIInv, PairNoLoss, Resting
<1>2. MakerIInv /\ PairIInv /\ [MakerNext]_makerVars => PairIInv'
  <2> SUFFICES ASSUME MakerIInv, PairIInv, [MakerNext]_makerVars PROVE PairIInv'
    OBVIOUS
  <2>1. ASSUME NEW w \in Wanted, Requote(w) PROVE PairIInv'
    BY <2>1, RequotePairs
  <2>2. ASSUME NEW i \in DOMAIN makerLive, MakerFill(i) PROVE PairIInv'
    <3>1. PICK live : live = makerLive
      OBVIOUS
    <3>2. PICK after : after = makerLive'
      OBVIOUS
    <3>3. live \in Seq(Orders) /\ live \in Seq(Roomy)
      BY <3>1 DEF MakerIInv, PairIInv
    <3>4. after = (IF live[i].size = 1 THEN RemoveAt(live, i) ELSE [live EXCEPT ![i].size = @ - 1])
      BY <2>2, <3>1, <3>2 DEF MakerFill
    <3>5. /\ after \in Seq(Orders)
          /\ \A j \in 1..Len(after) : \E k \in 1..Len(live) :
                /\ after[j].token = live[k].token /\ after[j].side = live[k].side
                /\ after[j].price = live[k].price
      <4>1. i \in DOMAIN live
        BY <3>1
      <4>2. Shrunk(live, after, i)
        BY <3>3, <3>4, <4>1, FillsKeep
      <4> QED
        BY <4>2 DEF Shrunk
    <3>6. \A j \in 1..Len(after) : after[j] \in Roomy
      <4> SUFFICES ASSUME NEW j \in 1..Len(after) PROVE after[j] \in Roomy
        OBVIOUS
      <4>1. PICK k \in 1..Len(live) : after[j].side = live[k].side /\ after[j].price = live[k].price
        BY <3>5
      <4>2. after[j] \in Orders /\ live[k] \in Roomy
        BY <3>3, <3>5
      <4> QED
        BY <4>1, <4>2 DEF Roomy
    <3>7. after \in Seq(Roomy)
      BY <3>5, <3>6
    <3>8. DOMAIN live = 1..Len(live) /\ DOMAIN after = 1..Len(after)
      BY <3>3, <3>5
    <3>9. \A a, b \in 1..Len(live) :
             live[a].token = "yes" /\ live[a].side = "BUY"
             /\ live[b].token = "no" /\ live[b].side = "BUY" => live[a].price + live[b].price <= One
      BY <3>1, <3>8 DEF PairIInv, PairNoLoss, Resting
    <3>10. \A a, b \in 1..Len(after) :
              after[a].token = "yes" /\ after[a].side = "BUY"
              /\ after[b].token = "no" /\ after[b].side = "BUY" => after[a].price + after[b].price <= One
      BY SMTT(30), <3>5, <3>9
    <3>11. PairNoLoss'
      BY <3>2, <3>8, <3>10 DEF PairNoLoss, Resting
    <3> QED
      BY <3>2, <3>7, <3>11 DEF PairIInv
  <2>3. CASE MakerMerge
    BY <2>3 DEF MakerMerge, PairIInv, PairNoLoss, Resting
  <2>4. CASE UNCHANGED makerVars
    BY <2>4 DEF makerVars, PairIInv, PairNoLoss, Resting
  <2> QED
    BY <2>1, <2>2, <2>3, <2>4 DEF MakerNext
<1>3. PairIInv => PairNoLoss
  BY DEF PairIInv
<1> QED
  BY <1>1, <1>2, <1>3, MakerAlways, PTL DEF MakerSpec

-----------------------------------------------------------------------------
(* The one-way strategy (OneWay).                                          *)

-----------------------------------------------------------------------------
(* Prices and books.                                                       *)

\* The grid with its ends.
OwPrices == {T * k : k \in 0..OwGrid}

\* What the one-way strategy's orders are.
OwOrders == [token : {"traded"}, side : {"BUY", "SELL"}, price : OwPrices, size : Nat \ {0}]

\* A price of the one-way book is a whole number of its ticks.
LEMMA Price1Is ==
    ASSUME NEW p \in Prices1
    PROVE  \E i \in 1..(OwGrid - 1) : p = 10 * i
BY DEF Prices1, T

\* A price that is rounded is a multiple of the tick, half a tick away at most.
LEMMA RoundedIs ==
    ASSUME NEW x \in Int
    PROVE  \E k \in Int : Rounded(x) = 10 * k /\ 10 * k <= x + 5 /\ x + 5 < 10 * k + 10
<1>1. T = 10 /\ 10 \div 2 = 5
  BY DEF T
<1>2. PICK k \in Int : k = (x + 5) \div 10
  OBVIOUS
<1>3. Rounded(x) = 10 * k
  BY <1>1, <1>2 DEF Rounded
<1> QED
  BY <1>2, <1>3

\* A book has a spread of a tick, or no offers and no bids.
BookTyped(b) ==
    /\ b.bid \in Nat /\ b.ask \in Nat
    /\ b.bid # NoTop => \E i \in 1..(OwGrid - 1) : b.bid = 10 * i
    /\ b.ask # NoTop => /\ \E i \in 1..(OwGrid - 1) : b.ask = 10 * i
                        /\ b.bid + 10 <= b.ask /\ b.ask + 10 <= 10 * OwGrid
    /\ b.ask = NoTop => b.bid = NoTop

\* Every book of the market is well typed.
LEMMA BooksTyped ==
    ASSUME NEW b \in OwBooks PROVE BookTyped(b)
<1>1. OwGrid \in Nat \ {0}
  BY OneWayAssumption
<1>2. b.bid \in Prices1 \cup {0} /\ b.ask \in Prices1 \cup {0}
      /\ (b.bid < b.ask \/ (b.bid = 0 /\ b.ask = 0))
  BY DEF OwBooks, NoTop
<1>3. b.bid = 0 \/ \E i \in 1..(OwGrid - 1) : b.bid = 10 * i
  BY <1>2, Price1Is
<1>4. b.ask = 0 \/ \E i \in 1..(OwGrid - 1) : b.ask = 10 * i
  BY <1>2, Price1Is
<1>5. b.bid \in Nat /\ b.ask \in Nat
  BY <1>1, <1>3, <1>4
<1>6. ASSUME b.ask # 0
      PROVE  /\ \E i \in 1..(OwGrid - 1) : b.ask = 10 * i
             /\ b.bid + 10 <= b.ask /\ b.ask + 10 <= 10 * OwGrid
  <2>1. PICK i \in 1..(OwGrid - 1) : b.ask = 10 * i
    BY <1>4, <1>6
  <2>2. \E j \in 0..(OwGrid - 1) : b.bid = 10 * j
    BY <1>1, <1>3
  <2>3. PICK j \in 0..(OwGrid - 1) : b.bid = 10 * j
    BY <2>2
  <2> QED
    BY <1>1, <1>2, <2>1, <2>3
<1>7. b.ask = 0 => b.bid = 0
  BY <1>2, <1>5
<1> QED
  BY <1>3, <1>5, <1>6, <1>7 DEF BookTyped, NoTop

\* So is what the strategy is given.
LEMMA MarketsTyped ==
    ASSUME NEW in \in Markets1
    PROVE  in.book \in OwBooks /\ BookTyped(in.book) /\ in.fv \in Nat /\ in.gap \in Nat \ {0}
<1>1. PICK b \in OwBooks :
         in \in [book : {b}, fv : MarketFairValues(b), gap : Gaps, nearEnd : BOOLEAN]
  BY DEF Markets1
<1>2. in.book = b /\ in.fv \in MarketFairValues(b) /\ in.gap \in Gaps
  BY <1>1
<1>3. BookTyped(b) /\ Gaps \subseteq Nat \ {0} /\ OwGrid \in Nat \ {0}
  BY BooksTyped, OneWayAssumption
<1>4. \A f \in MarketFairValues(b) : f \in Nat
  <2>1. CASE b.bid = 0
    BY <2>1 DEF MarketFairValues, NoTop, T
  <2>2. CASE b.bid # 0
    <3>1. b.ask # 0
      BY <1>3, <2>2 DEF BookTyped, NoTop
    <3>2. b.bid \in Nat /\ b.ask \in Nat /\ b.ask + 10 <= 10 * OwGrid
      BY <1>3, <3>1 DEF BookTyped, NoTop
    <3>3. Whole = 10 * OwGrid
      BY <1>3 DEF Whole, T
    <3>4. (b.bid + b.ask) \div 2 \in Nat /\ Whole - b.ask \in Nat
      BY <1>3, <3>2, <3>3
    <3> QED
      BY <2>2, <3>2, <3>4 DEF MarketFairValues, NoTop
  <2> QED
    BY <2>1, <2>2
<1> QED
  BY <1>2, <1>3, <1>4

\* The fair value of the day is a number (one_way.py:29-69).
LEMMA FairValueTyped ==
    ASSUME NEW day \in Nat PROVE CalcFairValue(day) \in Nat
<1>1. FvInitial \in Nat /\ FvStart \in Nat /\ FvEnd \in Nat
  BY OneWayAssumption
<1>2. ASSUME ~(day >= FvEnd), ~(FvEnd <= FvStart)
      PROVE  (FvInitial * (FvEnd - day)) \div (FvEnd - FvStart) \in Nat
  <2>1. FvEnd - day \in Nat /\ FvEnd - FvStart \in Nat \ {0}
    BY <1>1, <1>2
  <2>2. FvInitial * (FvEnd - day) \in Nat
    BY <1>1, <2>1
  <2>3. \A a \in Nat, b \in Nat \ {0} : a \div b \in Nat
    OBVIOUS
  <2> QED
    BY <2>1, <2>2, <2>3
<1> QED
  BY <1>1, <1>2 DEF CalcFairValue

-----------------------------------------------------------------------------
(* The bids.                                                               *)

\* The prices of the bids go down from the best bid.
LEMMA BuyPricesFall ==
    ASSUME NEW in \in Markets1, NEW up \in BOOLEAN, NEW our \in Nat
    PROVE  \E n \in 1..BuyLayers :
                          /\ BuyPrices(in, up, our) \in [1..n -> Int]
                          /\ \A i \in 1..n : BuyPrices(in, up, our)[i] <= in.book.bid
<1> DEFINE top    == Smaller(Smaller(in.fv, (our * 6) \div 5), in.book.bid)
           layers == IF up THEN Bigger(1, BuyLayers - 1) ELSE BuyLayers
           fall(i, p) == LET next == our - (i - 1) * in.gap * T
                         IN  IF next >= p THEN p - T ELSE next
           Eq(price) == price = [i \in 1..layers |-> IF i = 1 THEN top ELSE fall(i, price[i - 1])]
           step == [i \in 1..layers |-> [p \in Int |-> fall(i, p)]]
<1>1. in.book.bid \in Nat /\ in.fv \in Nat /\ in.gap \in Nat /\ BuyLayers \in Nat \ {0}
  BY MarketsTyped, OneWayAssumption DEF BookTyped
<1>2. top \in Int /\ top <= in.book.bid
  <2>1. (our * 6) \div 5 \in Int
    OBVIOUS
  <2> QED
    BY <1>1, <2>1 DEF Smaller
<1>3. layers \in Nat \ {0} /\ layers \in 1..BuyLayers
  BY <1>1 DEF Bigger
<1>4. BuyPrices(in, up, our) = CHOOSE price : Eq(price)
  BY DEF BuyPrices
<1> HIDE DEF top, layers
<1>5. \A i \in 1..layers, p \in Int : fall(i, p) \in Int /\ fall(i, p) <= p
  <2> SUFFICES ASSUME NEW i \in 1..layers, NEW p \in Int
               PROVE  fall(i, p) \in Int /\ fall(i, p) <= p
    OBVIOUS
  <2>1. PICK next \in Int : next = our - (i - 1) * in.gap * T
    BY <1>1 DEF T
  <2>2. fall(i, p) = IF next >= p THEN p - 10 ELSE next
    BY <2>1 DEF T
  <2> HIDE DEF fall
  <2> QED
    BY <2>2
<1> HIDE DEF fall
<1>6. step \in [1..layers -> [Int -> Int]] /\ \A i \in 1..layers, p \in Int : step[i][p] = fall(i, p)
  BY <1>5
<1> HIDE DEF step
<1>7. PICK f \in [1..layers -> Int] : Follows(f, layers, top, step)
  BY <1>2, <1>3, <1>6, FollowerExists
<1>8. Eq(f)
  <2>1. ASSUME NEW i \in 1..layers, i # 1 PROVE f[i] = fall(i, f[i - 1])
    <3>1. i \in 2..layers /\ i - 1 \in 1..layers
      BY <1>3, <2>1
    <3>2. f[i - 1] \in Int
      BY <1>7, <3>1
    <3> QED
      BY <1>6, <1>7, <3>1, <3>2 DEF Follows
  <2>2. f[1] = top
    BY <1>7 DEF Follows
  <2> QED
    BY <1>7, <2>1, <2>2
<1>9. PICK g : g = (CHOOSE price : Eq(price)) /\ Eq(g)
  <2> HIDE DEF Eq
  <2>1. Eq(CHOOSE price : Eq(price))
    BY <1>8, Zenon
  <2> QED
    BY <2>1, Zenon
<1>10. g[1] = top /\ \A i \in 1..layers : i # 1 => g[i] = fall(i, g[i - 1])
  <2>1. Eq(g)
    BY <1>9
  <2>2. \A i \in 1..layers : g[i] = IF i = 1 THEN top ELSE fall(i, g[i - 1])
    BY <2>1
  <2>3. 1 \in 1..layers
    BY <1>3
  <2> HIDE DEF Eq
  <2> QED
    BY <2>2, <2>3
<1>11. \A i \in 1..layers : g[i] \in Int /\ g[i] <= in.book.bid
  <2> DEFINE P == {m \in Nat : m + 1 <= layers => g[m + 1] \in Int /\ g[m + 1] <= in.book.bid}
  <2>1. 0 \in P
    <3>1. 0 + 1 = 1
      OBVIOUS
    <3> QED
      BY <1>2, <1>10, <3>1
  <2>2. ASSUME NEW m \in P PROVE m + 1 \in P
    <3> SUFFICES ASSUME (m + 1) + 1 <= layers
                 PROVE  g[(m + 1) + 1] \in Int /\ g[(m + 1) + 1] <= in.book.bid
      OBVIOUS
    <3>1. PICK i \in 1..layers : i = (m + 1) + 1 /\ i # 1 /\ i - 1 = m + 1 /\ i - 1 \in 1..layers
      BY <1>3
    <3>2. g[i - 1] \in Int /\ g[i - 1] <= in.book.bid
      BY <1>3, <3>1
    <3>3. g[i] = fall(i, g[i - 1])
      BY <1>10, <3>1
    <3>4. fall(i, g[i - 1]) \in Int /\ fall(i, g[i - 1]) <= g[i - 1]
      BY <1>5, <3>2
    <3>5. g[i] \in Int /\ g[i] <= in.book.bid
      BY <1>1, <3>2, <3>3, <3>4
    <3> QED
      BY <3>1, <3>5
  <2> HIDE DEF P
  <2>3. P = Nat
    <3>1. P \in SUBSET Nat
      BY DEF P
    <3> QED
      BY <2>1, <2>2, <3>1, NumbersByStep
  <2> SUFFICES ASSUME NEW i \in 1..layers PROVE g[i] \in Int /\ g[i] <= in.book.bid
    OBVIOUS
  <2>4. PICK m \in Nat : m + 1 = i
    <3>1. i - 1 \in Nat /\ (i - 1) + 1 = i
      BY <1>3
    <3> QED
      BY <3>1
  <2>5. m \in P /\ m + 1 <= layers
    BY <1>3, <2>3, <2>4
  <2>6. g[m + 1] \in Int /\ g[m + 1] <= in.book.bid
    BY <2>5 DEF P
  <2> QED
    BY <2>4, <2>6
<1>12. g \in [1..layers -> Int]
  <2>0. Eq(g)
    BY <1>9
  <2>1. g = [i \in 1..layers |-> IF i = 1 THEN top ELSE fall(i, g[i - 1])]
    BY <2>0
  <2>2. \A i \in 1..layers : (IF i = 1 THEN top ELSE fall(i, g[i - 1])) = g[i]
    BY <1>10
  <2>3. \A i \in 1..layers : g[i] \in Int
    BY <1>11
  <2> HIDE DEF Eq
  <2> QED
    BY <2>1, <2>2, <2>3
<1> HIDE DEF Eq
<1> QED
  BY <1>3, <1>4, <1>9, <1>11, <1>12

\* A weight is a number of tenths.
LEMMA WeightTyped == \A i \in Nat \ {0} : Weight(i) \in 0..10
<1> SUFFICES ASSUME NEW i \in Nat \ {0} PROVE Weight(i) \in 0..10
  OBVIOUS
<1>1. Pyramid \in Seq(0..10) /\ Len(Pyramid) \in Nat \ {0}
  BY OneWayAssumption
<1>2. Smaller(i, Len(Pyramid)) \in 1..Len(Pyramid)
  BY <1>1 DEF Smaller
<1> QED
  BY <1>1, <1>2 DEF Weight

\* Bids up to the best one.
OwBids(bid) == {q \in OwOrders : q.side = "BUY" /\ bid # NoTop /\ q.price <= bid}

\* Bids are at the best bid or under it (one_way.py:222-282).
LEMMA BuyQuotesTyped ==
    ASSUME NEW in \in Markets1, NEW up \in BOOLEAN, NEW reduce \in BOOLEAN, NEW scale \in Nat,
           NEW our \in Nat, NEW stock \in Nat
    PROVE  BuyQuotes(in, up, reduce, scale, our, stock) \in Seq(OwBids(in.book.bid))
<1> DEFINE prices == BuyPrices(in, up, our)
           low == UtilBelow(stock, in.fv, OwInvLow)
           quarters == scale * (IF low THEN 2 ELSE 1)
           size(i) == (OwBase * Weight(i) * quarters * Whole) \div (40 * Bigger(prices[i], T))
           all == [i \in DOMAIN prices |->
                     Order1("BUY", Rounded(prices[i]), IF prices[i] > 0 THEN size(i) ELSE 0)]
           I == {i \in DOMAIN all : all[i].size >= OwMin}
<1>1. CASE ~CanBuy(in, reduce, stock)
  BY <1>1 DEF BuyQuotes
<1>2. CASE CanBuy(in, reduce, stock)
  <2>1. in.book.bid # NoTop
    BY <1>2 DEF CanBuy
  <2>2. BuyQuotes(in, up, reduce, scale, our, stock) = Picked(all, I)
    BY <1>2, Zenon DEF BuyQuotes
  <2>3. PICK n \in Nat : prices \in [1..n -> Int] /\ \A i \in 1..n : prices[i] <= in.book.bid
    <3>1. PICK n \in 1..BuyLayers :
             prices \in [1..n -> Int] /\ \A i \in 1..n : prices[i] <= in.book.bid
      BY BuyPricesFall
    <3>2. n \in Nat
      BY OneWayAssumption
    <3> HIDE DEF prices
    <3> QED
      BY <3>1, <3>2
  <2> HIDE DEF prices
  <2>4. BookTyped(in.book) /\ OwGrid \in Nat \ {0} /\ OwBase \in Nat /\ OwMin \in Nat \ {0}
        /\ Whole \in Nat /\ T = 10
    BY MarketsTyped, OneWayAssumption DEF Whole, T
  <2>5. quarters \in Nat
    OBVIOUS
  <2> HIDE DEF quarters, low
  <2>6. ASSUME NEW i \in 1..n PROVE size(i) \in Nat
    <3>1. Weight(i) \in 0..10
      BY WeightTyped
    <3>2. prices[i] \in Int
      BY <2>3
    <3>3. Bigger(prices[i], T) \in Nat \ {0}
      BY <2>4, <3>2 DEF Bigger
    <3>4. OwBase * Weight(i) * quarters * Whole \in Nat
      BY <2>4, <2>5, <3>1
    <3>5. 40 * Bigger(prices[i], T) \in Nat \ {0}
      BY <3>3
    <3>6. \A a \in Nat, b \in Nat \ {0} : a \div b \in Nat
      OBVIOUS
    <3> QED
      BY <3>4, <3>5, <3>6
  <2> HIDE DEF size
  <2>7. DOMAIN all = 1..n
    BY <2>3
  <2>8. I \in SUBSET (1..n)
    BY <2>7
  <2>9. ASSUME NEW i \in I PROVE all[i] \in OwBids(in.book.bid)
    <3>1. i \in 1..n /\ all[i] = Order1("BUY", Rounded(prices[i]), IF prices[i] > 0 THEN size(i) ELSE 0)
          /\ all[i].size >= OwMin
      BY <2>7, <2>8
    <3>2. prices[i] > 0 /\ all[i].size = size(i) /\ all[i] = Order1("BUY", Rounded(prices[i]), size(i))
      BY <2>4, <3>1 DEF Order1
    <3>3. size(i) \in Nat \ {0}
      BY <2>4, <2>6, <3>1, <3>2
    <3>4. prices[i] \in Int /\ prices[i] <= in.book.bid
      BY <2>3, <3>1
    <3>5. PICK k \in Int : Rounded(prices[i]) = 10 * k /\ 10 * k <= prices[i] + 5 /\ prices[i] + 5 < 10 * k + 10
      BY <3>4, RoundedIs
    <3>6. PICK j \in 1..(OwGrid - 1) : in.book.bid = 10 * j
      BY <2>1, <2>4 DEF BookTyped
    <3>7. k \in 0..OwGrid /\ Rounded(prices[i]) <= in.book.bid
      BY <2>4, <3>2, <3>4, <3>5, <3>6
    <3>8. Rounded(prices[i]) \in OwPrices
      BY <2>4, <3>5, <3>7 DEF OwPrices
    <3> QED
      BY <2>1, <3>2, <3>3, <3>7, <3>8 DEF OwBids, OwOrders, Order1
  <2> HIDE DEF all, I
  <2>10. Picked(all, I) \in Seq(OwBids(in.book.bid))
    BY <2>8, <2>9, PickedTyped
  <2> QED
    BY <2>2, <2>10
<1> QED
  BY <1>1, <1>2

-----------------------------------------------------------------------------
(* The offers.                                                             *)

\* A price that a wall pulls down stops a tick under the best offer.
LEMMA WallStops ==
    ASSUME NEW b \in OwBooks, b.ask # NoTop, NEW walls \in WallsOf(b), NEW price \in Int
    PROVE  LET r == AdjustForWall(walls, price) IN
           /\ r \in Int /\ r <= price
           /\ r = price \/ b.ask - 10 <= Rounded(r)
<1> DEFINE levels == <<price - T, price, price + T>>
           walled == {i \in 1..3 : \E w \in walls : 2 * Apart1(w, levels[i]) < T}
           first == CHOOSE i \in walled : \A j \in walled : i <= j
<1>1. T = 10 /\ BookTyped(b) /\ WallOffsets \subseteq Nat
  BY BooksTyped, OneWayAssumption DEF T
<1>2. walls \subseteq {b.ask + 10 * k : k \in WallOffsets}
  BY <1>1 DEF WallsOf
<1>3. AdjustForWall(walls, price) = IF walled = {} THEN price ELSE levels[first] - T
  BY DEF AdjustForWall
<1>4. CASE walled = {}
  BY <1>3, <1>4
<1>5. CASE walled # {}
  <2>1. walled \in SUBSET Nat
    OBVIOUS
  <2>2. first \in walled
    <3> HIDE DEF walled
    <3>1. \E i \in walled : \A j \in walled : i <= j
      BY <1>5, <2>1, LeastNumber
    <3> QED
      BY <3>1
  <2>3. PICK i \in 1..3 : i = first /\ \E w \in walls : 2 * Apart1(w, levels[i]) < T
    BY <2>2
  <2>4. PICK w \in walls : 2 * Apart1(w, levels[i]) < T
    BY <2>3
  <2>5. PICK k \in Nat : w = b.ask + 10 * k
    BY <1>1, <1>2
  <2>6. PICK l \in Int : l = levels[i] /\ l <= price + 10
    BY <1>1
  <2>7. AdjustForWall(walls, price) = l - 10
    BY <1>1, <1>3, <1>5, <2>3, <2>6
  <2>8. PICK a \in 1..(OwGrid - 1) : b.ask = 10 * a
    BY <1>1 DEF BookTyped
  <2>9. w - 5 < l
    BY <1>1, <2>4, <2>5, <2>6, <2>8 DEF Apart1
  <2>10. PICK m \in Int : Rounded(l - 10) = 10 * m /\ 10 * m <= (l - 10) + 5 /\ (l - 10) + 5 < 10 * m + 10
    BY <2>6, RoundedIs
  <2>11. b.ask - 10 <= Rounded(l - 10)
    <3>1. OwGrid \in Nat
      BY OneWayAssumption
    <3> QED
      BY <2>5, <2>6, <2>8, <2>9, <2>10, <3>1
  <2> QED
    BY <2>6, <2>7, <2>11
<1> QED
  BY <1>4, <1>5

\* Offers of one size that stay over the best bid.
OwAsks(bid, size) == {q \in OwOrders : q.side = "SELL" /\ bid <= q.price /\ q.size = size}

\* An offer that is cleared of the bid and of the walls.
LEMMA ClearedTyped ==
    ASSUME NEW b \in OwBooks, b.ask # NoTop, NEW walls \in WallsOf(b), NEW p \in Nat, p < Whole,
           NEW size \in Nat \ {0}
    PROVE  Order1("SELL", Rounded(AdjustForWall(walls, IF b.bid = NoTop THEN p ELSE Bigger(p, b.bid + T))),
                  size) \in OwAsks(b.bid, size)
<1>1. T = 10 /\ BookTyped(b) /\ OwGrid \in Nat \ {0} /\ Whole = 10 * OwGrid /\ NoTop = 0
  BY BooksTyped, OneWayAssumption DEF T, Whole, NoTop
<1>2. PICK q : q = IF b.bid = NoTop THEN p ELSE Bigger(p, b.bid + T)
  OBVIOUS
<1>3. b.bid \in Nat /\ b.ask \in Nat /\ b.bid + 10 <= b.ask /\ b.ask + 10 <= 10 * OwGrid
      /\ \E i \in 0..(OwGrid - 1) : b.bid = 10 * i
  BY <1>1 DEF BookTyped
<1>4. q \in Nat /\ q < Whole /\ b.bid <= q
  BY <1>1, <1>2, <1>3 DEF Bigger
<1>5. PICK r \in Int : r = AdjustForWall(walls, q) /\ r <= q /\ (r = q \/ b.ask - 10 <= Rounded(r))
  BY <1>4, WallStops
<1>6. PICK k \in Int : Rounded(r) = 10 * k /\ 10 * k <= r + 5 /\ r + 5 < 10 * k + 10
  BY RoundedIs
<1>7. PICK j \in 0..(OwGrid - 1) : b.bid = 10 * j
  BY <1>3
<1>8. k \in 0..OwGrid /\ b.bid <= 10 * k
  BY <1>1, <1>3, <1>4, <1>5, <1>6, <1>7
<1>9. Rounded(r) \in OwPrices
  BY <1>1, <1>6, <1>8 DEF OwPrices
<1>10. Order1("SELL", Rounded(r), size) \in OwAsks(b.bid, size)
  BY <1>6, <1>8, <1>9 DEF OwAsks, OwOrders, Order1
<1> QED
  BY <1>2, <1>5, <1>10

\* An offer's price is a number (one_way.py:311-351).
LEMMA SellPriceTyped ==
    ASSUME NEW in \in Markets1, in.book.ask # NoTop, NEW our \in Nat, NEW low \in BOOLEAN,
           NEW i \in Nat \ {0}
    PROVE  SellPrice(in, our, low, i) \in Nat
<1>1. T = 10 /\ in.book.ask \in Nat /\ in.fv \in Nat /\ in.gap \in Nat /\ PrevPrice = 0
  BY MarketsTyped DEF T, BookTyped, PrevPrice
<1>2. PICK x \in Nat : x = (our * 4) \div 5
  OBVIOUS
<1>3. Bigger(Smaller(in.fv, x), in.book.ask) \in Nat
  BY <1>1 DEF Bigger, Smaller
<1>4. PICK y \in Nat : y = (i - 1) * in.gap * T
  <2>1. (i - 1) * in.gap \in Nat
    BY <1>1
  <2> QED
    BY <1>1, <2>1
<1>5. PrevPrice + in.gap * T \in Nat /\ our + y \in Nat
  BY <1>1
<1> QED
  BY <1>1, <1>2, <1>3, <1>4, <1>5 DEF SellPrice

\* The offers are of one size, together no more than the position.
LEMMA SellQuotesTyped ==
    ASSUME NEW in \in Markets1, NEW walls \in WallsOf(in.book), NEW panic \in BOOLEAN,
           NEW dear \in BOOLEAN, NEW our \in Nat, NEW stock \in Nat
    PROVE  \E size \in Nat :
              /\ SellQuotes(in, walls, panic, dear, our, stock) \in Seq(OwAsks(in.book.bid, size))
              /\ Len(SellQuotes(in, walls, panic, dear, our, stock)) * size <= stock
<1> DEFINE low    == ~(in.book.ask # NoTop /\ in.book.ask > our)
           count  == SellCount(in, panic, dear, low)
           size   == SellSize(stock, count)
           prices == [i \in 1..count |-> SellPrice(in, our, low, i)]
           I      == {i \in 1..count : prices[i] < Whole}
           priced == Picked(prices, I)
           clear(p) == AdjustForWall(walls, IF in.book.bid = NoTop THEN p ELSE Bigger(p, in.book.bid + T))
           none   == stock < OwMin \/ count = 0 \/ (low /\ in.book.ask = NoTop) \/ size < OwMin
           quotes == [i \in DOMAIN priced |-> Order1("SELL", Rounded(clear(priced[i])), size)]
<1>1. SellQuotes(in, walls, panic, dear, our, stock) = IF none THEN << >> ELSE quotes
  BY DEF SellQuotes
<1>2. CASE none
  <2>1. << >> \in Seq(OwAsks(in.book.bid, 0)) /\ Len(<< >>) * 0 <= stock
    OBVIOUS
  <2> QED
    BY <1>1, <1>2, <2>1
<1>3. CASE ~none
  <2>1. low \in BOOLEAN /\ OwMin \in Nat \ {0} /\ SellLayers \in Nat
    BY OneWayAssumption
  <2>2. in.book.ask # NoTop
    BY <1>3
  <2>3. count \in Nat /\ count # 0
    BY <1>3, <2>1 DEF SellCount
  <2>4. in.book \in OwBooks
    BY MarketsTyped
  <2>a. size >= OwMin \/ size < OwMin
    <3>1. stock \div count \in Int
      <4> HIDE DEF count
      <4> QED
        BY <2>3
    <3>2. size \in Int
      BY <3>1 DEF SellSize
    <3> HIDE DEF size
    <3> QED
      BY <2>1, <3>2
  <2>b. ~(size < OwMin)
    BY <1>3
  <2> HIDE DEF none, low, count
  <2>5. size \in Nat \ {0} /\ count * size <= stock
    <3>1. PICK s \in Nat : s = stock \div count /\ count * s <= stock
      BY <2>3
    <3> QED
      BY <2>1, <2>a, <2>b, <3>1 DEF SellSize
  <2>6. PICK z \in Nat \ {0} : z = size
    BY <2>5
  <2> HIDE DEF size
  <2>7. I \in SUBSET (1..count)
    OBVIOUS
  <2>8. ASSUME NEW i \in I PROVE prices[i] \in {p \in Nat : p < Whole}
    <3>1. i \in 1..count /\ i \in Nat \ {0} /\ prices[i] = SellPrice(in, our, low, i) /\ prices[i] < Whole
      BY <2>3
    <3> HIDE DEF prices
    <3> QED
      BY <2>1, <2>2, <3>1, SellPriceTyped
  <2>9. priced \in Seq({p \in Nat : p < Whole}) /\ Len(priced) = Cardinality(I)
    <3> HIDE DEF prices, I
    <3> QED
      BY <2>3, <2>7, <2>8, PickedTyped
  <2>10. Cardinality(I) \in Nat /\ Cardinality(I) <= count
    <3>1. IsFiniteSet(1..count) /\ Cardinality(1..count) = count
      BY <2>3, FS_Interval
    <3> HIDE DEF I
    <3> QED
      BY <2>7, <3>1, FS_Subset, FS_CardinalityType
  <2> HIDE DEF prices, I
  <2>11. PICK n \in Nat : n = Len(priced) /\ n <= count /\ DOMAIN priced = 1..n
    BY <2>9, <2>10
  <2>12. \A i \in 1..n : priced[i] \in Nat /\ priced[i] < Whole
    BY <2>9, <2>11
  <2> HIDE DEF priced
  <2>13. ASSUME NEW i \in 1..n
         PROVE  Order1("SELL", Rounded(clear(priced[i])), size) \in OwAsks(in.book.bid, z)
    <3>1. PICK p \in Nat : p = priced[i] /\ p < Whole
      BY <2>12
    <3>2. Order1("SELL", Rounded(AdjustForWall(walls, IF in.book.bid = NoTop THEN p
                                                      ELSE Bigger(p, in.book.bid + T))), z)
             \in OwAsks(in.book.bid, z)
      BY <2>2, <2>4, <3>1, ClearedTyped
    <3> QED
      BY <2>6, <3>1, <3>2
  <2>14. quotes \in Seq(OwAsks(in.book.bid, z)) /\ Len(quotes) = n
    <3>1. quotes = [i \in 1..n |-> Order1("SELL", Rounded(clear(priced[i])), size)]
      BY <2>11
    <3> DEFINE e(i) == Order1("SELL", Rounded(clear(priced[i])), size)
    <3>2. \A i \in 1..n : e(i) \in OwAsks(in.book.bid, z)
      BY <2>13
    <3> HIDE DEF e, quotes
    <3>3. quotes = [i \in 1..n |-> e(i)]
      BY <3>1 DEF e
    <3> QED
      BY <3>2, <3>3
  <2>15. n * z <= stock
    <3>1. \A a, b, c \in Nat : a <= b => a * c <= b * c
      OBVIOUS
    <3>2. n * z <= count * z /\ n * z \in Nat /\ count * z \in Nat
      BY <2>3, <2>11, <3>1
    <3> QED
      BY <2>5, <2>6, <3>2
  <2> HIDE DEF quotes
  <2>16. SellQuotes(in, walls, panic, dear, our, stock) = quotes
    BY <1>1, <1>3
  <2> QED
    BY <2>14, <2>15, <2>16
<1> QED
  BY <1>2, <1>3

-----------------------------------------------------------------------------
(* The loop.                                                               *)

\* What is offered.
Sizes(live)   == [i \in DOMAIN live |-> live[i].size]

\* The shares that are offered.
OfferedBy(live) == SumFunctionOnSet(Sizes(live), Indices(live, "SELL"))

\* The orders of a ladder are numbers, finitely many.
LEMMA OrdersTyped ==
    ASSUME NEW live \in Seq(OwOrders)
    PROVE  /\ \A side \in {"BUY", "SELL"} : IsFiniteSet(Indices(live, side))
           /\ \A i \in DOMAIN live : Sizes(live)[i] = live[i].size /\ Sizes(live)[i] \in Nat \ {0}
                                     /\ live[i].price \in Nat /\ live[i].side \in {"BUY", "SELL"}
<1>1. DOMAIN live = 1..Len(live) /\ Len(live) \in Nat /\ IsFiniteSet(1..Len(live))
  BY FS_Interval
<1>2. \A side \in {"BUY", "SELL"} : IsFiniteSet(Indices(live, side))
  <2>1. \A side \in {"BUY", "SELL"} : Indices(live, side) \subseteq 1..Len(live)
    BY <1>1 DEF Indices
  <2> QED
    BY <1>1, <2>1, FS_Subset
<1>3. \A p \in OwPrices : p \in Nat
  BY OneWayAssumption DEF OwPrices, T
<1>4. \A i \in DOMAIN live : live[i] \in OwOrders
  OBVIOUS
<1> QED
  BY <1>2, <1>3, <1>4 DEF OwOrders, Sizes

\* A ladder of bids and one of offers, for a position.
Ladders(quotes, stock) ==
    \E bid \in Nat, size \in Nat :
        \E b \in Seq(OwBids(bid)), s \in Seq(OwAsks(bid, size)) :
            quotes = b \o s /\ Len(s) * size <= stock

\* The bids of a recompute and its offers, in one list.
Joined(quotes, b, s, size) ==
    /\ quotes \in Seq(OwOrders) /\ b \in Seq(OwOrders)
    /\ Len(b) \in Nat /\ Len(s) \in Nat /\ DOMAIN b = 1..Len(b)
    /\ Indices(quotes, "SELL") = (Len(b) + 1)..(Len(b) + Len(s))
    /\ Indices(quotes, "BUY") = 1..Len(b)
    /\ DOMAIN quotes = 1..(Len(b) + Len(s))
    /\ \A k \in 1..Len(b) : quotes[k] = b[k]
    /\ \A k \in Indices(quotes, "SELL") : quotes[k].size = size

\* The bids come first and the offers after them.
LEMMA LaddersJoin ==
    ASSUME NEW bid \in Nat, NEW size \in Nat, NEW b \in Seq(OwBids(bid)), NEW s \in Seq(OwAsks(bid, size))
    PROVE  Joined(b \o s, b, s, size)
<1>q. PICK quotes : quotes = b \o s
  OBVIOUS
<1>3. /\ Len(b) \in Nat /\ Len(s) \in Nat
      /\ \A k \in 1..Len(b) : b[k] \in OwOrders /\ b[k].side = "BUY"
      /\ \A k \in 1..Len(s) : s[k] \in OwOrders /\ s[k].side = "SELL" /\ s[k].size = size
  <2>1. \A k \in 1..Len(b) : b[k] \in OwBids(bid)
    OBVIOUS
  <2>2. \A k \in 1..Len(s) : s[k] \in OwAsks(bid, size)
    OBVIOUS
  <2> QED
    BY <2>1, <2>2 DEF OwBids, OwAsks
<1>4. b \in Seq(OwOrders) /\ s \in Seq(OwOrders)
  <2>1. OwBids(bid) \subseteq OwOrders /\ OwAsks(bid, size) \subseteq OwOrders
    BY DEF OwBids, OwAsks
  <2> QED
    BY <2>1
<1>5. PICK m \in Nat, n \in Nat : m = Len(b) /\ n = Len(s)
  BY <1>3
<1>6. /\ quotes \in Seq(OwOrders) /\ Len(quotes) = m + n
      /\ \A k \in 1..(m + n) : quotes[k] = IF k <= m THEN b[k] ELSE s[k - m]
  BY <1>q, <1>4, <1>5, ConcatProperties
<1>7. DOMAIN quotes = 1..(m + n)
  BY <1>6
<1>8. ASSUME NEW k \in 1..(m + n)
      PROVE  /\ k <= m => quotes[k].side = "BUY" /\ quotes[k] = b[k]
             /\ ~(k <= m) => quotes[k].side = "SELL" /\ quotes[k].size = size
  <2>1. CASE k <= m
    <3>1. k \in 1..Len(b) /\ quotes[k] = b[k]
      BY <1>5, <1>6, <2>1
    <3> QED
      BY <1>3, <2>1, <3>1
  <2>2. CASE ~(k <= m)
    <3>1. PICK i \in 1..Len(s) : i = k - m
      <4>1. \A x, y \in Nat : \A z \in 1..(x + y) : ~(z <= x) => z - x \in 1..y
        OBVIOUS
      <4>2. k - m \in 1..n
        BY <2>2, <4>1
      <4> QED
        BY <1>5, <4>2
    <3>2. quotes[k] = s[i]
      BY <1>6, <2>2, <3>1
    <3> QED
      BY <1>3, <2>2, <3>2
  <2> QED
    BY <2>1, <2>2
<1>9. Indices(quotes, "SELL") = (m + 1)..(m + n) /\ Indices(quotes, "BUY") = 1..m
  <2>1. \A k \in 1..(m + n) : quotes[k].side = "SELL" <=> ~(k <= m)
    BY <1>8
  <2>2. \A k \in 1..(m + n) : quotes[k].side = "BUY" <=> k <= m
    BY <1>8
  <2> QED
    BY <1>7, <2>1, <2>2 DEF Indices
<1>10. \A k \in (m + 1)..(m + n) : k \in 1..(m + n) /\ ~(k <= m)
  OBVIOUS
<1>11. \A k \in 1..m : k \in 1..(m + n) /\ k <= m
  OBVIOUS
<1>12. DOMAIN b = 1..m
  BY <1>5
<1>13. /\ quotes \in Seq(OwOrders) /\ b \in Seq(OwOrders)
       /\ Len(b) \in Nat /\ Len(s) \in Nat /\ DOMAIN b = 1..Len(b)
       /\ Indices(quotes, "SELL") = (Len(b) + 1)..(Len(b) + Len(s))
       /\ Indices(quotes, "BUY") = 1..Len(b)
       /\ DOMAIN quotes = 1..(Len(b) + Len(s))
       /\ \A k \in 1..Len(b) : quotes[k] = b[k]
       /\ \A k \in Indices(quotes, "SELL") : quotes[k].size = size
  BY <1>4, <1>5, <1>6, <1>7, <1>8, <1>9, <1>10, <1>11, <1>12
<1> QED
  BY <1>q, <1>13 DEF Joined

\* Together they offer no more than the position.
LEMMA LaddersAreSafe ==
    ASSUME NEW quotes, NEW stock \in Nat, Ladders(quotes, stock)
    PROVE  quotes \in Seq(OwOrders) /\ OfferedBy(quotes) <= stock
<1>1. PICK bid \in Nat, size \in Nat :
         \E b \in Seq(OwBids(bid)), s \in Seq(OwAsks(bid, size)) :
            quotes = b \o s /\ Len(s) * size <= stock
  BY DEF Ladders
<1>2. PICK b \in Seq(OwBids(bid)), s \in Seq(OwAsks(bid, size)) :
         quotes = b \o s /\ Len(s) * size <= stock
  BY <1>1
<1>3. PICK m \in Nat, n \in Nat : m = Len(b) /\ n = Len(s)
  OBVIOUS
<1>4. /\ quotes \in Seq(OwOrders) /\ DOMAIN quotes = 1..(m + n)
      /\ Indices(quotes, "SELL") = (m + 1)..(m + n)
      /\ \A k \in Indices(quotes, "SELL") : quotes[k].size = size
  <2>1. Joined(b \o s, b, s, size)
    BY LaddersJoin, Zenon
  <2>2. Joined(quotes, b, s, size)
    BY <1>2, <2>1, Zenon
  <2> QED
    BY <1>3, <2>2 DEF Joined
<1> DEFINE S == Indices(quotes, "SELL")
           f == Sizes(quotes)
<1>5. IsFiniteSet(S) /\ Cardinality(S) = n
  <2>1. IsFiniteSet((m + 1)..(m + n)) /\ Cardinality((m + 1)..(m + n)) = n
    BY FS_Interval
  <2> QED
    BY <1>4, <2>1
<1>6. \A k \in S : f[k] = size
  BY <1>4 DEF Sizes
<1> HIDE DEF S, f
<1>7. SumFunctionOnSet(f, S) = size * Cardinality(S)
  BY <1>5, <1>6, SumConstant
<1>8. size * n = n * size
  OBVIOUS
<1> QED
  BY <1>2, <1>3, <1>4, <1>5, <1>7, <1>8 DEF OfferedBy, S, f

\* The bids and the offers of a recompute are well typed, and the offers of one
\* size.
LEMMA LaddersTyped ==
    ASSUME NEW in \in Markets1, NEW our \in Nat, NEW stock \in Nat,
           NEW b \in BuyLadders(in, our, stock), NEW s \in SellLadders(in, our, stock)
    PROVE  /\ in.book.bid \in Nat
           /\ b \in Seq(OwBids(in.book.bid))
           /\ \E size \in Nat : s \in Seq(OwAsks(in.book.bid, size)) /\ Len(s) * size <= stock
<1>1. b \in Seq(OwBids(in.book.bid))
  <2>1. PICK up \in BOOLEAN, reduce \in BOOLEAN, scale \in OwScales :
           b = BuyQuotes(in, up, reduce, scale, our, stock)
    BY DEF BuyLadders
  <2>2. scale \in Nat
    BY OneWayAssumption
  <2> QED
    BY <2>1, <2>2, BuyQuotesTyped
<1>2. \E size \in Nat : s \in Seq(OwAsks(in.book.bid, size)) /\ Len(s) * size <= stock
  <2>1. PICK walls \in WallsOf(in.book), panic \in BOOLEAN, dear \in BOOLEAN :
           s = SellQuotes(in, walls, panic, dear, our, stock)
    BY DEF SellLadders
  <2> QED
    BY <2>1, SellQuotesTyped
<1>3. in.book.bid \in Nat
  BY MarketsTyped DEF BookTyped
<1> QED
  BY <1>1, <1>2, <1>3

\* Every ladder that a recompute may want offers what is held at most.
LEMMA WantedLadders ==
    ASSUME NEW w \in OwWanted
    PROVE  /\ w.stock \in Nat /\ w.fv \in Nat /\ w.bid \in Prices1 \cup {NoTop}
           /\ Ladders(w.quotes, w.stock)
<1>1. PICK in \in Markets1, day \in 0..LastDay, stock \in 0..OwMaxHeld : w \in LaddersFor(in, day, stock)
  BY DEF OwWanted
<1>2. PICK our : our = CalcFairValue(day)
  OBVIOUS
<1>3. PICK b \in BuyLadders(in, our, stock), s \in SellLadders(in, our, stock) :
         w = [stock |-> stock, day |-> day, bid |-> in.book.bid, fv |-> in.fv, quotes |-> b \o s]
  BY <1>1, <1>2 DEF LaddersFor
<1>4. stock \in Nat /\ our \in Nat
  <2>1. day \in Nat /\ OwMaxHeld \in Nat
    BY OneWayAssumption
  <2> QED
    BY <1>2, <2>1, FairValueTyped
<1>5. /\ b \in Seq(OwBids(in.book.bid))
      /\ \E size \in Nat : s \in Seq(OwAsks(in.book.bid, size)) /\ Len(s) * size <= stock
  BY <1>3, <1>4, LaddersTyped
<1>7. in.book.bid \in Nat /\ in.fv \in Nat /\ in.book \in OwBooks
  BY MarketsTyped DEF BookTyped
<1>8. w.stock = stock /\ w.quotes = b \o s /\ w.fv = in.fv /\ w.bid = in.book.bid
  BY <1>3
<1>9. Ladders(w.quotes, w.stock)
  <2>1. PICK size \in Nat : s \in Seq(OwAsks(in.book.bid, size)) /\ Len(s) * size <= stock
    BY <1>5
  <2>2. PICK bid \in Nat : bid = in.book.bid
    BY <1>7
  <2>3. b \in Seq(OwBids(bid)) /\ s \in Seq(OwAsks(bid, size)) /\ w.quotes = b \o s
        /\ Len(s) * size <= w.stock
    BY <1>5, <1>8, <2>1, <2>2
  <2> QED
    BY <2>3 DEF Ladders
<1>10. in.book.bid \in Prices1 \cup {NoTop}
  BY <1>7 DEF OwBooks
<1> QED
  BY <1>4, <1>7, <1>8, <1>9, <1>10

-----------------------------------------------------------------------------
(* The plan of a recompute.                                                *)

\* What rests is well typed, and what is offered is over the position by the
\* slack of the last recompute at most.
OwIInv ==
    /\ owLive \in Seq(OwOrders) /\ owHeld \in Nat /\ owSlack \in Nat
    /\ owBid \in Prices1 \cup {NoTop}
    /\ owDay \in 0..LastDay /\ owWorth \in Nat /\ owRound \in 0..OwRounds
    /\ OfferedBy(owLive) <= owHeld + owSlack

\* Products of numbers keep their order, and show it.
LEMMA ProductsOrder ==
    ASSUME NEW a \in Nat, NEW b \in Nat, NEW c \in Nat
    PROVE  /\ a <= b => c * a <= c * b
           /\ c # 0 /\ c * a <= c * b => a <= b
           /\ c * a \in Nat /\ c * b \in Nat
<1>1. CASE a <= b
  <2>1. PICK e \in Nat : b = a + e
    <3>1. b - a \in Nat /\ b = a + (b - a)
      BY <1>1
    <3> QED
      BY <3>1
  <2>2. c * (a + e) = c * a + c * e /\ c * e \in Nat
    OBVIOUS
  <2> QED
    BY <1>1, <2>1, <2>2
<1>2. CASE ~(a <= b)
  <2>1. PICK e \in Nat : a = b + 1 + e
    <3>1. a - b - 1 \in Nat /\ a = b + 1 + (a - b - 1)
      BY <1>2
    <3> QED
      BY <3>1
  <2>2. c * (b + 1 + e) = c * b + c + c * e /\ c * e \in Nat /\ c * b \in Nat
    OBVIOUS
  <2> QED
    BY <1>2, <2>1, <2>2
<1> QED
  BY <1>1, <1>2

\* An order of the one-way strategy satisfies the quote that it is.
LEMMA OwSatisfiesItself == \A q \in OwOrders : Satisfies(q, q, OwTolerance)
<1> SUFFICES ASSUME NEW q \in OwOrders PROVE Satisfies(q, q, OwTolerance)
  OBVIOUS
<1>1. q.size \in Nat /\ q.price \in Nat
  <2>1. \A p \in OwPrices : p \in Nat
    BY OneWayAssumption DEF OwPrices, T
  <2> QED
    BY <2>1 DEF OwOrders
<1>2. OwRepriceTicks * T \in Nat /\ OwResizeNum * q.size \in Nat /\ OwResizeDen \in Nat
  BY <1>1, OneWayAssumption DEF T
<1>3. Between(q.price, q.price) = 0 /\ Between(q.size, q.size) = 0
  BY <1>1 DEF Between
<1>4. 0 * OwResizeDen = 0
  BY <1>2
<1> QED
  BY <1>2, <1>3, <1>4 DEF Satisfies, PriceClose, SizeClose, OwTolerance

\* An order kept for a target is within the tolerances of its price and size.
LEMMA OwTolerates ==
    ASSUME NEW o \in OwOrders, NEW q \in OwOrders, Satisfies(o, q, OwTolerance)
    PROVE  /\ o.side = q.side
           /\ o.price <= q.price + T * OwRepriceTicks
           /\ OwResizeDen * o.size <= (OwResizeDen + OwResizeNum) * q.size
<1>1. \A p \in OwPrices : p \in Nat
  BY OneWayAssumption DEF OwPrices, T
<1>2. PICK x \in Nat, y \in Nat, m \in Nat, n \in Nat :
         x = o.price /\ y = q.price /\ m = o.size /\ n = q.size
  BY <1>1 DEF OwOrders
<1>3. PICK num \in Nat, den \in Nat : num = OwResizeNum /\ den = OwResizeDen
  BY OneWayAssumption
<1>4. o.side = q.side /\ Between(x, y) <= OwRepriceTicks * T /\ Between(m, n) * den <= num * n
  BY <1>2, <1>3 DEF Satisfies, PriceClose, SizeClose, OwTolerance
<1>5. x <= y + T * OwRepriceTicks
  <2>1. x - y <= Between(x, y) /\ Between(x, y) \in Int
    BY DEF Between
  <2>2. OwRepriceTicks * T = T * OwRepriceTicks /\ T * OwRepriceTicks \in Nat
    BY OneWayAssumption DEF T
  <2> QED
    BY <1>4, <2>1, <2>2
<1>6. den * m <= (den + num) * n
  <2>1. PICK d \in Nat : d = Between(m, n) /\ m <= n + d
    <3>1. Between(m, n) \in Nat /\ m <= n + Between(m, n)
      BY DEF Between
    <3> QED
      BY <3>1
  <2>2. den * m <= den * (n + d)
    BY <2>1, ProductsOrder
  <2>3. den * (n + d) = den * n + d * den /\ (den + num) * n = den * n + num * n
        /\ d * den \in Nat /\ num * n \in Nat /\ den * n \in Nat /\ den * m \in Nat
    OBVIOUS
  <2> QED
    BY <1>4, <2>1, <2>2, <2>3
<1> QED
  BY <1>2, <1>3, <1>4, <1>5, <1>6

\* When each order of a side is worth no more than its target, in some measure,
\* the side is worth no more than the targets of that side.
LEMMA AnsweredSums ==
    ASSUME NEW after \in Seq(OwOrders), NEW W \in Seq(OwOrders), Meets(after, W, OwTolerance),
           NEW side \in {"BUY", "SELL"}, NEW f, NEW g, NEW a \in Nat, NEW b \in Nat,
           \A i \in Indices(after, side) : f[i] \in Nat,
           \A k \in Indices(W, side) : g[k] \in Nat,
           \A i \in Indices(after, side), k \in Indices(W, side) :
              Satisfies(after[i], W[k], OwTolerance) => a * f[i] <= b * g[k]
    PROVE  /\ a * SumFunctionOnSet(f, Indices(after, side)) <= b * SumFunctionOnSet(g, Indices(W, side))
           /\ SumFunctionOnSet(f, Indices(after, side)) \in Nat
           /\ SumFunctionOnSet(g, Indices(W, side)) \in Nat
           /\ Indices(after, side) # {} => Indices(W, side) # {}
<1> DEFINE S == Indices(after, side)
           R == Indices(W, side)
<1>1. DOMAIN after = 1..Len(after) /\ DOMAIN W = 1..Len(W)
  OBVIOUS
<1>2. PICK at \in [1..Len(W) -> 1..Len(after)] :
         /\ \A k \in 1..Len(W) : Satisfies(after[at[k]], W[k], OwTolerance)
         /\ \A i \in 1..Len(after) : \E k \in 1..Len(W) : at[k] = i
  BY DEF Meets
<1>3. \A i \in S : \E k \in R : at[k] = i /\ Satisfies(after[i], W[k], OwTolerance)
  <2> SUFFICES ASSUME NEW i \in S
               PROVE  \E k \in R : at[k] = i /\ Satisfies(after[i], W[k], OwTolerance)
    OBVIOUS
  <2>1. i \in 1..Len(after) /\ after[i].side = side
    BY <1>1 DEF Indices
  <2>2. PICK k \in 1..Len(W) : at[k] = i /\ Satisfies(after[i], W[k], OwTolerance)
    BY <1>2, <2>1
  <2>3. k \in R
    BY <1>1, <2>1, <2>2 DEF Indices, Satisfies
  <2> QED
    BY <2>2, <2>3
<1>4. IsFiniteSet(S) /\ IsFiniteSet(R)
  BY OrdersTyped
<1>5. PICK U, V : U = S /\ V = R
  OBVIOUS
<1> HIDE DEF S, R
<1> DEFINE from == [i \in U |-> CHOOSE k \in V : at[k] = i /\ Satisfies(after[i], W[k], OwTolerance)]
           h == [i \in U |-> g[from[i]]]
<1>6. \A i \in U : from[i] \in V /\ at[from[i]] = i /\ Satisfies(after[i], W[from[i]], OwTolerance)
  BY <1>3, <1>5
<1>7. from \in [U -> V] /\ \A i, j \in U : from[i] = from[j] => i = j
  BY <1>6
<1>8. \A i \in U : h[i] = g[from[i]]
  OBVIOUS
<1> HIDE DEF from, h
<1>9. (\A i \in U : f[i] \in Nat) /\ (\A k \in V : g[k] \in Nat) /\ IsFiniteSet(U) /\ IsFiniteSet(V)
  BY <1>4, <1>5 DEF S, R
<1>10. \A i \in U : f[i] \in Nat /\ h[i] \in Nat /\ a * f[i] <= b * h[i]
  BY <1>5, <1>6, <1>8, <1>9 DEF S, R
<1>11. a * SumFunctionOnSet(f, U) <= b * SumFunctionOnSet(h, U)
  BY <1>9, <1>10, SumBound
<1>12. SumFunctionOnSet(h, U) = SumFunctionOnSet(g, {from[i] : i \in U})
  <2>1. Numbers(g, V)
    BY <1>9 DEF Numbers
  <2> QED
    BY <1>7, <1>8, <1>9, <2>1, SumRenamed
<1>13. {from[i] : i \in U} \in SUBSET V
  BY <1>6
<1>14. SumFunctionOnSet(g, {from[i] : i \in U}) <= SumFunctionOnSet(g, V)
  BY <1>9, <1>13, SumWithin
<1>15. PICK x \in Nat, y \in Nat, z \in Nat :
          x = SumFunctionOnSet(f, U) /\ y = SumFunctionOnSet(h, U) /\ z = SumFunctionOnSet(g, V)
  <2>1. SumFunctionOnSet(f, U) \in Nat /\ SumFunctionOnSet(h, U) \in Nat /\ SumFunctionOnSet(g, V) \in Nat
    BY <1>9, <1>10, SumIsNat
  <2> QED
    BY <2>1
<1>16. a * x <= b * z
  <2>1. a * x <= b * y /\ y <= z
    BY <1>11, <1>12, <1>14, <1>15
  <2>2. b * y <= b * z
    BY <2>1, ProductsOrder
  <2>3. a * x \in Nat /\ b * y \in Nat /\ b * z \in Nat
    OBVIOUS
  <2> QED
    BY <2>1, <2>2, <2>3
<1>17. U # {} => V # {}
  BY <1>6
<1> QED
  BY <1>5, <1>15, <1>16, <1>17 DEF S, R

\* What rests after a recompute answers its ladders.
LEMMA OwReconciles ==
    ASSUME OwIInv, NEW w \in OwWanted, OwRequote(w)
    PROVE  /\ w.quotes \in Seq(OwOrders) /\ OfferedBy(w.quotes) <= owHeld
           /\ owLive' \in Seq(OwOrders) /\ Meets(owLive', w.quotes, OwTolerance)
<1>1. w.stock \in Nat /\ Ladders(w.quotes, w.stock) /\ w.stock = owHeld
  BY WantedLadders DEF OwRequote
<1>2. w.quotes \in Seq(OwOrders) /\ OfferedBy(w.quotes) <= owHeld
  BY <1>1, LaddersAreSafe
<1>3. owLive' = Executed(Reconcile(w.quotes, owLive, OwTolerance), owLive) /\ owLive \in Seq(OwOrders)
  BY DEF OwRequote, OwIInv
<1> QED
  BY <1>2, <1>3, OwSatisfiesItself, PlanAnswers

\* The offers that rest exceed the position by resize_frac of it at most.
LEMMA OffersAnswered ==
    ASSUME NEW after \in Seq(OwOrders), NEW W \in Seq(OwOrders), Meets(after, W, OwTolerance),
           NEW stock \in Nat, OfferedBy(W) <= stock
    PROVE  OfferedBy(after) <= stock + (OwResizeNum * stock) \div OwResizeDen
<1> DEFINE f == Sizes(after)
           g == Sizes(W)
<1>1. PICK num \in Nat, den \in Nat \ {0} : num = OwResizeNum /\ den = OwResizeDen
  BY OneWayAssumption
<1>2. \A i \in Indices(after, "SELL") : i \in DOMAIN after /\ f[i] \in Nat /\ f[i] = after[i].size
  BY OrdersTyped DEF Indices, Sizes
<1>3. \A k \in Indices(W, "SELL") : k \in DOMAIN W /\ g[k] \in Nat /\ g[k] = W[k].size
  BY OrdersTyped DEF Indices, Sizes
<1>4. \A i \in Indices(after, "SELL"), k \in Indices(W, "SELL") :
         Satisfies(after[i], W[k], OwTolerance) => den * f[i] <= (den + num) * g[k]
  <2>1. \A i \in DOMAIN after : after[i] \in OwOrders
    OBVIOUS
  <2>2. \A k \in DOMAIN W : W[k] \in OwOrders
    OBVIOUS
  <2> HIDE DEF f, g
  <2> QED
    BY <1>1, <1>2, <1>3, <2>1, <2>2, OwTolerates
<1> HIDE DEF f, g
<1>5. PICK x \in Nat, y \in Nat :
         x = OfferedBy(after) /\ y = OfferedBy(W) /\ den * x <= (den + num) * y
  <2>1. /\ den * SumFunctionOnSet(f, Indices(after, "SELL"))
              <= (den + num) * SumFunctionOnSet(g, Indices(W, "SELL"))
        /\ SumFunctionOnSet(f, Indices(after, "SELL")) \in Nat
        /\ SumFunctionOnSet(g, Indices(W, "SELL")) \in Nat
    <3>1. den \in Nat /\ den + num \in Nat
      OBVIOUS
    <3>2. /\ \A i \in Indices(after, "SELL") : f[i] \in Nat
          /\ \A k \in Indices(W, "SELL") : g[k] \in Nat
      BY <1>2, <1>3
    <3> QED
      BY <1>4, <3>1, <3>2, AnsweredSums
  <2> QED
    BY <2>1 DEF OfferedBy, f, g
<1>6. (den + num) * y <= (den + num) * stock
  <2>1. y <= stock /\ den + num \in Nat
    BY <1>5
  <2> QED
    BY <2>1, ProductsOrder
<1>7. PICK d \in Int : d = x - stock
  OBVIOUS
<1>8. d * den <= num * stock
  <2>1. den * x = den * stock + d * den /\ (den + num) * stock = den * stock + num * stock
    <3>1. den * (stock + d) = den * stock + d * den /\ x = stock + d
      BY <1>7
    <3> QED
      BY <3>1
  <2>2. den * x \in Int /\ den * stock \in Int /\ d * den \in Int /\ num * stock \in Int
        /\ (den + num) * y \in Int
    OBVIOUS
  <2> QED
    BY <1>5, <1>6, <2>1, <2>2
<1>9. PICK m \in Nat : m = num * stock
  OBVIOUS
<1>10. m \div den \in Nat /\ d <= m \div den
  BY <1>8, <1>9, QuotientReaches
<1> QED
  BY <1>1, <1>5, <1>7, <1>9, <1>10

-----------------------------------------------------------------------------
(* What the bids cost.                                                     *)

\* What each order costs.
Costs(b) == [i \in DOMAIN b |-> b[i].price * b[i].size]

\* What each quote may cost, of its size, at a price that the tolerance keeps.
Reaches(b) == [i \in DOMAIN b |-> (b[i].price + T * OwRepriceTicks) * b[i].size]

\* In all.
Reach(b) == SumFunctionOnSet(Reaches(b), DOMAIN b)

\* The weights of the layers.
Weights == [i \in 1..BuyLayers |-> Weight(i)]

\* A layer reaches no further than its money, the rounding and the tolerance.
LEMMA LayerCost ==
    ASSUME NEW p \in Int, p > 0, NEW X \in Nat, NEW size, size = X \div (40 * Bigger(p, T)),
           NEW ticks \in Nat
    PROVE  /\ size \in Nat /\ Rounded(p) \in Nat
           /\ 120 * ((Rounded(p) + 10 * ticks) * size) <= (4 + 3 * ticks) * X
<1>1. PICK m \in Nat \ {0} : m = Bigger(p, T) /\ m >= 10 /\ m >= p
  BY DEF Bigger, T
<1>2. PICK d \in Nat \ {0} : d = 40 * m
  OBVIOUS
<1>3. size \in Nat /\ d * size <= X
  <2>1. \A x \in Nat, y \in Nat \ {0} : x \div y \in Nat /\ y * (x \div y) <= x
    OBVIOUS
  <2>2. size = X \div d
    BY <1>1, <1>2
  <2> QED
    BY <2>1, <2>2
<1>4. PICK r \in Nat : r = Rounded(p) /\ 3 * r <= 4 * m
  <2>1. PICK k \in Int : Rounded(p) = 10 * k /\ 10 * k <= p + 5 /\ p + 5 < 10 * k + 10
    BY RoundedIs
  <2>2. k \in Nat
    BY <2>1
  <2>3. 3 * (10 * k) <= 4 * m
    <3>1. CASE k <= 1
      BY <1>1, <2>2, <3>1
    <3>2. CASE k >= 2
      BY <1>1, <2>1, <2>2, <3>2
    <3> QED
      BY <2>2, <3>1, <3>2
  <2> QED
    BY <2>1, <2>2, <2>3
<1>5. PICK A \in Nat, c \in Nat : A = r + 10 * ticks /\ c = 4 + 3 * ticks
  OBVIOUS
<1>6. 3 * A <= c * m
  <2>1. 10 * ticks <= ticks * m
    <3>1. ticks * 10 <= ticks * m
      BY <1>1, ProductsOrder
    <3> QED
      BY <3>1
  <2>2. c * m = 4 * m + 3 * (ticks * m) /\ ticks * m \in Nat
    BY <1>5
  <2> QED
    BY <1>4, <1>5, <2>1, <2>2
<1>7. PICK z \in Nat : z = size
  BY <1>3
<1>8. 120 * (A * z) <= c * (d * z)
  <2>1. (40 * z) * (3 * A) <= (40 * z) * (c * m)
    BY <1>6, ProductsOrder
  <2>2. (40 * z) * (3 * A) = 120 * (A * z)
    OBVIOUS
  <2>3. (40 * z) * (c * m) = c * (d * z)
    BY <1>2
  <2> QED
    BY <2>1, <2>2, <2>3
<1>9. c * (d * z) <= c * X
  BY <1>3, <1>7, ProductsOrder
<1>10. 120 * (A * z) \in Nat /\ c * (d * z) \in Nat /\ c * X \in Nat
  OBVIOUS
<1>11. 120 * (A * z) <= c * X
  BY <1>8, <1>9, <1>10
<1> QED
  BY <1>3, <1>4, <1>5, <1>7, <1>11

\* A ladder of bids reaches no further than its weights and what scales them.
LEMMA LadderReach ==
    ASSUME NEW in \in Markets1, NEW up \in BOOLEAN, NEW reduce \in BOOLEAN, NEW scale \in Nat,
           NEW our \in Nat, NEW stock \in Nat, NEW b,
           b = BuyQuotes(in, up, reduce, scale, our, stock), b # << >>
    PROVE  /\ UtilBelow(stock, in.fv, OwInvMid)
           /\ 120 * Reach(b) <=
                 ((4 + 3 * OwRepriceTicks)
                    * (OwBase * (scale * (IF UtilBelow(stock, in.fv, OwInvLow) THEN 2 ELSE 1)) * Whole))
                 * LadderWeight
           /\ Reach(b) \in Nat
<1> DEFINE prices == BuyPrices(in, up, our)
           low == UtilBelow(stock, in.fv, OwInvLow)
           quarters == scale * (IF low THEN 2 ELSE 1)
           size(i) == (OwBase * Weight(i) * quarters * Whole) \div (40 * Bigger(prices[i], T))
           all == [i \in DOMAIN prices |->
                     Order1("BUY", Rounded(prices[i]), IF prices[i] > 0 THEN size(i) ELSE 0)]
           I == {i \in DOMAIN all : all[i].size >= OwMin}
<1>1. CanBuy(in, reduce, stock) /\ b = Picked(all, I)
  BY Zenon DEF BuyQuotes
<1>2. UtilBelow(stock, in.fv, OwInvMid)
  BY <1>1 DEF CanBuy
<1>3. PICK n \in 1..BuyLayers : prices \in [1..n -> Int]
  BY BuyPricesFall
<1>4. OwBase \in Nat /\ OwMin \in Nat \ {0} /\ Whole \in Nat /\ BuyLayers \in Nat \ {0} /\ n \in Nat
  BY <1>3, OneWayAssumption DEF Whole, T
<1>r. PICK ticks \in Nat : ticks = OwRepriceTicks /\ T * OwRepriceTicks = 10 * ticks
  BY OneWayAssumption DEF T
<1> HIDE DEF prices
<1>5. quarters \in Nat
  OBVIOUS
<1>q. quarters = scale * (IF UtilBelow(stock, in.fv, OwInvLow) THEN 2 ELSE 1)
  OBVIOUS
<1> HIDE DEF quarters, low
<1>u. PICK money \in Nat : money = OwBase * quarters * Whole
  BY <1>4, <1>5
<1>6. PICK unit \in Nat : unit = (4 + 3 * ticks) * money
  OBVIOUS
<1>7. ASSUME NEW i \in 1..n
      PROVE  /\ Weight(i) \in Nat
             /\ prices[i] > 0 => /\ size(i) \in Nat /\ Rounded(prices[i]) \in Nat
                                /\ 120 * ((Rounded(prices[i]) + 10 * ticks) * size(i)) <= unit * Weight(i)
  <2>1. Weight(i) \in Nat
    BY WeightTyped
  <2>2. PICK w \in Nat, q \in Nat, base \in Nat, whole \in Nat :
           w = Weight(i) /\ q = quarters /\ base = OwBase /\ whole = Whole
    BY <1>4, <1>5, <2>1
  <2>3. PICK X \in Nat : X = OwBase * Weight(i) * quarters * Whole /\ X = money * w
    <3>1. base * w * q * whole = (base * q * whole) * w /\ (base * q * whole) * w \in Nat
      OBVIOUS
    <3> QED
      BY <1>u, <2>2, <3>1
  <2>4. prices[i] \in Int
    BY <1>3
  <2>5. (4 + 3 * ticks) * X = unit * w
    <3>1. (4 + 3 * ticks) * (money * w) = ((4 + 3 * ticks) * money) * w
      OBVIOUS
    <3> QED
      BY <1>6, <2>3, <3>1
  <2>6. ASSUME prices[i] > 0
        PROVE  /\ size(i) \in Nat /\ Rounded(prices[i]) \in Nat
               /\ 120 * ((Rounded(prices[i]) + 10 * ticks) * size(i)) <= (4 + 3 * ticks) * X
    <3>1. size(i) = X \div (40 * Bigger(prices[i], T))
      BY <2>3
    <3> HIDE DEF size
    <3> QED
      BY <2>4, <2>6, <3>1, LayerCost
  <2> HIDE DEF size
  <2> QED
    BY <2>1, <2>2, <2>5, <2>6
<1> HIDE DEF size
<1>8. DOMAIN all = 1..n /\ I \in SUBSET (1..n)
  BY <1>3
<1>9. ASSUME NEW i \in I
      PROVE  /\ all[i].price \in Nat /\ all[i].size \in Nat
             /\ 120 * ((all[i].price + 10 * ticks) * all[i].size) <= unit * Weight(i)
  <2>1. i \in 1..n /\ all[i] = Order1("BUY", Rounded(prices[i]), IF prices[i] > 0 THEN size(i) ELSE 0)
        /\ all[i].size >= OwMin
    BY <1>8
  <2>2. prices[i] > 0 /\ all[i].price = Rounded(prices[i]) /\ all[i].size = size(i)
    BY <1>4, <2>1 DEF Order1
  <2> QED
    BY <1>7, <2>1, <2>2
<1> HIDE DEF all, I
<1>10. Lists(b, all, I) /\ IsFiniteSet(I) /\ Cardinality(I) \in Nat
       /\ \A i \in I : Rank(i, I) \in 1..Cardinality(I)
  <2>1. Lists(Picked(all, I), all, I)
    BY <1>4, <1>8, PickedElements
  <2>2. /\ IsFiniteSet(I) /\ Cardinality(I) \in Nat
        /\ \A i \in I : Rank(i, I) \in 1..Cardinality(I)
    BY <1>4, <1>8, RankCounts
  <2> QED
    BY <1>1, <2>1, <2>2
<1> DEFINE f == [i \in I |-> (all[i].price + 10 * ticks) * all[i].size]
<1>11. /\ DOMAIN b = 1..Cardinality(I)
       /\ \A k \in DOMAIN b : Reaches(b)[k] \in Nat
       /\ \A i \in I : f[i] \in Nat /\ f[i] = Reaches(b)[Rank(i, I)]
  <2>1. DOMAIN b = 1..Cardinality(I)
    BY <1>10 DEF Lists
  <2>2. ASSUME NEW k \in DOMAIN b PROVE Reaches(b)[k] \in Nat
    <3>1. PICK i \in I : b[k] = all[i]
      BY <1>10, <2>1 DEF Lists
    <3> QED
      BY <1>9, <1>r, <3>1 DEF Reaches
  <2>3. ASSUME NEW i \in I PROVE f[i] \in Nat /\ f[i] = Reaches(b)[Rank(i, I)]
    <3>1. Rank(i, I) \in DOMAIN b /\ b[Rank(i, I)] = all[i]
      BY <1>10, <2>1 DEF Lists
    <3> QED
      BY <1>9, <1>r, <3>1 DEF Reaches
  <2> QED
    BY <2>1, <2>2, <2>3
<1>12. \A i \in I : f[i] \in Nat /\ Weights[i] \in Nat /\ 120 * f[i] <= unit * Weights[i]
  <2> SUFFICES ASSUME NEW i \in I PROVE f[i] \in Nat /\ Weights[i] \in Nat /\ 120 * f[i] <= unit * Weights[i]
    OBVIOUS
  <2>1. i \in 1..n /\ i \in 1..BuyLayers
    BY <1>3, <1>4, <1>8
  <2>2. Weights[i] = Weight(i) /\ f[i] = (all[i].price + 10 * ticks) * all[i].size
    BY <2>1 DEF Weights
  <2> HIDE DEF f
  <2> QED
    BY <1>7, <1>9, <1>11, <2>1, <2>2
<1> HIDE DEF f
<1>13. Reach(b) = SumFunctionOnSet(f, I)
  <2>1. Numbers(Reaches(b), 1..Cardinality(I))
    BY <1>11 DEF Numbers
  <2>2. PICK g : g = Reaches(b)
    OBVIOUS
  <2>3. SumFunctionOnSet(f, I) = SumFunctionOnSet(g, 1..Cardinality(I))
    <3>1. Numbers(g, 1..Cardinality(I)) /\ \A i \in I : f[i] = g[Rank(i, I)]
      BY <1>11, <2>1, <2>2
    <3> QED
      BY <1>4, <1>8, <3>1, SumPicked
  <2> QED
    BY <1>11, <2>2, <2>3 DEF Reach
<1>14. 120 * SumFunctionOnSet(f, I) <= unit * SumFunctionOnSet(Weights, I)
  BY <1>10, <1>12, SumBound
<1>15. SumFunctionOnSet(Weights, I) <= LadderWeight /\ LadderWeight \in Nat
       /\ SumFunctionOnSet(Weights, I) \in Nat /\ SumFunctionOnSet(f, I) \in Nat
  <2>1. IsFiniteSet(1..BuyLayers) /\ I \in SUBSET (1..BuyLayers)
    BY <1>3, <1>4, <1>8, FS_Interval
  <2>2. \A i \in 1..BuyLayers : Weights[i] \in Nat
    <3>1. \A i \in 1..BuyLayers : Weights[i] = Weight(i) /\ i \in Nat \ {0}
      BY <1>4 DEF Weights
    <3> QED
      BY <3>1, WeightTyped
  <2>3. LadderWeight = SumFunctionOnSet(Weights, 1..BuyLayers)
    BY DEF LadderWeight, Weights
  <2>4. SumFunctionOnSet(Weights, I) <= SumFunctionOnSet(Weights, 1..BuyLayers)
    BY <2>1, <2>2, SumWithin
  <2>5. SumFunctionOnSet(Weights, 1..BuyLayers) \in Nat
    BY <2>1, <2>2, SumIsNat
  <2>6. SumFunctionOnSet(Weights, I) \in Nat /\ SumFunctionOnSet(f, I) \in Nat
    BY <1>10, <1>12, SumIsNat
  <2> QED
    BY <2>3, <2>4, <2>5, <2>6
<1>16. 120 * Reach(b) <= unit * LadderWeight
  <2>1. PICK C \in Nat, A \in Nat, L \in Nat :
           C = Reach(b) /\ A = SumFunctionOnSet(Weights, I) /\ L = LadderWeight /\ A <= L
    BY <1>13, <1>15
  <2>2. 120 * C <= unit * A
    BY <1>13, <1>14, <2>1
  <2>3. PICK e \in Nat : L = A + e
    <3>1. L - A \in Nat /\ L = A + (L - A)
      BY <2>1
    <3> QED
      BY <3>1
  <2>4. unit * (A + e) = unit * A + unit * e /\ unit * e \in Nat /\ unit * A \in Nat
    OBVIOUS
  <2>5. 120 * C <= unit * L
    BY <2>2, <2>3, <2>4
  <2> QED
    BY <2>1, <2>5
<1> QED
  BY <1>2, <1>6, <1>13, <1>15, <1>16, <1>q, <1>r, <1>u

\* The bids that rest after a recompute cost no more than its ladder reaches,
\* and the tolerance for sizes.
LEMMA BidsAnswerLadder ==
    ASSUME OwIInv, NEW w \in OwWanted, OwRequote(w),
           NEW in \in Markets1, NEW our \in Nat, NEW stock \in Nat,
           NEW b \in BuyLadders(in, our, stock), NEW s \in SellLadders(in, our, stock),
           w.quotes = b \o s
    PROVE  LET S == Indices(owLive', "BUY")
               C == SumFunctionOnSet(Costs(owLive'), S)
           IN  /\ C \in Nat /\ Reach(b) \in Nat /\ (S # {} => b # << >>)
               /\ OwResizeDen * C <= (OwResizeDen + OwResizeNum) * Reach(b)
<1>1. PICK after, W : after = owLive' /\ W = w.quotes
  OBVIOUS
<1>2. after \in Seq(OwOrders) /\ W \in Seq(OwOrders) /\ Meets(after, W, OwTolerance)
  BY <1>1, OwReconciles
<1>3. /\ b \in Seq(OwOrders) /\ Indices(W, "BUY") = 1..Len(b) /\ DOMAIN b = 1..Len(b) /\ Len(b) \in Nat
      /\ \A k \in 1..Len(b) : k \in DOMAIN W /\ W[k] = b[k]
  <2>1. PICK size \in Nat : s \in Seq(OwAsks(in.book.bid, size))
    BY LaddersTyped
  <2>2. in.book.bid \in Nat /\ b \in Seq(OwBids(in.book.bid))
    BY LaddersTyped
  <2>3. Joined(b \o s, b, s, size)
    BY <2>1, <2>2, LaddersJoin, Zenon
  <2>4. Joined(W, b, s, size)
    BY <1>1, <2>3, Zenon
  <2>5. \A k \in 1..Len(b) : k \in 1..(Len(b) + Len(s))
    BY <2>4 DEF Joined
  <2> QED
    BY <2>4, <2>5 DEF Joined
<1> DEFINE f == Costs(after)
           g == Reaches(W)
<1>4. PICK num \in Nat, den \in Nat : num = OwResizeNum /\ den = OwResizeDen
  BY OneWayAssumption
<1>5. PICK reach \in Nat : reach = T * OwRepriceTicks
  BY OneWayAssumption DEF T
<1>6. \A i \in Indices(after, "BUY") :
         i \in DOMAIN after /\ f[i] = after[i].price * after[i].size
         /\ after[i].price \in Nat /\ after[i].size \in Nat
  BY <1>2, OrdersTyped DEF Indices, Costs, Sizes
<1>7. \A k \in Indices(W, "BUY") :
         k \in DOMAIN W /\ g[k] = (W[k].price + reach) * W[k].size
         /\ W[k].price \in Nat /\ W[k].size \in Nat
  BY <1>2, <1>5, OrdersTyped DEF Indices, Reaches, Sizes
<1> HIDE DEF f, g
<1>8. ASSUME NEW i \in Indices(after, "BUY"), NEW k \in Indices(W, "BUY"),
             Satisfies(after[i], W[k], OwTolerance)
      PROVE  den * f[i] <= (den + num) * g[k]
  <2>1. PICK x \in Nat, y \in Nat, m \in Nat, n \in Nat :
           x = after[i].price /\ y = W[k].price + reach /\ m = after[i].size /\ n = W[k].size
    BY <1>6, <1>7
  <2>2. x <= y /\ den * m <= (den + num) * n
    <3>1. after[i] \in OwOrders /\ W[k] \in OwOrders
      BY <1>2, <1>6, <1>7
    <3> QED
      BY <1>4, <1>5, <1>8, <2>1, <3>1, OwTolerates
  <2>3. x * (den * m) <= x * ((den + num) * n)
    BY <2>2, ProductsOrder
  <2>4. ((den + num) * n) * x <= ((den + num) * n) * y
    <3>1. (den + num) * n \in Nat
      OBVIOUS
    <3> QED
      BY <2>2, <3>1, ProductsOrder
  <2>5. /\ x * (den * m) = den * (x * m) /\ x * ((den + num) * n) = ((den + num) * n) * x
        /\ ((den + num) * n) * y = (den + num) * (y * n)
    OBVIOUS
  <2>6. den * (x * m) \in Nat /\ ((den + num) * n) * x \in Nat /\ (den + num) * (y * n) \in Nat
    OBVIOUS
  <2>7. den * (x * m) <= (den + num) * (y * n)
    BY <2>3, <2>4, <2>5, <2>6
  <2>8. f[i] = x * m /\ g[k] = y * n
    BY <1>6, <1>7, <2>1
  <2> QED
    BY <2>7, <2>8
<1>9. (\A i \in Indices(after, "BUY") : f[i] \in Nat) /\ (\A k \in Indices(W, "BUY") : g[k] \in Nat)
  BY <1>6, <1>7
<1>10. /\ den * SumFunctionOnSet(f, Indices(after, "BUY"))
            <= (den + num) * SumFunctionOnSet(g, Indices(W, "BUY"))
       /\ SumFunctionOnSet(f, Indices(after, "BUY")) \in Nat
       /\ SumFunctionOnSet(g, Indices(W, "BUY")) \in Nat
       /\ Indices(after, "BUY") # {} => Indices(W, "BUY") # {}
  <2>1. \A i \in Indices(after, "BUY"), k \in Indices(W, "BUY") :
           Satisfies(after[i], W[k], OwTolerance) => den * f[i] <= (den + num) * g[k]
    BY <1>8
  <2>2. den + num \in Nat
    OBVIOUS
  <2> QED
    BY <1>2, <1>9, <2>1, <2>2, AnsweredSums
<1>11. SumFunctionOnSet(g, Indices(W, "BUY")) = Reach(b)
  <2>1. IsFiniteSet(1..Len(b)) /\ Numbers(g, 1..Len(b))
    <3>1. IsFiniteSet(1..Len(b))
      BY <1>3, FS_Interval
    <3>2. \A k \in 1..Len(b) : g[k] \in Int
      BY <1>3, <1>9
    <3> QED
      BY <3>1, <3>2 DEF Numbers
  <2>2. \A k \in 1..Len(b) : Reaches(b)[k] = g[k]
    BY <1>3, <1>5, <1>7 DEF Reaches
  <2>3. PICK h : h = Reaches(b)
    OBVIOUS
  <2>4. SumFunctionOnSet(h, 1..Len(b)) = SumFunctionOnSet(g, 1..Len(b))
    BY <2>1, <2>2, <2>3, SumAgree
  <2> QED
    BY <1>3, <2>3, <2>4 DEF Reach
<1>12. b = << >> => Indices(W, "BUY") = {}
  BY <1>3
<1> QED
  BY <1>1, <1>4, <1>10, <1>11, <1>12 DEF f

\* What a recompute may come to hold at its prices, with the bids that it keeps,
\* is within its limit.
LEMMA WorthFits ==
    ASSUME LadderFits, OwIInv, NEW w \in OwWanted, OwRequote(w)
    PROVE  owWorth' \in Nat /\ owWorth' <= OwQMax * Whole
<1>1. PICK in \in Markets1, day \in 0..LastDay, stock \in 0..OwMaxHeld : w \in LaddersFor(in, day, stock)
  BY DEF OwWanted
<1>2. PICK our : our = CalcFairValue(day)
  OBVIOUS
<1>3. PICK b \in BuyLadders(in, our, stock), s \in SellLadders(in, our, stock) :
         w = [stock |-> stock, day |-> day, bid |-> in.book.bid, fv |-> in.fv, quotes |-> b \o s]
  BY <1>1, <1>2 DEF LaddersFor
<1>4. stock \in Nat /\ our \in Nat /\ stock = owHeld
  <2>1. day \in Nat /\ OwMaxHeld \in Nat
    BY OneWayAssumption
  <2> QED
    BY <1>2, <1>3, <2>1, FairValueTyped DEF OwRequote
<1>5. PICK up \in BOOLEAN, reduce \in BOOLEAN, scale \in OwScales :
         b = BuyQuotes(in, up, reduce, scale, our, stock)
  BY <1>3 DEF BuyLadders
<1>6. /\ scale \in 0..2 /\ in.fv \in Nat /\ OwQMax \in Nat /\ OwBase \in Nat /\ Whole \in Nat
      /\ OwInvLow \in 0..100 /\ OwInvMid \in 0..100 /\ OwRepriceTicks \in Nat
      /\ OwResizeNum \in Nat /\ OwResizeDen \in Nat \ {0}
  BY MarketsTyped, OneWayAssumption DEF Whole, T
<1>7. PICK limit \in Nat : limit = OwQMax * Whole
  BY <1>6
<1> DEFINE S == Indices(owLive', "BUY")
           f == Costs(owLive')
           C == SumFunctionOnSet(f, S)
<1>8. owWorth' = IF S = {} THEN 0 ELSE stock * in.fv + C
  BY <1>3, <1>4 DEF OwRequote, WorthOf, Costs
<1>9. CASE S = {}
  BY <1>7, <1>8, <1>9
<1>10. CASE S # {}
  <2>1. PICK R \in Nat, cost \in Nat :
           /\ cost = C /\ R = Reach(b) /\ b # << >>
           /\ OwResizeDen * cost <= (OwResizeDen + OwResizeNum) * R
    BY <1>3, <1>4, <1>10, BidsAnswerLadder
  <2> HIDE DEF C, f, S
  <2>2. PICK ticks \in Nat, num \in Nat, den \in Nat \ {0}, lo \in 0..100, mid \in 0..100 :
           /\ ticks = OwRepriceTicks /\ num = OwResizeNum /\ den = OwResizeDen
           /\ lo = OwInvLow /\ mid = OwInvMid
    BY <1>6
  <2>3. PICK V \in Nat : V = stock * in.fv
    BY <1>4, <1>6
  <2>4. PICK m \in Nat : m = Bigger(in.fv, T) /\ in.fv <= m
    BY <1>6 DEF Bigger, T
  <2>5. PICK H \in Nat : H = stock * m /\ V <= H
    <3>1. stock * in.fv <= stock * m /\ stock * m \in Nat
      BY <1>4, <1>6, <2>4, ProductsOrder
    <3> QED
      BY <2>3, <3>1
  <2>6. \A level \in Nat : UtilBelow(stock, in.fv, level) <=> H * 100 < level * limit
    <3> SUFFICES ASSUME NEW level \in Nat
                 PROVE  UtilBelow(stock, in.fv, level) <=> H * 100 < level * limit
      OBVIOUS
    <3>1. UtilBelow(stock, in.fv, level) <=> H * 100 < level * OwQMax * Whole
      BY <2>4, <2>5 DEF UtilBelow
    <3>2. level * OwQMax * Whole = level * limit
      <4>1. \A x, y, z \in Nat : x * y * z = x * (y * z)
        OBVIOUS
      <4> QED
        BY <1>6, <1>7, <4>1
    <3> QED
      BY <3>1, <3>2
  <2>7. PICK L \in Nat : L = LadderWeight
    <3>1. \A i \in 1..BuyLayers : Weights[i] \in Nat
      BY WeightTyped, OneWayAssumption DEF Weights
    <3>2. IsFiniteSet(1..BuyLayers)
      BY OneWayAssumption, FS_Interval
    <3>3. SumFunctionOnSet(Weights, 1..BuyLayers) \in Nat
      BY <3>1, <3>2, SumIsNat
    <3> QED
      BY <3>3 DEF LadderWeight, Weights
  <2>8. PICK base \in Nat, whole \in Nat : base = OwBase /\ whole = Whole
    BY <1>6
  <2>9. PICK F \in Nat : F = (base * L * (4 + 3 * ticks) * (den + num)) * whole
    OBVIOUS
  \* The two parts of LadderFits, times the size of a dollar.
  <2>10. 10 * F <= (3 * den * (100 - lo)) * limit /\ 5 * F <= (3 * den * (100 - mid)) * limit
    <3>1. PICK Q \in Nat, K \in Nat :
             Q = OwQMax /\ K = base * L * (4 + 3 * ticks) * (den + num) /\ K = LadderCost
      BY <1>6, <2>2, <2>7, <2>8 DEF LadderCost
    <3>2. PICK x \in Nat, y \in Nat : x = 3 * den * (100 - lo) /\ y = 3 * den * (100 - mid)
      <4>1. 100 - lo \in Nat /\ 100 - mid \in Nat
        OBVIOUS
      <4> QED
        BY <4>1
    <3>3. 10 * K <= x * Q /\ 5 * K <= y * Q
      BY <2>2, <3>1, <3>2 DEF LadderFits
    <3>4. whole * (10 * K) <= whole * (x * Q) /\ whole * (5 * K) <= whole * (y * Q)
      BY <3>3, ProductsOrder
    <3>5. /\ whole * (10 * K) = 10 * (K * whole) /\ whole * (5 * K) = 5 * (K * whole)
          /\ whole * (x * Q) = x * (Q * whole) /\ whole * (y * Q) = y * (Q * whole)
      OBVIOUS
    <3> QED
      BY <1>7, <2>8, <2>9, <3>1, <3>2, <3>4, <3>5
  \* What the ladder reaches, with the tolerance for sizes.
  <2>11. ASSUME NEW q \in Nat, 120 * R <= ((4 + 3 * ticks) * (base * q * whole)) * L
         PROVE  120 * (den * cost) <= q * F
    <3>1. (den + num) * (120 * R) <= (den + num) * (((4 + 3 * ticks) * (base * q * whole)) * L)
      BY <2>11, ProductsOrder
    <3>2. (den + num) * (((4 + 3 * ticks) * (base * q * whole)) * L) = q * F
      BY <2>9
    <3>3. (den + num) * (120 * R) = 120 * ((den + num) * R)
      OBVIOUS
    <3>4. den * cost <= (den + num) * R
      BY <2>1, <2>2
    <3>5. den * cost \in Nat /\ (den + num) * R \in Nat /\ q * F \in Nat
      OBVIOUS
    <3> QED
      BY <3>1, <3>2, <3>3, <3>4, <3>5
  <2>12. UtilBelow(stock, in.fv, OwInvMid)
         /\ 120 * R <= ((4 + 3 * ticks)
                          * (base * (scale * (IF UtilBelow(stock, in.fv, OwInvLow) THEN 2 ELSE 1)) * whole)) * L
    BY <1>4, <1>5, <1>6, <2>1, <2>2, <2>7, <2>8, LadderReach
  \* A level with the money that fits over it.
  <2>13. ASSUME NEW level \in 0..100, H * 100 < level * limit,
                300 * (den * cost) <= (3 * den * (100 - level)) * limit
         PROVE  V + cost <= limit
    <3>1. PICK rest \in Nat : rest = 100 - level
      OBVIOUS
    <3>2. (3 * den) * (100 * cost) <= (3 * den) * (rest * limit)
      <4>1. (3 * den) * (100 * cost) = 300 * (den * cost) /\ (3 * den) * (rest * limit) = (3 * den * rest) * limit
        OBVIOUS
      <4> QED
        BY <2>13, <3>1, <4>1
    <3>3. 100 * cost <= rest * limit
      BY <3>2, ProductsOrder
    <3>4. level * limit + rest * limit = 100 * limit /\ level * limit \in Nat /\ rest * limit \in Nat
      <4>1. level + rest = 100 /\ level \in Nat
        BY <3>1
      <4>2. (level + rest) * limit = level * limit + rest * limit
        BY <4>1
      <4> QED
        BY <4>1, <4>2
    <3> QED
      BY <2>5, <2>13, <3>3, <3>4
  <2>14. PICK D \in Nat : D = den * cost
    OBVIOUS
  <2>15. V + cost <= limit
    <3>1. CASE UtilBelow(stock, in.fv, OwInvLow)
      <4>1. PICK q \in 0..4 : q = scale * 2
        BY <1>6
      <4>2. 120 * D <= q * F
        <5>1. q \in Nat /\ q = scale * 2
          BY <4>1
        <5>2. 120 * R <= ((4 + 3 * ticks) * (base * q * whole)) * L
          BY <2>12, <3>1, <5>1
        <5> QED
          BY <2>11, <2>14, <5>1, <5>2
      <4>3. 30 * D <= F
        <5>1. q * F <= 4 * F
          BY <4>1
        <5> QED
          BY <4>2, <5>1
      <4>4. 300 * D <= (3 * den * (100 - lo)) * limit
        <5>1. (3 * den * (100 - lo)) * limit \in Nat
          BY <2>2
        <5> QED
          BY <2>10, <4>3, <5>1
      <4>5. H * 100 < lo * limit
        BY <2>2, <2>6, <3>1
      <4> QED
        BY <2>13, <2>14, <4>4, <4>5
    <3>2. CASE ~UtilBelow(stock, in.fv, OwInvLow)
      <4>1. PICK q \in 0..2 : q = scale * 1
        BY <1>6
      <4>2. 120 * D <= q * F
        <5>1. q \in Nat /\ q = scale * 1
          BY <4>1
        <5>2. 120 * R <= ((4 + 3 * ticks) * (base * q * whole)) * L
          BY <2>12, <3>2, <5>1
        <5> QED
          BY <2>11, <2>14, <5>1, <5>2
      <4>3. 60 * D <= F
        <5>1. q * F <= 2 * F
          BY <4>1
        <5> QED
          BY <4>2, <5>1
      <4>4. 300 * D <= (3 * den * (100 - mid)) * limit
        <5>1. (3 * den * (100 - mid)) * limit \in Nat
          BY <2>2
        <5> QED
          BY <2>10, <4>3, <5>1
      <4>5. H * 100 < mid * limit
        BY <2>2, <2>6, <2>12
      <4> QED
        BY <2>13, <2>14, <4>4, <4>5
    <3> QED
      BY <3>1, <3>2
  <2> QED
    BY <1>7, <1>8, <1>10, <2>1, <2>3, <2>15 DEF C, f, S
<1> QED
  BY <1>9, <1>10

\* The orders after one was matched in full: the others, at their places.
LEMMA FilledInFull ==
    ASSUME NEW live \in Seq(OwOrders), NEW i \in 1..Len(live), NEW after,
           Removed(after, live, i, OwOrders)
    PROVE  OfferedBy(after) = OfferedBy(live) - (IF live[i].side = "SELL" THEN live[i].size ELSE 0)
<1> DEFINE p == [j \in 1..Len(after) |-> IF j < i THEN j ELSE j + 1]
           A == Indices(after, "SELL")
           S == Indices(live, "SELL")
           f == Sizes(live)
           g == Sizes(after)
           q == [j \in A |-> p[j]]
<1>1. /\ after \in Seq(OwOrders) /\ Len(after) = Len(live) - 1 /\ Len(live) \in Nat /\ i \in Int
      /\ DOMAIN after = 1..Len(after) /\ DOMAIN live = 1..Len(live)
  BY DEF Removed
<1>2. \A j \in 1..Len(after) : /\ p[j] \in 1..Len(live) /\ p[j] # i /\ after[j] = live[p[j]]
  <2> SUFFICES ASSUME NEW j \in 1..Len(after)
               PROVE  p[j] \in 1..Len(live) /\ p[j] # i /\ after[j] = live[p[j]]
    OBVIOUS
  <2>1. p[j] = IF j < i THEN j ELSE j + 1
    OBVIOUS
  <2>2. after[j] = live[IF j < i THEN j ELSE j + 1]
    BY DEF Removed
  <2> HIDE DEF p
  <2>3. after[j] = live[p[j]]
    BY <2>1, <2>2
  <2> QED
    BY <1>1, <2>1, <2>3
<1>3. \A j, k \in 1..Len(after) : p[j] = p[k] => j = k
  BY <1>1
<1>4. \A k \in 1..Len(live) : k # i => \E j \in 1..Len(after) : p[j] = k
  <2> SUFFICES ASSUME NEW k \in 1..Len(live), k # i PROVE \E j \in 1..Len(after) : p[j] = k
    OBVIOUS
  <2>1. CASE k < i
    <3>1. k \in 1..Len(after)
      BY <1>1, <2>1
    <3> QED
      BY <2>1, <3>1
  <2>2. CASE k > i
    <3>1. k - 1 \in 1..Len(after) /\ ~(k - 1 < i) /\ (k - 1) + 1 = k
      BY <1>1, <2>2
    <3> QED
      BY <3>1
  <2> QED
    BY <1>1, <2>1, <2>2
<1> HIDE DEF p
<1>6. A \subseteq 1..Len(after) /\ IsFiniteSet(A) /\ S \subseteq 1..Len(live) /\ IsFiniteSet(S)
  <2>1. IsFiniteSet(A) /\ IsFiniteSet(S)
    BY <1>1, OrdersTyped
  <2> QED
    BY <1>1, <2>1 DEF Indices
<1>7. Numbers(f, S) /\ Numbers(f, S \ {i})
  BY <1>1, <1>6, OrdersTyped DEF Numbers
<1>8. \A j \in A : q[j] = p[j] /\ q[j] \in S \ {i} /\ g[j] = f[q[j]]
  <2> SUFFICES ASSUME NEW j \in A PROVE q[j] = p[j] /\ q[j] \in S \ {i} /\ g[j] = f[q[j]]
    OBVIOUS
  <2>1. q[j] = p[j]
    OBVIOUS
  <2>2. j \in 1..Len(after) /\ after[j].side = "SELL"
    BY <1>1 DEF Indices
  <2>3. p[j] \in 1..Len(live) /\ p[j] # i /\ after[j] = live[p[j]]
    BY <1>2, <2>2
  <2>4. p[j] \in S \ {i}
    BY <1>1, <2>2, <2>3 DEF Indices
  <2>5. g[j] = after[j].size /\ f[p[j]] = live[p[j]].size
    BY <1>1, <2>2, <2>3 DEF Sizes
  <2> QED
    BY <2>1, <2>3, <2>4, <2>5
<1>9. {q[j] : j \in A} = S \ {i}
  <2>1. ASSUME NEW k \in S \ {i} PROVE \E j \in A : q[j] = k
    <3>1. k \in 1..Len(live) /\ live[k].side = "SELL" /\ k # i
      BY <1>1 DEF Indices
    <3>2. PICK j \in 1..Len(after) : p[j] = k
      BY <1>4, <3>1
    <3>3. j \in A
      BY <1>1, <1>2, <3>1, <3>2 DEF Indices
    <3> QED
      BY <3>2, <3>3
  <2>2. \A j \in A : q[j] \in S \ {i}
    BY <1>8
  <2> HIDE DEF q, A, S
  <2> QED
    BY <2>1, <2>2
<1>10. q \in [A -> S \ {i}] /\ \A j, k \in A : q[j] = q[k] => j = k
  BY <1>3, <1>6, <1>8
<1> HIDE DEF q, A, S, f, g
<1>11. SumFunctionOnSet(g, A) = SumFunctionOnSet(f, S \ {i})
  <2>1. PICK U : U = S \ {i}
    OBVIOUS
  <2>2. Numbers(f, U) /\ q \in [A -> U] /\ {q[j] : j \in A} = U
    BY <1>7, <1>9, <1>10, <2>1
  <2>3. (\A j, k \in A : q[j] = q[k] => j = k) /\ (\A j \in A : g[j] = f[q[j]])
    BY <1>8, <1>10
  <2>4. SumFunctionOnSet(g, A) = SumFunctionOnSet(f, {q[j] : j \in A})
    BY <1>6, <2>2, <2>3, SumRenamed
  <2> QED
    BY <2>1, <2>2, <2>4
<1>12. i \in S => SumFunctionOnSet(f, S) = f[i] + SumFunctionOnSet(f, S \ {i})
  BY <1>6, <1>7, SumElement
<1>13. i \notin S => S \ {i} = S
  OBVIOUS
<1>14. i \in S <=> live[i].side = "SELL"
  BY <1>1 DEF S, Indices
<1>15. f[i] = live[i].size /\ f[i] \in Int
  BY <1>1, OrdersTyped DEF f
<1>16. SumFunctionOnSet(f, S) \in Int /\ SumFunctionOnSet(f, S \ {i}) \in Int
  BY <1>6, <1>7, SumTypes, FS_Subset
<1>17. OfferedBy(after) = SumFunctionOnSet(g, A) /\ OfferedBy(live) = SumFunctionOnSet(f, S)
  BY DEF OfferedBy, A, S, f, g
<1>18. OfferedBy(after) = OfferedBy(live) - (IF live[i].side = "SELL" THEN live[i].size ELSE 0)
  <2>1. PICK x \in Int, y \in Int, z \in Int :
           x = SumFunctionOnSet(f, S) /\ y = SumFunctionOnSet(f, S \ {i}) /\ z = live[i].size
    BY <1>15, <1>16
  <2>2. OfferedBy(after) = y /\ OfferedBy(live) = x
    BY <1>11, <1>17, <2>1
  <2>3. IF live[i].side = "SELL" THEN x = z + y ELSE x = y
    BY <1>12, <1>13, <1>14, <1>15, <2>1
  <2>4. y = x - (IF live[i].side = "SELL" THEN z ELSE 0)
    BY <2>1, <2>3
  <2> QED
    BY <2>1, <2>2, <2>4
<1> QED
  BY <1>18

\* The orders after a part of one was matched.
LEMMA FilledInPart ==
    ASSUME NEW live \in Seq(OwOrders), NEW i \in 1..Len(live), NEW n \in 1..live[i].size,
           n # live[i].size
    PROVE  LET after == [live EXCEPT ![i].size = @ - n] IN
           /\ after \in Seq(OwOrders)
           /\ OfferedBy(after) = OfferedBy(live) - (IF live[i].side = "SELL" THEN n ELSE 0)
<1> DEFINE after == [live EXCEPT ![i].size = @ - n]
           S == Indices(live, "SELL")
           f == Sizes(live)
           g == Sizes(after)
<1>1. PICK o : o = [live[i] EXCEPT !.size = live[i].size - n]
  OBVIOUS
<1>2. live[i] \in OwOrders /\ live[i].size - n \in Nat \ {0} /\ live[i].size \in Nat
  <2>1. live[i] \in OwOrders
    OBVIOUS
  <2> QED
    BY <2>1 DEF OwOrders
<1>3. o \in OwOrders /\ o.side = live[i].side /\ o.price = live[i].price /\ o.size = live[i].size - n
  BY <1>1, <1>2 DEF OwOrders
<1>4. after = [live EXCEPT ![i] = o]
  BY <1>1
<1> HIDE DEF after
<1>5. /\ after \in Seq(OwOrders) /\ Len(after) = Len(live)
      /\ DOMAIN after = 1..Len(live) /\ DOMAIN live = 1..Len(live)
      /\ \A j \in 1..Len(live) : after[j] = IF j = i THEN o ELSE live[j]
  BY <1>3, <1>4
<1>6. \A j \in 1..Len(live) : /\ after[j].side = live[j].side /\ after[j].price = live[j].price
                              /\ (j # i => after[j].size = live[j].size)
  BY <1>3, <1>5
<1>7. \A side \in {"BUY", "SELL"} : Indices(after, side) = Indices(live, side)
  BY <1>5, <1>6 DEF Indices
<1>9. IsFiniteSet(S) /\ IsFiniteSet(S \ {i}) /\ S \subseteq 1..Len(live)
  <2>1. IsFiniteSet(S)
    BY OrdersTyped
  <2> QED
    BY <1>5, <2>1, FS_Subset DEF Indices
<1>10. Numbers(f, S) /\ Numbers(f, S \ {i}) /\ Numbers(g, S) /\ Numbers(g, S \ {i})
  <2>1. \A j \in 1..Len(live) : f[j] \in Int /\ g[j] \in Int
    BY <1>5, OrdersTyped
  <2> HIDE DEF S, f, g
  <2> QED
    BY <1>9, <2>1 DEF Numbers
<1>11. \A j \in S \ {i} : g[j] = f[j]
  BY <1>5, <1>6, <1>9 DEF Sizes
<1>12. f[i] = live[i].size /\ g[i] = live[i].size - n
  BY <1>3, <1>5 DEF Sizes
<1>13. OfferedBy(after) = SumFunctionOnSet(g, S) /\ OfferedBy(live) = SumFunctionOnSet(f, S)
  BY <1>7 DEF OfferedBy
<1>14. i \in S <=> live[i].side = "SELL"
  BY <1>5 DEF Indices
<1> HIDE DEF S, f, g
<1>15. SumFunctionOnSet(g, S \ {i}) = SumFunctionOnSet(f, S \ {i})
  BY <1>9, <1>10, <1>11, SumAgree
<1>16. i \in S => /\ SumFunctionOnSet(f, S) = f[i] + SumFunctionOnSet(f, S \ {i})
                  /\ SumFunctionOnSet(g, S) = g[i] + SumFunctionOnSet(g, S \ {i})
  BY <1>9, <1>10, SumElement
<1>17. i \notin S => S \ {i} = S
  OBVIOUS
<1>18. SumFunctionOnSet(f, S) \in Int /\ SumFunctionOnSet(f, S \ {i}) \in Int
  BY <1>9, <1>10, SumTypes
<1>19. OfferedBy(after) = OfferedBy(live) - (IF live[i].side = "SELL" THEN n ELSE 0)
  <2>1. PICK x \in Int, y \in Int, z \in Int :
           x = SumFunctionOnSet(f, S) /\ y = SumFunctionOnSet(f, S \ {i}) /\ z = live[i].size
    BY <1>2, <1>18
  <2>2. OfferedBy(after) = SumFunctionOnSet(g, S) /\ OfferedBy(live) = x
    BY <1>13, <2>1
  <2>3. CASE live[i].side = "SELL"
    <3>1. x = z + y /\ SumFunctionOnSet(g, S) = (z - n) + y
      BY <1>12, <1>14, <1>15, <1>16, <2>1, <2>3
    <3>2. (z - n) + y = x - n
      BY <2>1, <3>1
    <3> QED
      BY <2>2, <2>3, <3>1, <3>2
  <2>4. CASE live[i].side # "SELL"
    <3>1. SumFunctionOnSet(g, S) = x
      BY <1>14, <1>15, <1>17, <2>1, <2>4
    <3>2. x - 0 = x
      BY <2>1
    <3> QED
      BY <2>2, <2>4, <3>1, <3>2
  <2> QED
    BY <2>3, <2>4
<1> QED
  BY <1>5, <1>19 DEF after

\* What is offered is a number.
LEMMA OfferedTyped ==
    ASSUME NEW live \in Seq(OwOrders) PROVE OfferedBy(live) \in Nat
<1> DEFINE S == Indices(live, "SELL")
           f == Sizes(live)
<1>1. IsFiniteSet(S) /\ \A j \in S : f[j] \in Nat
  BY OrdersTyped DEF Indices
<1> HIDE DEF S, f
<1>2. SumFunctionOnSet(f, S) \in Nat
  BY <1>1, SumIsNat
<1> QED
  BY <1>2 DEF OfferedBy, S, f

\* The empty ladder offers nothing.
LEMMA NothingOffered == OfferedBy(<< >>) = 0 /\ << >> \in Seq(OwOrders)
<1>1. Indices(<< >>, "SELL") = {}
  BY DEF Indices
<1>2. SumFunctionOnSet(Sizes(<< >>), {}) = 0
  BY SumEmpty
<1>3. OfferedBy(<< >>) = 0
  BY <1>1, <1>2 DEF OfferedBy
<1>4. << >> \in Seq(OwOrders)
  OBVIOUS
<1> QED
  BY <1>3, <1>4

\* What orders are worth is a number.
LEMMA WorthTyped ==
    ASSUME NEW live \in Seq(OwOrders), NEW fv \in Nat, NEW stock \in Nat
    PROVE  WorthOf(live, fv, stock) \in Nat
<1> DEFINE f == Costs(live)
           S == Indices(live, "BUY")
<1>1. \A i \in S : f[i] \in Nat
  <2>1. \A i \in S : i \in DOMAIN live /\ live[i].price \in Nat /\ live[i].size \in Nat
    BY OrdersTyped DEF Indices, Sizes
  <2> QED
    BY <2>1 DEF Costs
<1>2. IsFiniteSet(S)
  BY OrdersTyped
<1>3. WorthOf(live, fv, stock) = IF S = {} THEN 0 ELSE stock * fv + SumFunctionOnSet(f, S)
  BY DEF WorthOf, Costs
<1> HIDE DEF f, S
<1>4. SumFunctionOnSet(f, S) \in Nat
  BY <1>1, <1>2, SumIsNat
<1>5. stock * fv \in Nat
  OBVIOUS
<1> QED
  BY <1>3, <1>4, <1>5

\* The initial states meet the invariant.
LEMMA OwFirst == OwInit => OwIInv
<1> SUFFICES ASSUME OwInit PROVE OwIInv
  OBVIOUS
<1>1. /\ owLive = << >> /\ owHeld \in OwStarts /\ owDay = 0 /\ owSlack = 0 /\ owBid = NoTop
      /\ owWorth = 0 /\ owRound = 0
  BY DEF OwInit
<1>2. OwStarts \subseteq 0..OwMaxHeld /\ OwMaxHeld \in Nat /\ LastDay \in Nat /\ OwRounds \in Nat
  BY OneWayAssumption
<1>3. owHeld \in Nat /\ 0 <= owHeld + owSlack
  BY <1>1, <1>2
<1> QED
  BY <1>1, <1>2, <1>3, NothingOffered DEF OwIInv

\* A recompute keeps the invariant.
LEMMA OwRequoteKeeps ==
    ASSUME OwIInv, NEW w \in OwWanted, OwRequote(w) PROVE OwIInv'
<1>1. /\ w.quotes \in Seq(OwOrders) /\ OfferedBy(w.quotes) <= owHeld
      /\ owLive' \in Seq(OwOrders) /\ Meets(owLive', w.quotes, OwTolerance)
  BY OwReconciles
<1>2. /\ owRound' \in 0..OwRounds /\ owHeld' = owHeld /\ owDay' = owDay /\ owBid' = w.bid
      /\ owSlack' = (OwResizeNum * owHeld) \div OwResizeDen
      /\ owWorth' = WorthOf(owLive', w.fv, owHeld)
  BY OneWayAssumption DEF OwRequote, OwIInv
<1>3. owHeld \in Nat /\ owDay \in 0..LastDay /\ w.fv \in Nat /\ w.bid \in Prices1 \cup {NoTop}
  BY WantedLadders DEF OwIInv
<1>4. PICK after : after = owLive'
  OBVIOUS
<1>5. OfferedBy(after) <= owHeld + owSlack'
  BY <1>1, <1>2, <1>3, <1>4, OffersAnswered
<1>6. owSlack' \in Nat
  <2>1. PICK m \in Nat, den \in Nat \ {0} : m = OwResizeNum * owHeld /\ den = OwResizeDen
    BY <1>3, OneWayAssumption
  <2> QED
    BY <1>2, <2>1, QuotientReaches
<1>7. owWorth' \in Nat
  BY <1>1, <1>2, <1>3, <1>4, WorthTyped
<1> QED
  BY <1>1, <1>2, <1>3, <1>4, <1>5, <1>6, <1>7 DEF OwIInv

\* A fill, in full or for a share, keeps the invariant.
LEMMA OwFillKeeps ==
    ASSUME OwIInv, NEW i \in DOMAIN owLive, NEW n \in 1..owLive[i].size, OwFill(i, n)
    PROVE  OwIInv'
<1>1. /\ owLive \in Seq(OwOrders) /\ owHeld \in Nat /\ OfferedBy(owLive) <= owHeld + owSlack
      /\ owSlack \in Nat /\ owDay \in 0..LastDay /\ owRound \in 0..OwRounds
  BY DEF OwIInv
<1>2. i \in 1..Len(owLive) /\ owLive[i].side \in {"BUY", "SELL"} /\ owLive[i].size \in Nat
  BY <1>1, OrdersTyped
<1>3. /\ owHeld' = owHeld + (IF owLive[i].side = "BUY" THEN n ELSE -n)
      /\ IF owLive[i].side = "BUY" THEN owHeld + n <= OwMaxHeld ELSE n <= owHeld
      /\ owLive' = IF n = owLive[i].size THEN RemoveAt(owLive, i) ELSE [owLive EXCEPT ![i].size = @ - n]
      /\ owWorth' = 0 /\ owBid' = NoTop /\ UNCHANGED <<owDay, owSlack, owRound>>
  BY DEF OwFill, NoRecompute
<1>4. /\ owLive' \in Seq(OwOrders)
      /\ OfferedBy(owLive') = OfferedBy(owLive) - (IF owLive[i].side = "SELL" THEN n ELSE 0)
  <2>1. CASE n = owLive[i].size
    <3>1. PICK after : after = owLive'
      OBVIOUS
    <3>2. Removed(after, owLive, i, OwOrders)
      BY <1>1, <1>2, <1>3, <2>1, <3>1, RemoveAtElements
    <3>3. OfferedBy(after) = OfferedBy(owLive) - (IF owLive[i].side = "SELL" THEN owLive[i].size ELSE 0)
      BY <1>1, <1>2, <3>2, FilledInFull
    <3> QED
      BY <2>1, <3>1, <3>2, <3>3 DEF Removed
  <2>2. CASE n # owLive[i].size
    <3>1. PICK after : after = [owLive EXCEPT ![i].size = @ - n]
      OBVIOUS
    <3>2. /\ after \in Seq(OwOrders)
          /\ OfferedBy(after) = OfferedBy(owLive) - (IF owLive[i].side = "SELL" THEN n ELSE 0)
      BY <1>1, <1>2, <2>2, <3>1, FilledInPart
    <3> QED
      BY <1>3, <2>2, <3>1, <3>2
  <2> QED
    BY <2>1, <2>2
<1>5. OfferedBy(owLive) \in Int
  BY <1>1, OfferedTyped
<1>6. owHeld' \in Nat /\ OfferedBy(owLive') <= owHeld' + owSlack'
  <2>1. CASE owLive[i].side = "SELL"
    <3>1. /\ owHeld' = owHeld - n /\ OfferedBy(owLive') = OfferedBy(owLive) - n
          /\ n \in Nat /\ n <= owHeld /\ owSlack' = owSlack
      BY <1>1, <1>2, <1>3, <1>4, <2>1
    <3> QED
      BY <1>1, <1>5, <3>1
  <2>2. CASE owLive[i].side = "BUY"
    <3>1. /\ owHeld' = owHeld + n /\ OfferedBy(owLive') = OfferedBy(owLive) - 0
          /\ n \in Nat /\ owSlack' = owSlack
      BY <1>2, <1>3, <1>4, <2>2
    <3> QED
      BY <1>1, <1>5, <3>1
  <2> QED
    BY <1>2, <2>1, <2>2
<1> QED
  BY <1>1, <1>3, <1>4, <1>6 DEF OwIInv

\* Every step of the one-way strategy keeps the invariant.
LEMMA OwSteps == OwIInv /\ [OwNext]_owVars => OwIInv'
<1> SUFFICES ASSUME OwIInv, [OwNext]_owVars PROVE OwIInv'
  OBVIOUS
<1>1. ASSUME NEW w \in OwWanted, OwRequote(w) PROVE OwIInv'
  BY <1>1, OwRequoteKeeps
<1>2. CASE OwPull
  <2>1. /\ owLive' = << >> /\ owWorth' = 0 /\ owBid' = NoTop /\ owSlack' = 0
        /\ UNCHANGED <<owHeld, owDay, owRound>>
    BY <1>2 DEF OwPull, NoRecompute
  <2>2. owHeld \in Nat /\ owDay \in 0..LastDay /\ owRound \in 0..OwRounds
    BY DEF OwIInv
  <2> QED
    BY <2>1, <2>2, NothingOffered DEF OwIInv
<1>3. ASSUME NEW i \in DOMAIN owLive, NEW n \in 1..owLive[i].size, OwFill(i, n) PROVE OwIInv'
  BY <1>3, OwFillKeeps
<1>4. CASE NextDay
  <2>1. /\ UNCHANGED <<owLive, owHeld, owSlack, owRound>> /\ owDay' = owDay + 1 /\ owDay < LastDay
        /\ owWorth' = 0 /\ owBid' = NoTop
    BY <1>4 DEF NextDay, NoRecompute
  <2>2. owDay' \in 0..LastDay
    BY <2>1, OneWayAssumption DEF OwIInv
  <2> QED
    BY <2>1, <2>2 DEF OwIInv
<1>5. CASE UNCHANGED owVars
  BY <1>5 DEF owVars, OwIInv
<1> QED
  BY <1>1, <1>2, <1>3, <1>4, <1>5 DEF OwNext

\* Every reachable state of the one-way strategy meets the invariant.
LEMMA OwAlways == OwSpec => []OwIInv
<1> QED
  BY OwFirst, OwSteps, PTL DEF OwSpec

\* Every variable has its type: an order has a positive size and a price of the
\* grid or one of its ends, and the position is never negative
\* (one_way.py:251-282, :331-368).
THEOREM OneWayTyped == OwSpec => []OwTypeOK
<1>1. OwIInv => OwTypeOK
  <2> SUFFICES ASSUME OwIInv PROVE OwTypeOK
    OBVIOUS
  <2>1. \A i \in DOMAIN owLive : owLive[i] \in OwOrders
    BY DEF OwIInv
  <2>2. \A i \in DOMAIN owLive : owLive[i].price \in {T * k : k \in 0..OwGrid} /\ owLive[i].size >= 1
    BY <2>1 DEF OwOrders, OwPrices
  <2> QED
    BY <2>2 DEF OwIInv, OwTypeOK
<1> QED
  BY <1>1, OwAlways, PTL

\* What is offered is over the position by no more than resize_frac of what the
\* last recompute saw held, whichever layers that recompute kept and whichever
\* orders are filled, in full or in part, in whichever order (one_way.py:361,
\* reconciler.py:54).
THEOREM OffersAreHeld == OwSpec => []SellsCovered
<1>1. OwIInv => SellsCovered
  BY DEF OwIInv, SellsCovered, OfferedBy, Offered, Sizes
<1> QED
  BY <1>1, OwAlways, PTL

\* A recompute that bids cannot come to hold more than q_max_usdc at its prices,
\* with the bids that it keeps, on any book, day and position, when a ladder
\* fits over the two levels of the inventory with what the tolerances may add
\* (one_way.py:215-224, :278, reconciler.py:47-55).
THEOREM WorthStaysBounded ==
    ASSUME LadderFits PROVE OwSpec => []WorthBounded
<1>0. OwQMax * Whole \in Nat
  BY OneWayAssumption DEF Whole, T
<1>1. OwInit => WorthBounded
  BY <1>0 DEF OwInit, WorthBounded
<1>2. OwIInv /\ WorthBounded /\ [OwNext]_owVars => WorthBounded'
  <2> SUFFICES ASSUME OwIInv, WorthBounded, [OwNext]_owVars PROVE WorthBounded'
    OBVIOUS
  <2>1. ASSUME NEW w \in OwWanted, OwRequote(w) PROVE WorthBounded'
    BY <2>1, WorthFits DEF WorthBounded
  <2>2. CASE OwPull
    BY <1>0, <2>2 DEF OwPull, NoRecompute, WorthBounded
  <2>3. ASSUME NEW i \in DOMAIN owLive, NEW n \in 1..owLive[i].size, OwFill(i, n) PROVE WorthBounded'
    BY <1>0, <2>3 DEF OwFill, NoRecompute, WorthBounded
  <2>4. CASE NextDay
    BY <1>0, <2>4 DEF NextDay, NoRecompute, WorthBounded
  <2>5. CASE UNCHANGED owVars
    BY <2>5 DEF owVars, WorthBounded
  <2> QED
    BY <2>1, <2>2, <2>3, <2>4, <2>5 DEF OwNext
<1> QED
  BY <1>1, <1>2, OwAlways, PTL DEF OwSpec

-----------------------------------------------------------------------------
(* The machines side by side (MCQuoting).                                  *)

\* A step of the composition is one of each machine, or leaves it alone.
LEMMA QuotingStepsApart ==
    [Next]_quotingVars =>
        /\ [GateNext]_gateVars /\ [ResultsNext]_resultVars /\ [MakerNext]_makerVars
        /\ [OwNext]_owVars /\ [SnapNext]_snapVars /\ [AdaptNext]_adaptVars
BY DEF Next, quotingVars

\* In every reachable state each machine's variables have their types, and the
\* prices of both strategies are on the grid of the tick (reconciler.py:37-48,
\* quoting.py:37-42, one_way.py:282, :368).
THEOREM QuotingTypeCorrect == Spec => []QuotingTypeOK
<1>1. Init => /\ GateInit /\ ResultsInit /\ MakerInit
              /\ OwInit /\ SnapInit /\ AdaptInit
  BY DEF Init
<1>2. Spec => []GateTypeOK
  <2>1. [Next]_quotingVars => [GateNext]_gateVars
    BY QuotingStepsApart
  <2> QED
    BY <1>1, <2>1, GateTypeCorrect, PTL DEF Spec, GateSpec
<1>3. Spec => []ResultsTypeOK
  <2>1. [Next]_quotingVars => [ResultsNext]_resultVars
    BY QuotingStepsApart
  <2> QED
    BY <1>1, <2>1, ResultsTypeCorrect, PTL DEF Spec, ResultsSpec
<1>4. Spec => []MakerTypeOK
  <2>1. [Next]_quotingVars => [MakerNext]_makerVars
    BY QuotingStepsApart
  <2> QED
    BY <1>1, <2>1, MakerTyped, PTL DEF Spec, MakerSpec
<1>5. Spec => []OwTypeOK
  <2>1. [Next]_quotingVars => [OwNext]_owVars
    BY QuotingStepsApart
  <2> QED
    BY <1>1, <2>1, OneWayTyped, PTL DEF Spec, OwSpec
<1>6. Spec => []SnapTypeOK
  <2>1. [Next]_quotingVars => [SnapNext]_snapVars
    BY QuotingStepsApart
  <2> QED
    BY <1>1, <2>1, SnapshotsTyped, PTL DEF Spec, SnapSpec
<1>7. Spec => []AdaptTypeOK
  <2>1. [Next]_quotingVars => [AdaptNext]_adaptVars
    BY QuotingStepsApart
  <2> QED
    BY <1>1, <2>1, AdaptiveTyped, PTL DEF Spec, AdaptSpec
<1>8. QuotingTypeOK <=> /\ GateTypeOK /\ ResultsTypeOK /\ MakerTypeOK
                        /\ OwTypeOK /\ SnapTypeOK /\ AdaptTypeOK
  BY DEF QuotingTypeOK
<1> QED
  BY <1>2, <1>3, <1>4, <1>5, <1>6, <1>7, <1>8, PTL
=============================================================================
