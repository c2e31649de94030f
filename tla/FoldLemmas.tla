----------------------------- MODULE FoldLemmas -----------------------------
(***************************************************************************)
(* What the folds of the community modules compute: extremes, sums over a  *)
(* finite set and their laws.  A fold is defined by recursion, so these    *)
(* facts need induction; it is done here with sets for predicates, from    *)
(* the minimal elements of two well-founded orders: the proper subsets of  *)
(* a finite set, and the natural numbers.                                  *)
(***************************************************************************)
EXTENDS Integers, FiniteSets, FiniteSetsExt, FiniteSetTheorems, WellFoundedInduction, TLAPS

\* A set of numbers up to a bound is finite.
LEMMA BoundedIsFinite ==
    ASSUME NEW c \in Nat, NEW S \in SUBSET (0..c) PROVE IsFiniteSet(S)
<1>1. IsFiniteSet(0..c)
  BY FS_Interval
<1> QED
  BY <1>1, FS_Subset

\* A set of numbers has a least element.
LEMMA LeastNumber ==
    ASSUME NEW B \in SUBSET Nat, B # {}
    PROVE  \E n \in B : \A k \in B : n <= k
<1>1. \E n \in B : \A k \in B : ~(<<k, n>> \in OpToRel(<, Nat))
  BY WFMin, NatLessThanWellFounded
<1>2. PICK n \in B : \A k \in B : ~(<<k, n>> \in OpToRel(<, Nat))
  BY <1>1
<1>3. \A k \in B : ~(k < n)
  BY <1>2 DEF OpToRel
<1> QED
  BY <1>3

\* A set of numbers up to a bound has a greatest element.
LEMMA GreatestNumber ==
    ASSUME NEW c \in Nat, NEW B \in SUBSET (0..c), B # {}
    PROVE  \E n \in B : \A k \in B : k <= n
<1> DEFINE D == {d \in Nat : c - d \in B}
<1>1. PICK b \in B : TRUE
  OBVIOUS
<1>2. c - b \in D /\ D \in SUBSET Nat
  BY <1>1
<1> HIDE DEF D
<1>3. PICK d \in D : \A e \in D : d <= e
  BY <1>2, LeastNumber
<1>4. c - d \in B
  BY <1>3 DEF D
<1>5. ASSUME NEW k \in B PROVE k <= c - d
  <2>1. c - k \in D
    BY DEF D
  <2>2. d <= c - k /\ d \in Nat
    BY <1>3, <2>1 DEF D
  <2> QED
    BY <2>2
<1> QED
  BY <1>4, <1>5

\* Max of FiniteSetsExt is that element.
LEMMA MaxIsGreatest ==
    ASSUME NEW c \in Nat, NEW B \in SUBSET (0..c), B # {}
    PROVE  Max(B) \in B /\ \A k \in B : k <= Max(B)
<1>1. PICK n \in B : \A k \in B : k <= n
  BY GreatestNumber
<1>2. \E x \in B : \A y \in B : x >= y
  BY <1>1
<1> QED
  BY <1>2 DEF Max

\* Min of FiniteSetsExt is the least element of a set of numbers.
LEMMA MinIsLeast ==
    ASSUME NEW B \in SUBSET Nat, B # {}
    PROVE  Min(B) \in B /\ \A k \in B : Min(B) <= k
<1>1. \E x \in B : \A y \in B : x =< y
  BY LeastNumber
<1> QED
  BY <1>1 DEF Min

\* A set of subsets of a finite set has one that contains no other of them.
LEMMA LeastSet ==
    ASSUME NEW S, IsFiniteSet(S), NEW B \in SUBSET SUBSET S, B # {}
    PROVE  \E s \in B : \A t \in B : t \subseteq s => t = s
<1>1. B \subseteq FiniteSubsetsOf(S)
  BY FS_Subset DEF FiniteSubsetsOf
<1>2. \E s \in B : \A t \in B : ~(<<t, s>> \in StrictSubsetOrdering(S))
  BY <1>1, WFMin, FS_StrictSubsetOrderingWellFounded
<1> QED
  BY <1>2 DEF StrictSubsetOrdering

-----------------------------------------------------------------------------

\* g is a fold over the subsets of T: the element that pick takes from a set
\* is added by step to what g gives without it.
Solves(g, T, base, step, pick) ==
    \A s \in SUBSET T : g[s] = IF s = {} THEN base ELSE step[pick[s]][g[s \ {pick[s]}]]

\* pick takes an element from every set that has one.
Picks(pick, S) == \A s \in SUBSET S : s # {} => pick[s] \in s

\* Two folds of one step agree wherever both are defined.
LEMMA SolutionsAgree ==
    ASSUME NEW S, IsFiniteSet(S), NEW base, NEW step, NEW pick, Picks(pick, S),
           NEW A \in SUBSET S, NEW g, Solves(g, A, base, step, pick),
           NEW B \in SUBSET S, NEW h, Solves(h, B, base, step, pick),
           NEW s \in SUBSET (A \cap B)
    PROVE  g[s] = h[s]
<1> DEFINE Bad == {t \in SUBSET (A \cap B) : g[t] # h[t]}
<1> SUFFICES ASSUME Bad # {} PROVE FALSE
  OBVIOUS
<1>1. Bad \in SUBSET SUBSET S
  OBVIOUS
<1> HIDE DEF Bad
<1>2. PICK t \in Bad : \A u \in Bad : u \subseteq t => u = t
  BY <1>1, LeastSet
<1> USE DEF Bad
<1>3. CASE t = {}
  BY <1>3 DEF Solves
<1>4. CASE t # {}
  <2> DEFINE u == t \ {pick[t]}
  <2>1. pick[t] \in t
    BY <1>4 DEF Picks
  <2>2. u \in SUBSET (A \cap B) /\ u \notin Bad
    BY <2>1, <1>2
  <2>3. g[u] = h[u]
    BY <2>2
  <2> QED
    BY <2>3, <1>4 DEF Solves
<1> QED
  BY <1>3, <1>4

\* There is a fold of every step.
LEMMA SolutionExists ==
    ASSUME NEW S, IsFiniteSet(S), NEW V, NEW base \in V, NEW step \in [S -> [V -> V]],
           NEW pick, Picks(pick, S)
    PROVE  \E g \in [SUBSET S -> V] : Solves(g, S, base, step, pick)
<1> DEFINE Has(T) == \E g \in [SUBSET T -> V] : Solves(g, T, base, step, pick)
           Bad == {t \in SUBSET S : ~Has(t)}
<1> SUFFICES ASSUME Bad # {} PROVE FALSE
  OBVIOUS
<1>1. Bad \in SUBSET SUBSET S
  OBVIOUS
<1> HIDE DEF Bad
<1>2. PICK T \in Bad : \A u \in Bad : u \subseteq T => u = T
  BY <1>1, LeastSet
<1> USE DEF Bad
<1>3. \A u \in SUBSET T : u # T => Has(u)
  BY <1>2
<1> DEFINE sol(u) == CHOOSE g \in [SUBSET u -> V] : Solves(g, u, base, step, pick)
<1>4. \A u \in SUBSET T : u # T => sol(u) \in [SUBSET u -> V] /\ Solves(sol(u), u, base, step, pick)
  BY <1>3
<1> DEFINE rest(s) == s \ {pick[s]}
           G == [s \in SUBSET T |-> IF s = {} THEN base ELSE step[pick[s]][sol(rest(s))[rest(s)]]]
<1>5. \A s \in SUBSET T : s # {} => /\ pick[s] \in s /\ pick[s] \in S
                                     /\ rest(s) \in SUBSET T /\ rest(s) # T /\ rest(s) \subseteq s
  BY DEF Picks
<1>a. \A s \in SUBSET T : G[s] = IF s = {} THEN base ELSE step[pick[s]][sol(rest(s))[rest(s)]]
  OBVIOUS
<1>t. T \in SUBSET S /\ ~Has(T)
  OBVIOUS
<1>b. G = [s \in SUBSET T |-> G[s]]
  OBVIOUS
<1>r. \A s : rest(s) = s \ {pick[s]}
  OBVIOUS
<1> HIDE DEF Bad, Has, sol, rest, G
<1>6. G \in [SUBSET T -> V]
  <2> SUFFICES ASSUME NEW s \in SUBSET T PROVE G[s] \in V
    BY <1>b
  <2>1. CASE s = {}
    BY <2>1, <1>a
  <2>2. CASE s # {}
    <3> DEFINE w == rest(s)
    <3>1. w \in SUBSET T /\ w # T
      BY <2>2, <1>5
    <3>2. sol(w) \in [SUBSET w -> V] /\ w \in SUBSET w
      BY <3>1, <1>4
    <3>3. sol(w)[w] \in V /\ pick[s] \in S
      BY <2>2, <3>2, <1>5
    <3>4. G[s] = step[pick[s]][sol(w)[w]]
      BY <2>2, <1>a
    <3> QED
      BY <3>3, <3>4
  <2> QED
    BY <2>1, <2>2
<1>7. ASSUME NEW u \in SUBSET T, u # T PROVE G[u] = sol(u)[u]
  <2>0. Solves(sol(u), u, base, step, pick) /\ u \in SUBSET u
    BY <1>4, <1>7
  <2>1. CASE u = {}
    BY <2>1, <1>a, <2>0 DEF Solves
  <2>2. CASE u # {}
    <3> DEFINE w == rest(u)
    <3>1. sol(u)[u] = step[pick[u]][sol(u)[w]]
      BY <2>2, <2>0, <1>r DEF Solves
    <3>2. w \in SUBSET T /\ w # T /\ w \in SUBSET (u \cap w) /\ u \in SUBSET S /\ w \in SUBSET S
      BY <2>2, <1>5, <1>7, <1>t
    <3>3. Solves(sol(w), w, base, step, pick)
      BY <3>2, <1>4
    <3> HIDE DEF w
    <3>4. sol(u)[w] = sol(w)[w]
      BY <3>2, <3>3, <2>0, SolutionsAgree
    <3>5. G[u] = step[pick[u]][sol(w)[w]]
      BY <2>2, <1>a DEF w
    <3> QED
      BY <3>1, <3>4, <3>5
  <2> QED
    BY <2>1, <2>2
<1>8. Solves(G, T, base, step, pick)
  <2> SUFFICES ASSUME NEW s \in SUBSET T
               PROVE G[s] = IF s = {} THEN base ELSE step[pick[s]][G[s \ {pick[s]}]]
    BY DEF Solves
  <2>1. CASE s = {}
    BY <2>1, <1>a
  <2>2. CASE s # {}
    <3> DEFINE w == rest(s)
    <3>1. w \in SUBSET T /\ w # T
      BY <2>2, <1>5
    <3>2. G[w] = sol(w)[w]
      BY <3>1, <1>7
    <3>3. G[s] = step[pick[s]][sol(w)[w]]
      BY <2>2, <1>a
    <3> QED
      BY <2>2, <3>2, <3>3, <1>r
  <2> QED
    BY <2>1, <2>2
<1> QED
  BY <1>6, <1>8, <1>t DEF Has

-----------------------------------------------------------------------------

\* P holds of a set when it holds of the set without any one of its elements.
ByElement(P, S) ==
    \A t \in SUBSET S : (\A x \in t : t \ {x} \in P) => t \in P

\* Induction over the subsets of a finite set: what holds of a set when it
\* holds of the set less any element holds of all.  P is a set and not an
\* operator, which is what lets the provers instantiate it.
LEMMA SetsByElement ==
    ASSUME NEW S, IsFiniteSet(S), NEW P, ByElement(P, S)
    PROVE  \A s \in SUBSET S : s \in P
<1> USE DEF ByElement
<1> DEFINE B == (SUBSET S) \ P
<1> SUFFICES ASSUME B # {} PROVE FALSE
  OBVIOUS
<1>0. B \in SUBSET SUBSET S
  OBVIOUS
<1>1. PICK t \in B : \A u \in B : u \subseteq t => u = t
  <2> HIDE DEF B
  <2> QED
    BY <1>0, LeastSet
<1> QED
  BY <1>1

\* Induction over the numbers, with a set in the same way.
LEMMA NumbersByStep ==
    ASSUME NEW P \in SUBSET Nat, 0 \in P, \A n \in P : n + 1 \in P
    PROVE  P = Nat
<1> SUFFICES ASSUME Nat \ P # {} PROVE FALSE
  OBVIOUS
<1>1. PICK n \in Nat \ P : \A k \in Nat \ P : n <= k
  BY LeastNumber
<1>2. n # 0 /\ n - 1 \in Nat /\ n - 1 \in P
  BY <1>1
<1> QED
  BY <1>2

-----------------------------------------------------------------------------

\* f gives an integer for each element of S.
Numbers(f, S) == \A x \in S : f[x] \in Int

\* The element that MapThenFoldSet takes from a set.
AnyIn(s) == CHOOSE x \in s : TRUE

\* It is an element of the set.
LEMMA AnyInIsIn ==
    ASSUME NEW s, s # {} PROVE AnyIn(s) \in s
BY DEF AnyIn

\* g gives the sum of f over each subset of T.
Sums(g, f, T) ==
    \A s \in SUBSET T : g[s] = IF s = {} THEN 0 ELSE f[AnyIn(s)] + g[s \ {AnyIn(s)}]

\* There is such a table.
LEMMA SumsExist ==
    ASSUME NEW S, IsFiniteSet(S), NEW f, Numbers(f, S)
    PROVE  \E g \in [SUBSET S -> Int] : Sums(g, f, S)
<1> DEFINE step == [x \in S |-> [v \in Int |-> f[x] + v]]
           pick == [s \in SUBSET S |-> AnyIn(s)]
<1>1. step \in [S -> [Int -> Int]]
  BY DEF Numbers
<1>2. Picks(pick, S)
  BY AnyInIsIn DEF Picks
<1>3. \A x \in S, v \in Int : step[x][v] = f[x] + v
  OBVIOUS
<1>4. \A s \in SUBSET S : pick[s] = AnyIn(s)
  OBVIOUS
<1> HIDE DEF step, pick
<1>0. 0 \in Int
  OBVIOUS
<1>5. PICK g \in [SUBSET S -> Int] : Solves(g, S, 0, step, pick)
  BY <1>0, <1>1, <1>2, SolutionExists, Zenon
<1>6. ASSUME NEW s \in SUBSET S
      PROVE  g[s] = IF s = {} THEN 0 ELSE f[AnyIn(s)] + g[s \ {AnyIn(s)}]
  <2>1. CASE s = {}
    BY <2>1, <1>5 DEF Solves
  <2>2. CASE s # {}
    <3>1. AnyIn(s) \in S /\ g[s \ {AnyIn(s)}] \in Int
      BY <2>2, AnyInIsIn
    <3>2. g[s] = step[AnyIn(s)][g[s \ {AnyIn(s)}]]
      BY <2>2, <1>4, <1>5 DEF Solves
    <3> QED
      BY <2>2, <3>1, <3>2, <1>3
  <2> QED
    BY <2>1, <2>2
<1> QED
  BY <1>6 DEF Sums

\* Two tables agree wherever both are defined.
LEMMA SumsAgree ==
    ASSUME NEW S, IsFiniteSet(S), NEW f, NEW g, NEW h, NEW T \in SUBSET S,
           Sums(g, f, S), Sums(h, f, T)
    PROVE  g[T] = h[T]
<1> DEFINE P == {s \in SUBSET T : g[s] = h[s]}
<1>1. ASSUME NEW t \in SUBSET T, \A x \in t : t \ {x} \in P
      PROVE  t \in P
  <2>1. CASE t = {}
    BY <2>1 DEF Sums
  <2>2. CASE t # {}
    <3>1. AnyIn(t) \in t
      BY <2>2, AnyInIsIn
    <3>2. /\ g[t] = f[AnyIn(t)] + g[t \ {AnyIn(t)}]
          /\ h[t] = f[AnyIn(t)] + h[t \ {AnyIn(t)}]
      BY <2>2 DEF Sums
    <3> QED
      BY <1>1, <3>1, <3>2
  <2> QED
    BY <2>1, <2>2
<1>2. ByElement(P, T)
  BY <1>1 DEF ByElement
<1>3. IsFiniteSet(T)
  BY FS_Subset
<1> HIDE DEF P
<1>4. \A s \in SUBSET T : s \in P
  BY <1>2, <1>3, SetsByElement
<1> QED
  BY <1>4 DEF P

\* SumFunctionOnSet is what the table says.
LEMMA SumIsChosen ==
    ASSUME NEW S, IsFiniteSet(S), NEW f, NEW g \in [SUBSET S -> Int], Sums(g, f, S)
    PROVE  SumFunctionOnSet(f, S) = g[S]
<1> DEFINE Eq(h) == h = [s \in SUBSET S |->
                            IF s = {} THEN 0
                            ELSE f[CHOOSE x \in s : TRUE] + h[s \ {CHOOSE x \in s : TRUE}]]
<1>1. SumFunctionOnSet(f, S) = (CHOOSE h : Eq(h))[S]
  BY DEF SumFunctionOnSet, FoldFunctionOnSet, MapThenFoldSet
<1>2. Eq(g)
  BY DEF Sums, AnyIn
<1>3. \A h : Eq(h) => Sums(h, f, S)
  BY DEF Sums, AnyIn
<1> HIDE DEF Eq
<1>4. Sums(CHOOSE h : Eq(h), f, S)
  BY <1>2, <1>3
<1>5. S \in SUBSET S
  OBVIOUS
<1> QED
  BY <1>1, <1>4, <1>5, SumsAgree

\* The table of SumFunctionOnSet itself.
SumTable(g, f, S) ==
    /\ g \in [SUBSET S -> Int]
    /\ Sums(g, f, S)
    /\ \A T \in SUBSET S : g[T] = SumFunctionOnSet(f, T)

\* It exists, for a finite set and integers.
LEMMA SumStep ==
    ASSUME NEW S, IsFiniteSet(S), NEW f, Numbers(f, S)
    PROVE  \E g : SumTable(g, f, S)
<1>1. PICK g \in [SUBSET S -> Int] : Sums(g, f, S)
  BY SumsExist
<1>2. ASSUME NEW T \in SUBSET S PROVE g[T] = SumFunctionOnSet(f, T)
  <2>1. IsFiniteSet(T) /\ Numbers(f, T)
    BY FS_Subset DEF Numbers
  <2>2. PICK h \in [SUBSET T -> Int] : Sums(h, f, T)
    BY <2>1, SumsExist
  <2>3. g[T] = h[T]
    BY <1>1, <2>2, SumsAgree
  <2> QED
    BY <2>1, <2>2, <2>3, SumIsChosen
<1> QED
  BY <1>1, <1>2 DEF SumTable

-----------------------------------------------------------------------------
(* What the models use of a sum.                                           *)

\* The sum over nothing is 0.
LEMMA SumEmpty ==
    ASSUME NEW f PROVE SumFunctionOnSet(f, {}) = 0
<1>1. IsFiniteSet({}) /\ Numbers(f, {})
  BY FS_EmptySet DEF Numbers
<1>2. PICK g : SumTable(g, f, {})
  BY <1>1, SumStep
<1> QED
  BY <1>2 DEF Sums, SumTable

\* A sum of integers is one.
LEMMA SumTypes ==
    ASSUME NEW S, IsFiniteSet(S), NEW f, Numbers(f, S)
    PROVE  SumFunctionOnSet(f, S) \in Int
<1>1. PICK g : SumTable(g, f, S)
  BY SumStep
<1> QED
  BY <1>1 DEF SumTable

\* A sum is any one of its terms and the sum of the others.
LEMMA SumElement ==
    ASSUME NEW S, IsFiniteSet(S), NEW f, Numbers(f, S), NEW x \in S
    PROVE  SumFunctionOnSet(f, S) = f[x] + SumFunctionOnSet(f, S \ {x})
<1>1. PICK g : SumTable(g, f, S)
  BY SumStep
<1> DEFINE P == {s \in SUBSET S : \A y \in s : g[s] = f[y] + g[s \ {y}]}
<1>2. ASSUME NEW t \in SUBSET S, \A x1 \in t : t \ {x1} \in P, NEW y \in t
      PROVE  g[t] = f[y] + g[t \ {y}]
  <2> DEFINE a == AnyIn(t)
  <2>1. a \in t
    BY AnyInIsIn
  <2>2. g[t] = f[a] + g[t \ {a}]
    BY <1>1 DEF Sums, SumTable
  <2> HIDE DEF a
  <2> SUFFICES ASSUME y # a PROVE g[t] = f[y] + g[t \ {y}]
    BY <2>2
  <2>3. g[t \ {a}] = f[y] + g[(t \ {a}) \ {y}]
    BY <1>2, <2>1
  <2>4. g[t \ {y}] = f[a] + g[(t \ {y}) \ {a}]
    BY <1>2, <2>1
  <2>5. (t \ {a}) \ {y} = (t \ {y}) \ {a}
    OBVIOUS
  <2>6. f[a] \in Int /\ f[y] \in Int /\ g[(t \ {y}) \ {a}] \in Int
    BY <1>1, <2>1 DEF Numbers, SumTable
  <2>7. \A p, q, r \in Int : p + (q + r) = q + (p + r)
    OBVIOUS
  <2>8. f[a] + (f[y] + g[(t \ {y}) \ {a}]) = f[y] + (f[a] + g[(t \ {y}) \ {a}])
    BY <2>6, <2>7
  <2> QED
    BY <2>2, <2>3, <2>4, <2>5, <2>8, Zenon
<1>3. ByElement(P, S)
  BY <1>2 DEF ByElement
<1> HIDE DEF P
<1>4. \A s \in SUBSET S : s \in P
  BY <1>3, SetsByElement
<1>5. S \in P
  BY <1>4
<1> QED
  BY <1>1, <1>5 DEF P, SumTable

\* A sum of natural numbers is one.
LEMMA SumIsNat ==
    ASSUME NEW S, IsFiniteSet(S), NEW f, \A x \in S : f[x] \in Nat
    PROVE  SumFunctionOnSet(f, S) \in Nat
<1> DEFINE P == {s \in SUBSET S : SumFunctionOnSet(f, s) \in Nat}
<1>1. ASSUME NEW t \in SUBSET S, \A x1 \in t : t \ {x1} \in P PROVE t \in P
  <2>1. CASE t = {}
    BY <2>1, SumEmpty
  <2>2. CASE t # {}
    <3>1. PICK x \in t : TRUE
      BY <2>2
    <3>2. IsFiniteSet(t) /\ Numbers(f, t)
      BY FS_Subset DEF Numbers
    <3>3. SumFunctionOnSet(f, t) = f[x] + SumFunctionOnSet(f, t \ {x})
      BY <3>2, SumElement
    <3>4. SumFunctionOnSet(f, t \ {x}) \in Nat /\ f[x] \in Nat
      BY <1>1
    <3>5. f[x] + SumFunctionOnSet(f, t \ {x}) \in Nat
      BY <3>4
    <3> QED
      BY <3>3, <3>5, Zenon
  <2> QED
    BY <2>1, <2>2
<1>2. ByElement(P, S)
  BY <1>1 DEF ByElement
<1> HIDE DEF P
<1>3. \A s \in SUBSET S : s \in P
  BY <1>2, SetsByElement
<1>4. S \in P
  BY <1>3
<1> QED
  BY <1>4 DEF P

\* Functions that agree on the set have the same sum.
LEMMA SumAgree ==
    ASSUME NEW S, IsFiniteSet(S), NEW f, Numbers(f, S), NEW g, \A x \in S : g[x] = f[x]
    PROVE  SumFunctionOnSet(g, S) = SumFunctionOnSet(f, S)
<1>1. Numbers(g, S) /\ S \in SUBSET S
  BY DEF Numbers
<1>2. PICK F : SumTable(F, f, S)
  BY SumStep
<1>3. PICK G : SumTable(G, g, S)
  BY <1>1, SumStep
<1>4. ASSUME NEW s \in SUBSET S, s # {} PROVE g[AnyIn(s)] = f[AnyIn(s)]
  BY <1>4, AnyInIsIn
<1>5. Sums(G, f, S)
  BY <1>3, <1>4 DEF Sums, SumTable
<1>6. F[S] = G[S]
  BY <1>1, <1>2, <1>5, SumsAgree DEF SumTable
<1> QED
  BY <1>1, <1>2, <1>3, <1>6 DEF SumTable

\* A sum splits in two parts.
LEMMA SumDisjoint ==
    ASSUME NEW S, IsFiniteSet(S), NEW f, Numbers(f, S), NEW A \in SUBSET S
    PROVE  SumFunctionOnSet(f, S) = SumFunctionOnSet(f, A) + SumFunctionOnSet(f, S \ A)
<1> DEFINE P == {s \in SUBSET A : SumFunctionOnSet(f, S) =
                                    SumFunctionOnSet(f, s) + SumFunctionOnSet(f, S \ s)}
<1>1. ASSUME NEW t \in SUBSET A, \A y \in t : t \ {y} \in P PROVE t \in P
  <2>1. CASE t = {}
    <3>1. S \ t = S
      BY <2>1
    <3>2. SumFunctionOnSet(f, S) \in Int
      BY SumTypes
    <3> QED
      BY <2>1, <3>1, <3>2, SumEmpty
  <2>2. CASE t # {}
    <3>1. PICK y \in t : TRUE
      BY <2>2
    <3> DEFINE u == t \ {y}
               v == S \ t
    <3>2. IsFiniteSet(t) /\ IsFiniteSet(S \ u) /\ Numbers(f, t) /\ Numbers(f, S \ u)
      BY FS_Subset DEF Numbers
    <3>3. SumFunctionOnSet(f, t) = f[y] + SumFunctionOnSet(f, u)
      BY <3>2, SumElement
    <3>4. SumFunctionOnSet(f, S \ u) = f[y] + SumFunctionOnSet(f, (S \ u) \ {y})
      BY <3>2, SumElement
    <3>5. (S \ u) \ {y} = v
      OBVIOUS
    <3>6. SumFunctionOnSet(f, S) = SumFunctionOnSet(f, u) + SumFunctionOnSet(f, S \ u)
      BY <1>1
    <3>7. IsFiniteSet(u) /\ IsFiniteSet(v) /\ Numbers(f, u) /\ Numbers(f, v)
      BY FS_Subset DEF Numbers
    <3>8. f[y] \in Int /\ SumFunctionOnSet(f, u) \in Int /\ SumFunctionOnSet(f, v) \in Int
      BY <3>7, SumTypes DEF Numbers
    <3> HIDE DEF u, v
    <3>9. SumFunctionOnSet(f, S) = SumFunctionOnSet(f, t) + SumFunctionOnSet(f, v)
      <4>1. \A p, q, r \in Int : p + (q + r) = (q + p) + r
        OBVIOUS
      <4>2. SumFunctionOnSet(f, u) + (f[y] + SumFunctionOnSet(f, v))
               = (f[y] + SumFunctionOnSet(f, u)) + SumFunctionOnSet(f, v)
        BY <3>8, <4>1
      <4> QED
        BY <3>3, <3>4, <3>5, <3>6, <4>2, Zenon
    <3> QED
      BY <3>9 DEF v
  <2> QED
    BY <2>1, <2>2
<1>2. ByElement(P, A) /\ IsFiniteSet(A)
  BY <1>1, FS_Subset DEF ByElement
<1> HIDE DEF P
<1>3. \A s \in SUBSET A : s \in P
  BY <1>2, SetsByElement
<1>4. A \in P
  BY <1>3
<1> QED
  BY <1>4 DEF P

\* A bound on every term is one on the sum.
LEMMA SumBound ==
    ASSUME NEW S, IsFiniteSet(S), NEW f, NEW g, NEW a \in Nat, NEW b \in Nat,
           \A x \in S : f[x] \in Nat /\ g[x] \in Nat /\ a * f[x] <= b * g[x]
    PROVE  a * SumFunctionOnSet(f, S) <= b * SumFunctionOnSet(g, S)
<1> DEFINE P == {s \in SUBSET S : a * SumFunctionOnSet(f, s) <= b * SumFunctionOnSet(g, s)}
<1>0. \A s \in SUBSET S : /\ IsFiniteSet(s) /\ Numbers(f, s) /\ Numbers(g, s)
                          /\ SumFunctionOnSet(f, s) \in Nat /\ SumFunctionOnSet(g, s) \in Nat
  <2> SUFFICES ASSUME NEW s \in SUBSET S
               PROVE  /\ IsFiniteSet(s) /\ Numbers(f, s) /\ Numbers(g, s)
                      /\ SumFunctionOnSet(f, s) \in Nat /\ SumFunctionOnSet(g, s) \in Nat
    OBVIOUS
  <2>1. IsFiniteSet(s)
    BY FS_Subset
  <2>2. SumFunctionOnSet(f, s) \in Nat /\ SumFunctionOnSet(g, s) \in Nat
    BY <2>1, SumIsNat
  <2> QED
    BY <2>1, <2>2 DEF Numbers
<1>1. ASSUME NEW t \in SUBSET S, \A y \in t : t \ {y} \in P PROVE t \in P
  <2>1. CASE t = {}
    <3>1. SumFunctionOnSet(f, t) = 0 /\ SumFunctionOnSet(g, t) = 0
      BY <2>1, SumEmpty
    <3>2. a * 0 <= b * 0
      OBVIOUS
    <3> QED
      BY <3>1, <3>2
  <2>2. CASE t # {}
    <3>1. PICK y \in t : TRUE
      BY <2>2
    <3>2. PICK u \in SUBSET S : u = t \ {y}
      OBVIOUS
    <3>3. SumFunctionOnSet(f, t) = f[y] + SumFunctionOnSet(f, u)
      BY <1>0, <3>2, SumElement
    <3>4. SumFunctionOnSet(g, t) = g[y] + SumFunctionOnSet(g, u)
      BY <1>0, <3>2, SumElement
    <3>5. a * SumFunctionOnSet(f, u) <= b * SumFunctionOnSet(g, u)
      BY <1>1, <3>2
    <3>6. PICK F \in Nat, G \in Nat : F = SumFunctionOnSet(f, u) /\ G = SumFunctionOnSet(g, u)
      BY <1>0
    <3>7. PICK k \in Nat, l \in Nat : k = f[y] /\ l = g[y]
      OBVIOUS
    <3>8. a * k <= b * l /\ a * F <= b * G
      BY <3>5, <3>6, <3>7
    <3>9. a * (k + F) <= b * (l + G)
      <4>1. a * (k + F) = a * k + a * F /\ b * (l + G) = b * l + b * G
        OBVIOUS
      <4>2. a * k \in Int /\ a * F \in Int /\ b * l \in Int /\ b * G \in Int
        OBVIOUS
      <4> QED
        BY <3>8, <4>1, <4>2
    <3> QED
      BY <3>3, <3>4, <3>6, <3>7, <3>9
  <2> QED
    BY <2>1, <2>2
<1>2. ByElement(P, S)
  BY <1>1 DEF ByElement
<1> HIDE DEF P
<1>3. \A s \in SUBSET S : s \in P
  BY <1>2, SetsByElement
<1>4. S \in P
  BY <1>3
<1> QED
  BY <1>4 DEF P

\* A part of a sum of natural numbers is no more than the whole.
LEMMA SumWithin ==
    ASSUME NEW S, IsFiniteSet(S), NEW f, \A x \in S : f[x] \in Nat, NEW A \in SUBSET S
    PROVE  SumFunctionOnSet(f, A) <= SumFunctionOnSet(f, S)
<1>1. IsFiniteSet(A) /\ IsFiniteSet(S \ A) /\ Numbers(f, S)
  BY FS_Subset DEF Numbers
<1>2. SumFunctionOnSet(f, A) \in Nat /\ SumFunctionOnSet(f, S \ A) \in Nat
  BY <1>1, SumIsNat
<1>3. SumFunctionOnSet(f, S) = SumFunctionOnSet(f, A) + SumFunctionOnSet(f, S \ A)
  BY <1>1, SumDisjoint
<1> QED
  BY <1>2, <1>3

\* The sum of one number over a set is so many times that number.
LEMMA SumConstant ==
    ASSUME NEW S, IsFiniteSet(S), NEW f, NEW c \in Int, \A x \in S : f[x] = c
    PROVE  SumFunctionOnSet(f, S) = c * Cardinality(S) /\ Cardinality(S) \in Nat
<1> DEFINE P == {s \in SUBSET S : SumFunctionOnSet(f, s) = c * Cardinality(s)}
<1>0. \A s \in SUBSET S : IsFiniteSet(s) /\ Cardinality(s) \in Nat /\ Numbers(f, s)
  BY FS_Subset, FS_CardinalityType DEF Numbers
<1>1. ASSUME NEW t \in SUBSET S, \A y \in t : t \ {y} \in P PROVE t \in P
  <2>1. CASE t = {}
    <3>1. SumFunctionOnSet(f, t) = 0 /\ Cardinality(t) = 0 /\ c * 0 = 0
      BY <2>1, SumEmpty, FS_EmptySet
    <3> QED
      BY <3>1
  <2>2. CASE t # {}
    <3>1. PICK y \in t : TRUE
      BY <2>2
    <3> DEFINE u == t \ {y}
    <3>2. SumFunctionOnSet(f, t) = c + SumFunctionOnSet(f, u)
      BY <1>0, SumElement
    <3>3. SumFunctionOnSet(f, u) = c * Cardinality(u) /\ Cardinality(u) = Cardinality(t) - 1
      BY <1>0, <1>1, FS_RemoveElement
    <3>4. Cardinality(t) \in Nat
      BY <1>0
    <3> HIDE DEF u
    <3>5. \A n \in Nat : c + c * (n - 1) = c * n
      OBVIOUS
    <3>6. SumFunctionOnSet(f, t) = c * Cardinality(t)
      BY <3>2, <3>3, <3>4, <3>5
    <3> QED
      BY <3>6
  <2> QED
    BY <2>1, <2>2
<1>2. ByElement(P, S)
  BY <1>1 DEF ByElement
<1> HIDE DEF P
<1>3. \A s \in SUBSET S : s \in P
  BY <1>2, SetsByElement
<1>4. S \in P
  BY <1>3
<1> QED
  BY <1>0, <1>4 DEF P

\* A sum does not depend on what its numbers are named by.
LEMMA SumRenamed ==
    ASSUME NEW S, NEW f, Numbers(f, S), NEW R, IsFiniteSet(R), NEW g, NEW p \in [R -> S],
           \A x, y \in R : p[x] = p[y] => x = y, \A x \in R : g[x] = f[p[x]]
    PROVE  SumFunctionOnSet(g, R) = SumFunctionOnSet(f, {p[x] : x \in R})
<1> DEFINE P == {r \in SUBSET R : SumFunctionOnSet(g, r) = SumFunctionOnSet(f, {p[x] : x \in r})}
<1>0. \A r \in SUBSET R : IsFiniteSet(r) /\ Numbers(g, r) /\ IsFiniteSet({p[x] : x \in r})
                          /\ Numbers(f, {p[x] : x \in r})
  <2> SUFFICES ASSUME NEW r \in SUBSET R
               PROVE  IsFiniteSet(r) /\ Numbers(g, r) /\ IsFiniteSet({p[x] : x \in r})
                      /\ Numbers(f, {p[x] : x \in r})
    OBVIOUS
  <2>1. IsFiniteSet(r)
    BY FS_Subset
  <2> DEFINE q == [x \in r |-> p[x]]
             I == {p[x] : x \in r}
  <2>2. q \in Surjection(r, I)
    BY DEF Surjection
  <2>3. IsFiniteSet(I)
    BY <2>1, <2>2, FS_Surjection
  <2> QED
    BY <2>1, <2>3 DEF Numbers
<1>1. ASSUME NEW t \in SUBSET R, \A y \in t : t \ {y} \in P PROVE t \in P
  <2>1. CASE t = {}
    <3>1. {p[x] : x \in t} = {}
      BY <2>1
    <3>2. SumFunctionOnSet(g, {}) = 0 /\ SumFunctionOnSet(f, {}) = 0
      BY SumEmpty
    <3> QED
      BY <2>1, <3>1, <3>2
  <2>2. CASE t # {}
    <3>1. PICK y \in t : TRUE
      BY <2>2
    <3> DEFINE u == t \ {y}
               I == {p[x] : x \in t}
    <3>2. SumFunctionOnSet(g, t) = g[y] + SumFunctionOnSet(g, u)
      BY <1>0, SumElement
    <3>3. SumFunctionOnSet(f, I) = f[p[y]] + SumFunctionOnSet(f, I \ {p[y]})
      <4>1. IsFiniteSet(I) /\ Numbers(f, I) /\ p[y] \in I
        BY <1>0
      <4> HIDE DEF I
      <4> QED
        BY <4>1, SumElement
    <3>4. I \ {p[y]} = {p[x] : x \in u}
      OBVIOUS
    <3>5. u \in P
      BY <1>1
    <3>6. SumFunctionOnSet(g, u) = SumFunctionOnSet(f, {p[x] : x \in u})
      BY <3>5
    <3>7. g[y] = f[p[y]]
      OBVIOUS
    <3>8. SumFunctionOnSet(g, t) = SumFunctionOnSet(f, I)
      BY <3>2, <3>3, <3>4, <3>6, <3>7
    <3> QED
      BY <3>8
  <2> QED
    BY <2>1, <2>2
<1>2. ByElement(P, R)
  BY <1>1 DEF ByElement
<1> HIDE DEF P
<1>3. \A r \in SUBSET R : r \in P
  BY <1>2, SetsByElement
<1>4. R \in P
  BY <1>3
<1> QED
  BY <1>4 DEF P

-----------------------------------------------------------------------------
(* Sequences that go by their last element.                                *)

\* Each value follows from the one before.
Follows(f, n, first, step) ==
    f[1] = first /\ \A i \in 2..n : f[i] = step[i][f[i - 1]]

\* Such a function exists.
LEMMA FollowerExists ==
    ASSUME NEW n \in Nat \ {0}, NEW V, NEW first \in V, NEW step \in [1..n -> [V -> V]]
    PROVE  \E f \in [1..n -> V] : Follows(f, n, first, step)
<1> DEFINE Good(m) == \E f \in [1..m -> V] : Follows(f, m, first, step)
           P == {m \in Nat : m + 1 <= n => Good(m + 1)}
<1>1. 0 \in P
  <2> DEFINE f == [i \in 1..1 |-> first]
  <2>1. f \in [1..1 -> V] /\ Follows(f, 1, first, step)
    BY DEF Follows
  <2>2. Good(0 + 1)
    <3>1. 0 + 1 = 1
      OBVIOUS
    <3> QED
      BY <2>1, <3>1
  <2> QED
    BY <2>2
<1>2. ASSUME NEW m \in P PROVE m + 1 \in P
  <2> SUFFICES ASSUME (m + 1) + 1 <= n PROVE Good((m + 1) + 1)
    OBVIOUS
  <2>1. PICK k \in 1..n : k = m + 1 /\ k + 1 = (m + 1) + 1 /\ k + 1 <= n
    OBVIOUS
  <2>2. Good(k)
    BY <2>1
  <2>3. PICK f \in [1..k -> V] : Follows(f, k, first, step)
    BY <2>2
  <2>4. step[k + 1] \in [V -> V] /\ f[k] \in V /\ k + 1 \in Int
    BY <2>1
  <2> DEFINE h == [i \in 1..(k + 1) |-> IF i <= k THEN f[i] ELSE step[k + 1][f[k]]]
  <2>5. h \in [1..(k + 1) -> V]
    BY <2>4
  <2>6. \A i \in 1..k : h[i] = f[i]
    BY <2>1
  <2>7. h[k + 1] = step[k + 1][f[k]]
    BY <2>1
  <2> HIDE DEF h
  <2>8. \A i \in 2..(k + 1) : h[i] = step[i][h[i - 1]]
    <3> SUFFICES ASSUME NEW i \in 2..(k + 1) PROVE h[i] = step[i][h[i - 1]]
      OBVIOUS
    <3>1. i - 1 \in 1..k
      BY <2>1
    <3>2. CASE i = k + 1
      <4>1. i - 1 = k
        BY <2>1, <3>2
      <4> QED
        BY <2>6, <2>7, <3>1, <3>2, <4>1
    <3>3. CASE i # k + 1
      <4>1. i \in 2..k /\ i \in 1..k
        BY <2>1, <3>3
      <4> QED
        BY <2>3, <2>6, <3>1, <4>1 DEF Follows
    <3> QED
      BY <3>2, <3>3
  <2>9. h[1] = first
    BY <2>1, <2>3, <2>6 DEF Follows
  <2>10. Follows(h, k + 1, first, step)
    BY <2>8, <2>9 DEF Follows
  <2>11. Good(k + 1)
    BY <2>5, <2>10
  <2> HIDE DEF Good
  <2> QED
    BY <2>1, <2>11
<1> HIDE DEF P, Good
<1>3. P = Nat
  <2>1. P \in SUBSET Nat
    BY DEF P
  <2> QED
    BY <1>1, <1>2, <2>1, NumbersByStep
<1>4. n - 1 \in P /\ (n - 1) + 1 = n
  BY <1>3
<1>5. Good(n)
  BY <1>4 DEF P
<1> QED
  BY <1>5 DEF Good
=============================================================================
