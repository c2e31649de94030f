-------------------------- MODULE FillLedgerProofs --------------------------
(***************************************************************************)
(* Proofs about FillLedger, for every set of tokens and trades and every   *)
(* value of the time limits: its types, that a fill is applied at most     *)
(* once, that the in-flight guards count the unsettled fills, and that the *)
(* ledger implements OnceLedger.                                           *)
(***************************************************************************)
EXTENDS FillLedger, FiniteSetTheorems, TLAPS

\* Taking a share count to zero when it would be negative gives a natural.
LEMMA ClampNat == \A n \in Int : Clamp(n) \in Nat
BY DEF Clamp

\* A position map stays a position map when a fill is applied.
LEMMA ApplyFillType ==
    ASSUME NEW t \in Trades, NEW kind \in {"fill", "reverse"}, NEW n \in Int,
           TypeOK, ApplyFill(t, kind, n)
    PROVE  /\ fills' \subseteq FillIds
           /\ positions' \in Shares
           /\ dbPositions' \in Shares
           /\ lastFill' \in [Tokens -> Trades \cup {None}]
<1>1. TokenOf[t] \in Tokens
  BY LedgerAssumption
<1>2. Clamp(positions[TokenOf[t]] + n) \in Nat
  BY <1>1, ClampNat DEF TypeOK, Shares
<1>3. fills' \subseteq FillIds
  BY DEF ApplyFill, TypeOK, FillIds
<1>4. positions' \in Shares /\ dbPositions' \in Shares
  BY <1>1, <1>2 DEF ApplyFill, TypeOK, Shares
<1>5. lastFill' \in [Tokens -> Trades \cup {None}]
  BY <1>1 DEF ApplyFill, TypeOK
<1>6. QED
  BY <1>3, <1>4, <1>5

\* Marking and clearing a guard keep the types of the guards.
LEMMA GuardType ==
    ASSUME NEW tok \in Tokens, TypeOK, MarkInflight(tok) \/ ClearInflight(tok)
    PROVE  /\ inflight' \in [Tokens -> Nat]
           /\ guardAge' \in [Tokens -> (0..(MaxInflightAge + 1)) \cup {None}]
<1>1. CASE MarkInflight(tok)
  BY <1>1, LedgerAssumption DEF MarkInflight, TypeOK
<1>2. CASE ClearInflight(tok)
  <2>1. Clamp(inflight[tok] - 1) \in Nat
    BY ClampNat DEF TypeOK
  <2>2. QED
    BY <1>2, <2>1 DEF ClearInflight, TypeOK
<1>3. QED
  BY <1>1, <1>2

\* REST answers are share maps, and so is what they reconcile to.
LEMMA ReconciledType ==
    ASSUME NEW a \in Shares, TypeOK
    PROVE  Reconciled(a) \in Shares
BY DEF Reconciled, Shares, TypeOK

-----------------------------------------------------------------------------
(* Type correctness, action by action.                                     *)

\* The initial states are well typed.
LEMMA InitType == Init => TypeOK
<1> SUFFICES ASSUME Init PROVE TypeOK
  OBVIOUS
<1>1. /\ NoShares \in Shares
      /\ Held \in Shares
      /\ Asleep \in [at : {"sleep", "positions", "reconcile", "orders", "balances", "correct"},
                     round : 0..(AuditEvery - 1), toks : SUBSET Tokens, answer : Shares]
      /\ NoSync \in [at : {"idle", "reconcile"}, answer : Shares]
  BY LedgerAssumption DEF NoShares, Shares, Asleep, NoSync
<1>2. QED
  BY <1>1, LedgerAssumption DEF Init, TypeOK, Status, FillIds

\* A step of the exchange keeps the types.
LEMMA ExchangeType == TypeOK /\ Exchange => TypeOK'
<1> SUFFICES ASSUME TypeOK, NEW t \in Trades, Match(t) \/ Mine(t) \/ Finish(t)
             PROVE  TypeOK'
  BY DEF Exchange
<1>1. CASE Match(t)
  BY <1>1, LedgerAssumption
  DEF Match, TypeOK, Status, diskVars, guardVars, taskVars, history
<1>2. CASE Mine(t)
  <2>1. TokenOf[t] \in Tokens /\ Signed[t] \in Int
    BY LedgerAssumption
  <2>2. chain' \in Shares
    BY <1>2, <2>1 DEF Mine, TypeOK, Shares
  <2>3. QED
    BY <1>2, <2>2 DEF Mine, TypeOK, Status, diskVars, guardVars, taskVars, history
<1>3. CASE Finish(t)
  BY <1>3 DEF Finish, TypeOK, Status, diskVars, guardVars, taskVars, history
<1>4. QED
  BY <1>1, <1>2, <1>3

\* So does a message that is delivered.
LEMMA DeliverType == TypeOK /\ Deliver => TypeOK'
<1> SUFFICES ASSUME TypeOK, NEW t \in Trades, OnMatched(t) \/ OnConfirmed(t) \/ OnFailed(t)
             PROVE  TypeOK'
  BY DEF Deliver
<1>1. /\ TokenOf[t] \in Tokens
      /\ Signed[t] \in Int /\ -Signed[t] \in Int
  BY LedgerAssumption
<1>2. CASE OnMatched(t)
  <2>1. ApplyFill(t, "fill", Signed[t]) /\ MarkInflight(TokenOf[t])
    BY <1>2 DEF OnMatched
  <2>2. /\ fills' \subseteq FillIds /\ positions' \in Shares /\ dbPositions' \in Shares
        /\ lastFill' \in [Tokens -> Trades \cup {None}]
    BY <2>1, <1>1, ApplyFillType
  <2>3. /\ inflight' \in [Tokens -> Nat]
        /\ guardAge' \in [Tokens -> (0..(MaxInflightAge + 1)) \cup {None}]
    BY <2>1, <1>1, GuardType
  <2>4. netCash' \in Int /\ applied' \subseteq Trades /\ credits' \in [Trades -> Nat]
    BY <1>2, <1>1 DEF OnMatched, TypeOK
  <2>5. QED
    BY <1>2, <2>2, <2>3, <2>4 DEF OnMatched, TypeOK, exchangeVars, taskVars
<1>3. CASE OnConfirmed(t)
  <2>1. /\ inflight' \in [Tokens -> Nat]
        /\ guardAge' \in [Tokens -> (0..(MaxInflightAge + 1)) \cup {None}]
    BY <1>3, <1>1, GuardType DEF OnConfirmed
  <2>2. QED
    BY <1>3, <2>1 DEF OnConfirmed, TypeOK, exchangeVars, diskVars, taskVars, history
<1>4. CASE OnFailed(t)
  <2>1. /\ inflight' \in [Tokens -> Nat]
        /\ guardAge' \in [Tokens -> (0..(MaxInflightAge + 1)) \cup {None}]
    BY <1>4, <1>1, GuardType DEF OnFailed
  <2>2. /\ fills' \subseteq FillIds /\ positions' \in Shares /\ dbPositions' \in Shares
        /\ lastFill' \in [Tokens -> Trades \cup {None}]
        /\ reversals' \in [Trades -> Nat]
    <3>1. CASE /\ ApplyFill(t, "reverse", -Signed[t])
               /\ reversals' = [reversals EXCEPT ![t] = @ + 1]
      <4>1. reversals' \in [Trades -> Nat]
        BY <3>1 DEF TypeOK
      <4>2. QED
        BY <3>1, <4>1, <1>1, ApplyFillType
    <3>2. CASE UNCHANGED <<diskVars, positions, lastFill, reversals>>
      BY <3>2 DEF TypeOK, diskVars
    <3>3. QED
      BY <1>4, <3>1, <3>2 DEF OnFailed
  <2>3. QED
    BY <1>4, <2>1, <2>2 DEF OnFailed, TypeOK, exchangeVars, taskVars
<1>5. QED
  BY <1>2, <1>3, <1>4

\* So does the reconcile loop.
LEMMA ReconcileLoopType == TypeOK /\ ReconcileLoop => TypeOK'
<1> SUFFICES ASSUME TypeOK, ReconcileLoop
             PROVE  TypeOK'
  OBVIOUS
<1> USE DEF exchangeVars, diskVars, guardVars, taskVars, history
<1>1. NoShares \in Shares /\ chain \in Shares /\ loop.answer \in Shares
  BY DEF NoShares, Shares, TypeOK
<1>2. CASE BeginRound
  <2>1. (loop.round + 1) % AuditEvery \in 0..(AuditEvery - 1)
    BY LedgerAssumption DEF TypeOK
  <2>2. StaleGuards \subseteq Tokens
    BY DEF StaleGuards
  <2>3. QED
    BY <1>2, <2>1, <2>2 DEF BeginRound, TypeOK
<1>3. CASE PositionsAnswered
  BY <1>3, <1>1 DEF PositionsAnswered, Answers, TypeOK
<1>4. CASE ReconcilePositions
  BY <1>4, <1>1, ReconciledType DEF ReconcilePositions, SetPositions, TypeOK
<1>5. CASE EndOrders
  BY <1>5 DEF EndOrders, UnguardedTokens, TypeOK
<1>6. CASE BalancesAnswered
  BY <1>6, <1>1 DEF BalancesAnswered, TypeOK
<1>7. CASE BalancesFailed
  BY <1>7 DEF BalancesFailed, TypeOK
<1>8. CASE CorrectDivergence
  BY <1>8, <1>1 DEF CorrectDivergence, SetPositions, TypeOK, Shares
<1>9. QED
  BY <1>2, <1>3, <1>4, <1>5, <1>6, <1>7, <1>8 DEF ReconcileLoop

\* A crash leaves a process that knows nothing.
LEMMA ForgetMemoryType ==
    ASSUME TypeOK, ForgetMemory
    PROVE  /\ positions' \in Shares
           /\ inflight' \in [Tokens -> Nat]
           /\ guardAge' \in [Tokens -> (0..(MaxInflightAge + 1)) \cup {None}]
           /\ lastFill' \in [Tokens -> Trades \cup {None}]
           /\ applied' \subseteq Trades
           /\ netCash' \in Int
           /\ loop' \in [at : {"sleep", "positions", "reconcile", "orders", "balances", "correct"},
                         round : 0..(AuditEvery - 1), toks : SUBSET Tokens, answer : Shares]
           /\ sync' \in [at : {"idle", "reconcile"}, answer : Shares]
           /\ expired' \subseteq Tokens
BY LedgerAssumption DEF ForgetMemory, Asleep, NoSync, NoShares, Shares

\* A crash is counted.
LEMMA CanCrashType == TypeOK /\ CanCrash => crashes' \in 0..MaxCrashes /\ up' \in BOOLEAN
<1> SUFFICES ASSUME TypeOK, CanCrash
             PROVE  crashes' \in 0..MaxCrashes /\ up' \in BOOLEAN
  OBVIOUS
<1>1. crashes \in 0..MaxCrashes
  BY DEF TypeOK
<1>2. crashes < MaxCrashes /\ crashes' = crashes + 1 /\ up' = FALSE
  BY DEF CanCrash
<1>3. MaxCrashes \in Nat
  BY LedgerAssumption
<1>4. crashes' \in 0..MaxCrashes
  BY <1>1, <1>2, <1>3
<1>5. QED
  BY <1>2, <1>4

\* Every step keeps the types.
LEMMA NextType == TypeOK /\ [Next]_vars => TypeOK'
<1> SUFFICES ASSUME TypeOK, [Next]_vars
             PROVE  TypeOK'
  OBVIOUS
<1> USE DEF exchangeVars, diskVars, guardVars, taskVars, history
<1>1. CASE Exchange
  BY <1>1, ExchangeType
<1>2. CASE Deliver
  BY <1>2, DeliverType
<1>3. CASE ReconcileLoop
  BY <1>3, ReconcileLoopType
<1>4. CASE SyncAnswered
  BY <1>4 DEF SyncAnswered, TypeOK
<1>5. CASE SyncPositions
  <2>1. Reconciled(sync.answer) \in Shares /\ NoShares \in Shares
    BY ReconciledType DEF TypeOK, NoShares, Shares
  <2>2. QED
    BY <1>5, <2>1 DEF SyncPositions, SetPositions, NoSync, TypeOK
<1>6. CASE Tick
  BY <1>6, LedgerAssumption DEF Tick, TypeOK
<1>7. CASE Crash
  <2>1. crashes' \in 0..MaxCrashes /\ up' \in BOOLEAN
    BY <1>7, CanCrashType DEF Crash
  <2>2. QED
    BY <1>7, <2>1, ForgetMemoryType DEF Crash, TypeOK
<1>8. CASE \E t \in Trades : CrashInsideApplyFill(t)
  <2>1. PICK t \in Trades : CrashInsideApplyFill(t)
    BY <1>8
  <2>2. crashes' \in 0..MaxCrashes /\ up' \in BOOLEAN
    BY <2>1, CanCrashType DEF CrashInsideApplyFill
  <2>3. fills' \subseteq FillIds
    BY <2>1 DEF CrashInsideApplyFill, TypeOK, FillIds
  <2>4. QED
    BY <2>1, <2>2, <2>3, ForgetMemoryType DEF CrashInsideApplyFill, TypeOK
<1>9. CASE Restart
  BY <1>9 DEF Restart, Answers, SetPositions, TypeOK, Shares, NoShares
<1>10. CASE UNCHANGED vars
  BY <1>10 DEF vars, TypeOK
<1>11. QED
  BY <1>1, <1>2, <1>3, <1>4, <1>5, <1>6, <1>7, <1>8, <1>9, <1>10 DEF Next

\* Every reachable state of the ledger is well typed: no negative position,
\* no negative guard, no age past its limit.
THEOREM TypeCorrect == Spec => []TypeOK
<1>1. Init => TypeOK
  BY InitType
<1>2. TypeOK /\ [Next]_vars => TypeOK'
  BY NextType
<1>3. QED
  BY <1>1, <1>2, PTL DEF Spec

-----------------------------------------------------------------------------
(* At most once.                                                           *)

\* AppliedAtMostOnce is not inductive: what keeps a repeated MATCHED from
\* counting is the row in the fills table, also after the process forgot.
OnceOf(t) ==
    /\ credits[t] <= 1 /\ reversals[t] <= credits[t]
    /\ credits[t] = 1 => <<t, "fill">> \in fills
    /\ reversals[t] = 1 => <<t, "reverse">> \in fills
    /\ t \in applied => credits[t] = 1

\* Every trade is applied once at most.
OnceInv == \A t \in Trades : OnceOf(t)

\* What the invariant and the types say of one trade.
LEMMA CountsOf ==
    ASSUME TypeOK, OnceInv, NEW t \in Trades
    PROVE  /\ credits[t] \in Nat /\ reversals[t] \in Nat
           /\ credits[t] <= 1 /\ reversals[t] <= credits[t]
           /\ credits[t] = 1 => <<t, "fill">> \in fills
           /\ reversals[t] = 1 => <<t, "reverse">> \in fills
           /\ t \in applied => credits[t] = 1
           /\ credits \in [Trades -> Nat] /\ reversals \in [Trades -> Nat]
<1>1. credits \in [Trades -> Nat] /\ reversals \in [Trades -> Nat]
  BY DEF TypeOK
<1>2. credits[t] \in Nat /\ reversals[t] \in Nat
  BY <1>1
<1>3. OnceOf(t)
  BY DEF OnceInv, OnceOf
<1>4. QED
  BY <1>1, <1>2, <1>3 DEF OnceOf

\* No row, no count.
LEMMA NoRowNoCount ==
    ASSUME TypeOK, OnceInv, NEW t \in Trades, <<t, "fill">> \notin fills
    PROVE  credits[t] = 0 /\ reversals[t] = 0
<1>1. credits[t] \in Nat /\ credits[t] <= 1 /\ credits[t] # 1
  BY CountsOf
<1>2. credits[t] = 0
  BY <1>1
<1>3. reversals[t] \in Nat /\ reversals[t] <= credits[t]
  BY CountsOf
<1>4. QED
  BY <1>2, <1>3

\* An applied fill whose reversal has no row counts once.
LEMMA AppliedCounts ==
    ASSUME TypeOK, OnceInv, NEW t \in applied, <<t, "reverse">> \notin fills
    PROVE  credits[t] = 1 /\ reversals[t] = 0
<1>1. t \in Trades
  BY DEF TypeOK
<1>2. credits[t] = 1
  BY <1>1, CountsOf
<1>3. reversals[t] \in Nat /\ reversals[t] <= credits[t] /\ reversals[t] # 1
  BY <1>1, CountsOf
<1>4. QED
  BY <1>2, <1>3

\* Steps that touch neither the fills nor the counts, and apply nothing.
LEMMA OnceUnchanged ==
    ASSUME OnceInv, UNCHANGED <<fills, credits, reversals>>, applied' \subseteq applied
    PROVE  OnceInv'
BY DEF OnceInv, OnceOf

\* Every step keeps this.
LEMMA OnceNext == TypeOK /\ OnceInv /\ [Next]_vars => OnceInv'
<1> SUFFICES ASSUME TypeOK, OnceInv, [Next]_vars
             PROVE  OnceInv'
  OBVIOUS
<1> USE DEF exchangeVars, diskVars, guardVars, taskVars, history
<1>1. CASE Exchange
  BY <1>1, OnceUnchanged DEF Exchange, Match, Mine, Finish
<1>2. ASSUME NEW t \in Trades, OnMatched(t)
      PROVE  OnceInv'
  <2>1. /\ fills' = fills \cup {<<t, "fill">>} /\ <<t, "fill">> \notin fills
        /\ applied' = applied \cup {t}
        /\ credits' = [credits EXCEPT ![t] = @ + 1] /\ UNCHANGED reversals
    BY <1>2 DEF OnMatched, ApplyFill
  <2>2. credits[t] = 0 /\ reversals[t] = 0
    BY <2>1, NoRowNoCount
  <2>3. credits \in [Trades -> Nat] /\ reversals \in [Trades -> Nat]
    BY DEF TypeOK
  <2>4. credits'[t] = 1 /\ reversals'[t] = 0
    BY <2>1, <2>2, <2>3
  <2>5. OnceOf(t)'
    BY <2>1, <2>4 DEF OnceOf
  <2>6. ASSUME NEW u \in Trades \ {t} PROVE OnceOf(u)'
    BY <2>1, CountsOf DEF OnceOf
  <2>7. QED
    BY <2>5, <2>6 DEF OnceInv
<1>3. ASSUME NEW t \in Trades, OnConfirmed(t)
      PROVE  OnceInv'
  BY <1>3, OnceUnchanged DEF OnConfirmed
<1>4. ASSUME NEW t \in Trades, OnFailed(t)
      PROVE  OnceInv'
  <2>1. t \in applied /\ applied' = applied \ {t} /\ UNCHANGED credits
    BY <1>4 DEF OnFailed
  <2>2. CASE /\ ApplyFill(t, "reverse", -Signed[t])
             /\ reversals' = [reversals EXCEPT ![t] = @ + 1]
    <3>1. /\ fills' = fills \cup {<<t, "reverse">>} /\ <<t, "reverse">> \notin fills
      BY <2>2 DEF ApplyFill
    <3>2. credits[t] = 1 /\ reversals[t] = 0
      BY <2>1, <3>1, AppliedCounts
    <3>3. OnceOf(t)'
      BY <2>1, <2>2, <3>1, <3>2, CountsOf DEF OnceOf
    <3>4. ASSUME NEW u \in Trades \ {t} PROVE OnceOf(u)'
      BY <2>1, <2>2, <3>1, CountsOf DEF OnceOf
    <3>5. QED
      BY <3>3, <3>4 DEF OnceInv
  <2>3. CASE UNCHANGED <<diskVars, positions, lastFill, reversals>>
    BY <2>1, <2>3, OnceUnchanged
  <2>4. QED
    BY <1>4, <2>2, <2>3 DEF OnFailed
<1>5. CASE ReconcileLoop
  BY <1>5, OnceUnchanged
  DEF ReconcileLoop, BeginRound, PositionsAnswered, ReconcilePositions, EndOrders,
      BalancesAnswered, BalancesFailed, CorrectDivergence
<1>6. CASE SyncAnswered \/ SyncPositions \/ Tick \/ Crash \/ Restart
  BY <1>6, OnceUnchanged
  DEF SyncAnswered, SyncPositions, Tick, Crash, ForgetMemory, Restart
<1>7. ASSUME NEW t \in Trades, CrashInsideApplyFill(t)
      PROVE  OnceInv'
  <2>1. fills \subseteq fills' /\ applied' = {} /\ UNCHANGED <<credits, reversals>>
    BY <1>7 DEF CrashInsideApplyFill, ForgetMemory
  <2>2. QED
    BY <2>1 DEF OnceInv, OnceOf
<1>8. CASE UNCHANGED vars
  BY <1>8, OnceUnchanged DEF vars
<1>9. QED
  BY <1>1, <1>2, <1>3, <1>4, <1>5, <1>6, <1>7, <1>8 DEF Next, Deliver

\* Every reachable state meets it.
LEMMA OnceAlways == Spec => []OnceInv
<1>1. Init => OnceInv
  BY DEF Init, OnceInv, OnceOf
<1>2. TypeOK /\ OnceInv /\ [Next]_vars => OnceInv'
  BY OnceNext
<1>3. QED
  BY <1>1, <1>2, TypeCorrect, PTL DEF Spec

\* A fill is counted at most once and reversed at most once, whatever the
\* websocket repeats and however often the process restarts.
THEOREM AtMostOnce == Spec => []AppliedAtMostOnce
<1>1. OnceInv => AppliedAtMostOnce
  BY DEF OnceInv, OnceOf, AppliedAtMostOnce
<1>2. QED
  BY <1>1, OnceAlways, PTL

-----------------------------------------------------------------------------
(* The ledger implements OnceLedger.                                       *)

\* The entry of one trade depends on its counts and its fills row alone.
LEMMA BookFrame ==
    ASSUME UNCHANGED <<fills, credits, reversals>>
    PROVE  UNCHANGED Book
BY DEF Book, Entry

\* A step that changes the entry of one trade only.
LEMMA BookMove ==
    ASSUME NEW t \in Trades, NEW from, NEW to,
           Entry(t) = from, Entry(t)' = to,
           \A u \in Trades \ {t} : Entry(u)' = Entry(u)
    PROVE  Once!Move(t, from, to)
BY DEF Once!Move, Book

\* Every step is one of OnceLedger, or changes nothing of it.
LEMMA BookStep == TypeOK /\ OnceInv /\ [Next]_vars => [Once!Next]_Book
<1> SUFFICES ASSUME TypeOK, OnceInv, [Next]_vars
             PROVE  [Once!Next]_Book
  OBVIOUS
<1> USE DEF exchangeVars, diskVars, guardVars, taskVars, history
<1>0. credits \in [Trades -> Nat] /\ reversals \in [Trades -> Nat]
  BY DEF TypeOK
<1>1. ASSUME NEW t \in Trades, OnMatched(t)
      PROVE  Once!Count(t)
  <2>1. /\ fills' = fills \cup {<<t, "fill">>} /\ <<t, "fill">> \notin fills
        /\ credits' = [credits EXCEPT ![t] = @ + 1] /\ UNCHANGED reversals
    BY <1>1 DEF OnMatched, ApplyFill
  <2>2. credits[t] = 0 /\ reversals[t] = 0
    BY <2>1, NoRowNoCount
  <2>3. credits'[t] = 1 /\ reversals'[t] = 0
    BY <2>1, <2>2, <1>0
  <2>4. Entry(t) = "unseen" /\ Entry(t)' = "counted"
    BY <2>1, <2>2, <2>3 DEF Entry
  <2>5. ASSUME NEW u \in Trades \ {t}
        PROVE  Entry(u)' = Entry(u)
    <3>1. credits'[u] = credits[u] /\ reversals'[u] = reversals[u]
      BY <2>1, <1>0
    <3>2. <<u, "fill">> \in fills' <=> <<u, "fill">> \in fills
      BY <2>1
    <3>3. QED
      BY <3>1, <3>2 DEF Entry
  <2>6. QED
    BY <2>4, <2>5, BookMove DEF Once!Count
<1>2. ASSUME NEW t \in Trades, OnFailed(t)
      PROVE  Once!Reverse(t) \/ UNCHANGED Book
  <2>1. t \in applied /\ UNCHANGED credits
    BY <1>2 DEF OnFailed
  <2>2. CASE /\ ApplyFill(t, "reverse", -Signed[t])
             /\ reversals' = [reversals EXCEPT ![t] = @ + 1]
    <3>1. fills' = fills \cup {<<t, "reverse">>} /\ <<t, "reverse">> \notin fills
      BY <2>2 DEF ApplyFill
    <3>2. credits[t] = 1 /\ reversals[t] = 0
      BY <2>1, <3>1, AppliedCounts
    <3>3. credits'[t] = 1 /\ reversals'[t] = 1
      BY <2>1, <2>2, <3>2, <1>0
    <3>4. Entry(t) = "counted" /\ Entry(t)' = "reversed"
      BY <3>2, <3>3 DEF Entry
    <3>5. ASSUME NEW u \in Trades \ {t}
          PROVE  Entry(u)' = Entry(u)
      <4>1. credits'[u] = credits[u] /\ reversals'[u] = reversals[u]
        BY <2>1, <2>2, <1>0
      <4>2. <<u, "fill">> \in fills' <=> <<u, "fill">> \in fills
        BY <3>1
      <4>3. QED
        BY <4>1, <4>2 DEF Entry
    <3>6. QED
      BY <3>4, <3>5, BookMove DEF Once!Reverse
  <2>3. CASE UNCHANGED <<diskVars, positions, lastFill, reversals>>
    BY <2>1, <2>3, BookFrame
  <2>4. QED
    BY <1>2, <2>2, <2>3 DEF OnFailed
<1>3. ASSUME NEW t \in Trades, CrashInsideApplyFill(t)
      PROVE  Once!Lose(t) \/ UNCHANGED Book
  <2>1. UNCHANGED <<credits, reversals>>
    BY <1>3 DEF CrashInsideApplyFill
  <2>2. CASE <<t, "fill">> \notin fills /\ fills' = fills \cup {<<t, "fill">>}
    <3>1. credits[t] = 0 /\ reversals[t] = 0
      BY <2>2, NoRowNoCount
    <3>2. Entry(t) = "unseen" /\ Entry(t)' = "lost"
      BY <2>1, <2>2, <3>1 DEF Entry
    <3>3. ASSUME NEW u \in Trades \ {t}
          PROVE  Entry(u)' = Entry(u)
      <4>1. <<u, "fill">> \in fills' <=> <<u, "fill">> \in fills
        BY <2>2
      <4>2. QED
        BY <2>1, <4>1 DEF Entry
    <3>4. QED
      BY <3>2, <3>3, BookMove DEF Once!Lose
  <2>3. CASE fills' = fills \cup {<<t, "reverse">>}
    <3>1. \A u \in Trades : <<u, "fill">> \in fills' <=> <<u, "fill">> \in fills
      BY <2>3
    <3>2. \A u \in Trades : Entry(u)' = Entry(u)
      BY <2>1, <3>1 DEF Entry
    <3>3. QED
      BY <3>2 DEF Book
  <2>4. QED
    BY <1>3, <2>2, <2>3 DEF CrashInsideApplyFill
<1>4. ASSUME \/ Exchange \/ \E t \in Trades : OnConfirmed(t)
             \/ ReconcileLoop \/ SyncAnswered \/ SyncPositions
             \/ Tick \/ Crash \/ Restart \/ UNCHANGED vars
      PROVE  UNCHANGED Book
  <2>1. UNCHANGED <<fills, credits, reversals>>
    BY <1>4
    DEF Exchange, Match, Mine, Finish, OnConfirmed, SyncAnswered, SyncPositions, Tick,
        Crash, Restart, vars, ReconcileLoop, BeginRound, PositionsAnswered,
        ReconcilePositions, EndOrders, BalancesAnswered, BalancesFailed, CorrectDivergence
  <2>2. QED
    BY <2>1, BookFrame
<1>5. QED
  BY <1>1, <1>2, <1>3, <1>4 DEF Next, Deliver, Once!Next

\* The ledger refines OnceLedger: an entry moves from unseen to counted or
\* lost, from counted to reversed, and never otherwise.
THEOREM LedgerRefinesOnce == Spec => CountsOnce
<1>1. Init => Once!Init
  BY DEF Init, Once!Init, Book, Entry
<1>2. TypeOK /\ OnceInv /\ [Next]_vars => [Once!Next]_Book
  BY BookStep
<1>3. QED
  BY <1>1, <1>2, TypeCorrect, OnceAlways, PTL DEF Spec, CountsOnce, Once!Spec

-----------------------------------------------------------------------------
(* The in-flight guards.                                                   *)

\* The two guard properties, of one token.
GuardOf(tok) ==
    /\ inflight[tok] > 0 <=> guardAge[tok] # None
    /\ inflight[tok] <= Cardinality(Unsettled(tok))
    /\ tok \notin expired => inflight[tok] = Cardinality(Unsettled(tok))

\* Every token's guard counts what is under way.
GuardInv == \A tok \in Tokens : GuardOf(tok)

\* The unsettled fills of a token are finitely many.
LEMMA UnsettledFinite ==
    ASSUME NEW tok \in Tokens, TypeOK
    PROVE  IsFiniteSet(Unsettled(tok)) /\ Cardinality(Unsettled(tok)) \in Nat
<1>1. Unsettled(tok) \subseteq Trades
  BY DEF Unsettled, TypeOK
<1>2. IsFiniteSet(Unsettled(tok))
  BY <1>1, LedgerAssumption, FS_Subset
<1>3. QED
  BY <1>2, FS_CardinalityType

\* Applying a fill adds one unsettled fill to its token and none elsewhere.
LEMMA UnsettledAdd ==
    ASSUME TypeOK, NEW t \in Trades, t \notin applied, applied' = applied \cup {t}
    PROVE  /\ Cardinality(Unsettled(TokenOf[t])') = Cardinality(Unsettled(TokenOf[t])) + 1
           /\ \A tok \in Tokens \ {TokenOf[t]} : Unsettled(tok)' = Unsettled(tok)
<1>1. TokenOf[t] \in Tokens
  BY LedgerAssumption
<1>2. Unsettled(TokenOf[t])' = Unsettled(TokenOf[t]) \cup {t} /\ t \notin Unsettled(TokenOf[t])
  BY DEF Unsettled
<1>3. Cardinality(Unsettled(TokenOf[t])') = Cardinality(Unsettled(TokenOf[t])) + 1
  BY <1>1, <1>2, UnsettledFinite, FS_AddElement
<1>4. \A tok \in Tokens \ {TokenOf[t]} : Unsettled(tok)' = Unsettled(tok)
  BY DEF Unsettled
<1>5. QED
  BY <1>3, <1>4

\* Settling or reversing a fill takes it from its token.
LEMMA UnsettledRemove ==
    ASSUME TypeOK, NEW t \in applied, applied' = applied \ {t}
    PROVE  /\ Cardinality(Unsettled(TokenOf[t])) >= 1
           /\ Cardinality(Unsettled(TokenOf[t])') = Cardinality(Unsettled(TokenOf[t])) - 1
           /\ \A tok \in Tokens \ {TokenOf[t]} : Unsettled(tok)' = Unsettled(tok)
<1>1. t \in Trades /\ TokenOf[t] \in Tokens
  BY LedgerAssumption DEF TypeOK
<1> DEFINE U == Unsettled(TokenOf[t])
<1>2. IsFiniteSet(U) /\ Cardinality(U) \in Nat /\ t \in U /\ U' = U \ {t}
  BY <1>1, UnsettledFinite DEF Unsettled
<1>3. IsFiniteSet(U \ {t}) /\ Cardinality(U \ {t}) = Cardinality(U) - 1
  BY <1>2, FS_RemoveElement
<1>4. Cardinality(U \ {t}) \in Nat
  BY <1>3, FS_CardinalityType
<1>5. \A tok \in Tokens \ {TokenOf[t]} : Unsettled(tok)' = Unsettled(tok)
  BY DEF Unsettled
<1>6. Cardinality(U) >= 1
  BY <1>2, <1>3, <1>4
<1>7. Cardinality(U') = Cardinality(U) - 1
  BY <1>2, <1>3
<1>8. QED
  BY <1>5, <1>6, <1>7

\* Settling a fill of t gives its guard back.
LEMMA GuardRelease ==
    ASSUME TypeOK, GuardInv, NEW t \in applied, applied' = applied \ {t},
           ClearInflight(TokenOf[t]), UNCHANGED expired
    PROVE  GuardInv'
<1>1. t \in Trades /\ TokenOf[t] \in Tokens
  BY LedgerAssumption DEF TypeOK
<1> DEFINE tk == TokenOf[t]
           c  == Cardinality(Unsettled(tk))
           cc == Cardinality(Unsettled(tk)')
<1>2. c \in Nat /\ c >= 1 /\ cc = c - 1
  BY <1>1, UnsettledFinite, UnsettledRemove
<1>3. inflight[tk] \in Nat /\ inflight \in [Tokens -> Nat] /\ DOMAIN guardAge = Tokens
  BY <1>1 DEF TypeOK
<1>4. GuardOf(tk)
  BY <1>1 DEF GuardInv
<1>5. inflight'[tk] = Clamp(inflight[tk] - 1)
  BY <1>1, <1>3 DEF ClearInflight
<1>6. guardAge'[tk] = IF inflight'[tk] = 0 THEN None ELSE guardAge[tk]
  BY <1>1, <1>3, <1>5 DEF ClearInflight
<1>7. inflight[tk] <= c /\ (tk \notin expired => inflight[tk] = c)
  BY <1>4 DEF GuardOf
<1>8. inflight'[tk] \in Nat /\ inflight'[tk] <= cc /\ (tk \notin expired => inflight'[tk] = cc)
  BY <1>2, <1>3, <1>5, <1>7 DEF Clamp
<1>9. inflight'[tk] > 0 <=> guardAge'[tk] # None
  <2>1. CASE inflight'[tk] = 0
    BY <2>1, <1>6
  <2>2. CASE inflight'[tk] # 0
    <3>1. inflight[tk] > 0
      BY <2>2, <1>3, <1>5 DEF Clamp
    <3>2. guardAge[tk] # None
      BY <3>1, <1>4 DEF GuardOf
    <3>3. inflight'[tk] > 0
      BY <2>2, <1>8
    <3>4. QED
      BY <2>2, <3>2, <3>3, <1>6
  <2>3. QED
    BY <2>1, <2>2
<1>10. GuardOf(tk)'
  BY <1>8, <1>9 DEF GuardOf
<1>11. ASSUME NEW tok \in Tokens \ {tk}
       PROVE  GuardOf(tok)'
  <2>1. inflight'[tok] = inflight[tok] /\ guardAge'[tok] = guardAge[tok]
    BY <1>3 DEF ClearInflight
  <2>2. Unsettled(tok)' = Unsettled(tok)
    BY <1>1, UnsettledRemove
  <2>3. GuardOf(tok)
    BY DEF GuardInv
  <2>4. QED
    BY <2>1, <2>2, <2>3 DEF GuardOf
<1>12. QED
  BY <1>10, <1>11 DEF GuardInv

\* Steps that touch neither guards nor unsettled fills.
LEMMA GuardUnchanged ==
    ASSUME GuardInv, UNCHANGED <<guardVars, applied>>
    PROVE  GuardInv'
BY DEF GuardInv, GuardOf, Unsettled, guardVars

\* A restart, which forgets them all, keeps this.
LEMMA GuardForget ==
    ASSUME ForgetMemory
    PROVE  GuardInv'
<1>1. \A tok \in Tokens : Unsettled(tok)' = {}
  BY DEF ForgetMemory, Unsettled
<1>2. \A tok \in Tokens : inflight'[tok] = 0 /\ guardAge'[tok] = None
  BY DEF ForgetMemory
<1>3. Cardinality({}) = 0
  BY FS_EmptySet
<1>4. ASSUME NEW tok \in Tokens PROVE GuardOf(tok)'
  BY <1>1, <1>2, <1>3 DEF GuardOf
<1>5. QED
  BY <1>4 DEF GuardInv

\* Counting a fill of t takes a guard for it.
LEMMA GuardTake ==
    ASSUME TypeOK, GuardInv, NEW t \in Trades, t \notin applied,
           applied' = applied \cup {t}, MarkInflight(TokenOf[t]), UNCHANGED expired
    PROVE  GuardInv'
<1>1. TokenOf[t] \in Tokens
  BY LedgerAssumption
<1> DEFINE tk == TokenOf[t]
           c  == Cardinality(Unsettled(tk))
           cc == Cardinality(Unsettled(tk)')
<1>2. c \in Nat /\ cc = c + 1
  BY <1>1, UnsettledFinite, UnsettledAdd
<1>3. inflight[tk] \in Nat /\ DOMAIN inflight = Tokens /\ DOMAIN guardAge = Tokens
  BY <1>1 DEF TypeOK
<1>4. GuardOf(tk)
  BY <1>1 DEF GuardInv
<1>5. inflight'[tk] = inflight[tk] + 1
  BY <1>1, <1>3 DEF MarkInflight
<1>6. guardAge'[tk] = IF guardAge[tk] = None THEN 0 ELSE guardAge[tk]
  BY <1>1, <1>3 DEF MarkInflight
<1>7. inflight'[tk] > 0 /\ inflight'[tk] <= cc /\ (tk \notin expired => inflight'[tk] = cc)
  BY <1>2, <1>3, <1>4, <1>5 DEF GuardOf
<1>8. None # 0
  BY LedgerAssumption
<1>9. guardAge'[tk] # None
  BY <1>6, <1>8
<1>10. GuardOf(tk)'
  BY <1>7, <1>9 DEF GuardOf
<1>11. ASSUME NEW tok \in Tokens \ {tk}
       PROVE  GuardOf(tok)'
  <2>1. inflight'[tok] = inflight[tok] /\ guardAge'[tok] = guardAge[tok]
    BY <1>3 DEF MarkInflight
  <2>2. Unsettled(tok)' = Unsettled(tok)
    BY UnsettledAdd
  <2>3. GuardOf(tok)
    BY DEF GuardInv
  <2>4. QED
    BY <2>1, <2>2, <2>3 DEF GuardOf
<1>12. QED
  BY <1>10, <1>11 DEF GuardInv

\* A round of the reconcile loop gives up the guards it finds too old.
LEMMA GuardExpire ==
    ASSUME TypeOK, GuardInv, BeginRound
    PROVE  GuardInv'
<1>1. applied' = applied /\ expired' = expired \cup StaleGuards
  BY DEF BeginRound
<1>2. ASSUME NEW tok \in Tokens
      PROVE  GuardOf(tok)'
  <2>1. Unsettled(tok)' = Unsettled(tok) /\ Cardinality(Unsettled(tok)) \in Nat
    BY <1>1, UnsettledFinite DEF Unsettled
  <2>2. GuardOf(tok)
    BY DEF GuardInv
  <2>3. CASE tok \in StaleGuards
    <3>1. inflight'[tok] = 0 /\ guardAge'[tok] = None
      BY <2>3 DEF BeginRound
    <3>2. QED
      BY <1>1, <2>1, <2>3, <3>1 DEF GuardOf
  <2>4. CASE tok \notin StaleGuards
    <3>1. inflight'[tok] = inflight[tok] /\ guardAge'[tok] = guardAge[tok]
      BY <2>4 DEF BeginRound
    <3>2. QED
      BY <1>1, <2>1, <2>2, <3>1 DEF GuardOf
  <2>5. QED
    BY <2>3, <2>4
<1>3. QED
  BY <1>2 DEF GuardInv

\* A guard grows older, but no guard loses or gains its time stamp by it.
LEMMA GuardTick ==
    ASSUME TypeOK, GuardInv, Tick
    PROVE  GuardInv'
<1>1. UNCHANGED <<inflight, expired, applied>>
  BY DEF Tick
<1>2. ASSUME NEW tok \in Tokens
      PROVE  guardAge'[tok] # None <=> guardAge[tok] # None
  <2>1. guardAge[tok] # None => guardAge[tok] + 1 # None
    BY LedgerAssumption DEF TypeOK
  <2>2. QED
    BY <2>1 DEF Tick
<1>3. QED
  BY <1>1, <1>2 DEF GuardInv, GuardOf, Unsettled

\* Every step keeps this.
LEMMA GuardNext == TypeOK /\ GuardInv /\ [Next]_vars => GuardInv'
<1> SUFFICES ASSUME TypeOK, GuardInv, [Next]_vars
             PROVE  GuardInv'
  OBVIOUS
<1>1. ASSUME NEW t \in Trades, OnMatched(t)
      PROVE  GuardInv'
  BY <1>1, GuardTake DEF OnMatched
<1>2. ASSUME NEW t \in Trades, OnConfirmed(t) \/ OnFailed(t)
      PROVE  GuardInv'
  BY <1>2, GuardRelease DEF OnConfirmed, OnFailed
<1>3. CASE BeginRound
  BY <1>3, GuardExpire
<1>4. CASE Tick
  BY <1>4, GuardTick
<1>5. CASE Crash \/ \E t \in Trades : CrashInsideApplyFill(t)
  BY <1>5, GuardForget DEF Crash, CrashInsideApplyFill
<1>6. CASE \/ Exchange \/ PositionsAnswered \/ ReconcilePositions \/ EndOrders
           \/ BalancesAnswered \/ BalancesFailed \/ CorrectDivergence
           \/ SyncAnswered \/ SyncPositions \/ Restart \/ UNCHANGED vars
  <2>1. UNCHANGED <<guardVars, applied>>
    BY <1>6
    DEF Exchange, Match, Mine, Finish, PositionsAnswered, ReconcilePositions, EndOrders,
        BalancesAnswered, BalancesFailed, CorrectDivergence, SyncAnswered, SyncPositions,
        Restart, vars
  <2>2. QED
    BY <2>1, GuardUnchanged
<1>7. QED
  BY <1>1, <1>2, <1>3, <1>4, <1>5, <1>6 DEF Next, Deliver, ReconcileLoop

\* The initial states meet it.
LEMMA GuardInit == Init => GuardInv
<1> SUFFICES ASSUME Init PROVE GuardInv
  OBVIOUS
<1>1. ASSUME NEW tok \in Tokens
      PROVE  GuardOf(tok)
  <2>1. Unsettled(tok) = {} /\ inflight[tok] = 0 /\ guardAge[tok] = None
    BY DEF Init, Unsettled
  <2>2. QED
    BY <2>1, FS_EmptySet DEF GuardOf
<1>2. QED
  BY <1>1 DEF GuardInv

\* Every reachable state meets it.
LEMMA GuardAlways == Spec => []GuardInv
<1>1. QED
  BY GuardInit, GuardNext, TypeCorrect, PTL DEF Spec

\* Every guard can expire: it has the time stamp expire_inflight looks at.
THEOREM GuardsCanExpire == Spec => []GuardsAreStamped
<1>1. GuardInv => GuardsAreStamped
  BY DEF GuardInv, GuardOf, GuardsAreStamped
<1>2. QED
  BY <1>1, GuardAlways, PTL

\* The guard of a token counts its unsettled fills, whatever order the
\* messages of its trades arrive in, until a guard of the token is expired.
THEOREM GuardsExact == Spec => []GuardsCountUnsettled
<1>1. GuardInv => GuardsCountUnsettled
  BY DEF GuardInv, GuardOf, GuardsCountUnsettled
<1>2. QED
  BY <1>1, GuardAlways, PTL

\* Reconciliation rewrites a position only where nothing is unsettled or a
\* guard has been expired, whatever the answer it applies and its age.
THEOREM RestSpares == Spec => RestSparesInFlight
<1>1. ASSUME TypeOK, GuardInv, ReconcilePositions \/ SyncPositions,
             NEW tok \in Tokens, positions'[tok] # positions[tok]
      PROVE  Unsettled(tok) = {} \/ tok \in expired
  <2>1. inflight[tok] = 0
    BY <1>1 DEF ReconcilePositions, SyncPositions, SetPositions, Reconciled
  <2>2. tok \notin expired => Cardinality(Unsettled(tok)) = 0
    BY <1>1, <2>1 DEF GuardInv, GuardOf
  <2>3. Cardinality(Unsettled(tok)) = 0 => Unsettled(tok) = {}
    BY <1>1, UnsettledFinite, FS_EmptySet
  <2>4. QED
    BY <2>2, <2>3
<1>2. TypeOK /\ GuardInv =>
        [ReconcilePositions \/ SyncPositions =>
           \A tok \in Tokens :
             positions'[tok] # positions[tok] => Unsettled(tok) = {} \/ tok \in expired]_vars
  BY <1>1
<1>3. QED
  BY <1>2, TypeCorrect, GuardAlways, PTL DEF RestSparesInFlight

=============================================================================
