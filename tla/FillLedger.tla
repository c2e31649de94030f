----------------------------- MODULE FillLedger -----------------------------
(***************************************************************************)
(* The position ledger of the market maker: StateStore (state/store.py),   *)
(* UserEventProcessor (state/tracker.py), the cash side of RiskManager     *)
(* (risk/manager.py) and the engine's readers of remote positions: the     *)
(* reconcile loop, the on-chain divergence check and the position sync of  *)
(* a quoter (engine.py).                                                   *)
(*                                                                         *)
(* Everything runs in one asyncio process, so a handler is one atomic step *)
(* and interleavings happen only at awaits: a remote read is split into    *)
(* the step that issues it, the step in which the server answers and the   *)
(* step that uses the answer.                                              *)
(*                                                                         *)
(* The user websocket promises nothing: a message of a trade can be        *)
(* delivered at any time after the exchange produced it, in any order, any *)
(* number of times, or never.  Prices are abstracted to 1, so cash and     *)
(* shares are in one unit.                                                 *)
(***************************************************************************)
EXTENDS Integers, FiniteSets

CONSTANTS
    Tokens,          \* the outcome tokens the engine trades
    Trades,          \* the trades our resting orders may be matched in
    TokenOf,         \* TokenOf[t]: the token of trade t
    Signed,          \* Signed[t]: shares of t, positive for BUY and negative for SELL
    Held,            \* Held[tok]: shares held when the ledger starts
    RecentFill,      \* ticks a fill stays "very recent" (5 s in the code)
    MaxInflightAge,  \* ticks after which a guard is stale (2 * reconcile_interval_s)
    AuditEvery,      \* reconcile rounds per divergence check (4 in the code)
    MaxCrashes,      \* bound: number of process crashes
    None             \* no time stamp, no trade

ASSUME LedgerAssumption ==
    /\ IsFiniteSet(Trades)
    /\ TokenOf \in [Trades -> Tokens]
    /\ Signed \in [Trades -> Int]
    /\ Held \in [Tokens -> Nat]
    /\ MaxInflightAge \in Nat /\ RecentFill \in 0..(MaxInflightAge + 1)
    /\ AuditEvery \in Nat \ {0} /\ MaxCrashes \in Nat
    /\ None \notin Nat /\ None \notin Trades

VARIABLES
    \* the exchange and the chain (external)
    status,       \* status[t]: the life cycle of trade t at the exchange
    chain,        \* chain[tok]: the settled on-chain balance
    matchAge,     \* matchAge[t]: ticks since the match (fill.ts), up to MaxInflightAge + 1
    \* SQLite, which survives a crash
    fills,        \* ids in the fills table: the dedupe gate of apply_fill
    dbPositions,  \* the positions table
    \* memory of the process
    up,           \* the process runs
    positions,    \* StateStore.positions, 0 where there is no entry
    inflight,     \* StateStore._inflight
    guardAge,     \* age of StateStore._inflight_ts, None where there is no entry
    lastFill,     \* the trade whose ts is in StateStore._last_fill_ts
    applied,      \* UserEventProcessor._applied
    netCash,      \* RiskManager._net_cash
    loop,         \* the reconcile loop: its await, its round, what it has read
    sync,         \* the position sync of a quoter: its await and what it has read
    crashes,
    \* history
    credits,      \* credits[t]: how often t's fill was added to the position
    reversals,    \* reversals[t]: how often it was taken back
    expired       \* tokens of which this process has expired a guard

exchangeVars == <<status, chain, matchAge>>
diskVars     == <<fills, dbPositions>>
guardVars    == <<inflight, guardAge, expired>>
taskVars     == <<loop, sync>>
history      == <<credits, reversals>>
vars == <<exchangeVars, diskVars, guardVars, taskVars, history,
          up, positions, lastFill, applied, netCash, crashes>>

Status   == {"none", "MATCHED", "MINED", "CONFIRMED", "FAILED"}
FillIds  == Trades \X {"fill", "reverse"}
Shares   == [Tokens -> Nat]
NoShares == [tok \in Tokens |-> 0]
Asleep   == [at |-> "sleep", round |-> 0, toks |-> {}, answer |-> NoShares]
NoSync   == [at |-> "idle", answer |-> NoShares]

\* Mutant: the floor at zero is dropped.
NoClamp(n) == n

Clamp(n) == IF n < 0 THEN 0 ELSE n

\* Trades of a token whose optimistic fill is not settled yet.
Unsettled(tok) == {t \in applied : TokenOf[t] = tok}

-----------------------------------------------------------------------------
(* The exchange, seen through the calls and messages the engine handles.   *)

\* A match needs the shares it sells.
Match(t) ==
    /\ status[t] = "none"
    /\ chain[TokenOf[t]] + Signed[t] >= 0
    /\ status' = [status EXCEPT ![t] = "MATCHED"]
    /\ matchAge' = [matchAge EXCEPT ![t] = 0]
    /\ UNCHANGED <<chain, diskVars, guardVars, taskVars, history,
                   up, positions, lastFill, applied, netCash, crashes>>

Mine(t) ==
    /\ status[t] = "MATCHED"
    /\ chain[TokenOf[t]] + Signed[t] >= 0
    /\ status' = [status EXCEPT ![t] = "MINED"]
    /\ chain' = [chain EXCEPT ![TokenOf[t]] = @ + Signed[t]]
    /\ UNCHANGED <<matchAge, diskVars, guardVars, taskVars, history,
                   up, positions, lastFill, applied, netCash, crashes>>

Finish(t) ==
    /\ \/ status[t] = "MINED"   /\ status' = [status EXCEPT ![t] = "CONFIRMED"]
       \/ status[t] = "MATCHED" /\ status' = [status EXCEPT ![t] = "FAILED"]
    /\ UNCHANGED <<chain, matchAge, diskVars, guardVars, taskVars, history,
                   up, positions, lastFill, applied, netCash, crashes>>

-----------------------------------------------------------------------------
(* StateStore and UserEventProcessor.                                      *)

\* Mutant: the rowcount of INSERT OR IGNORE is not looked at.
ApplyFillAgain(t, kind, signed) ==
    /\ fills' = fills \cup {<<t, kind>>}
    /\ positions' = [positions EXCEPT ![TokenOf[t]] = Clamp(@ + signed)]
    /\ dbPositions' = [dbPositions EXCEPT ![TokenOf[t]] = Clamp(positions[TokenOf[t]] + signed)]
    /\ lastFill' = [lastFill EXCEPT ![TokenOf[t]] = t]

\* apply_fill past its dedupe gate: INSERT OR IGNORE found no row.
ApplyFill(t, kind, signed) ==
    /\ <<t, kind>> \notin fills
    /\ fills' = fills \cup {<<t, kind>>}
    /\ positions' = [positions EXCEPT ![TokenOf[t]] = Clamp(@ + signed)]
    /\ dbPositions' = [dbPositions EXCEPT ![TokenOf[t]] = Clamp(positions[TokenOf[t]] + signed)]
    /\ lastFill' = [lastFill EXCEPT ![TokenOf[t]] = t]

MarkInflight(tok) ==
    /\ inflight' = [inflight EXCEPT ![tok] = @ + 1]
    /\ guardAge' = [guardAge EXCEPT ![tok] = IF @ = None THEN 0 ELSE @]

ClearInflight(tok) ==
    LET left == Clamp(inflight[tok] - 1) IN
    /\ inflight' = [inflight EXCEPT ![tok] = left]
    /\ guardAge' = [guardAge EXCEPT ![tok] = IF left = 0 THEN None ELSE @]

\* A MATCHED of a known fill stops at `_applied` or at the fills table.
OnMatched(t) ==
    /\ up
    /\ status[t] # "none"
    /\ t \notin applied
    /\ ApplyFill(t, "fill", Signed[t])
    /\ MarkInflight(TokenOf[t])
    /\ applied' = applied \cup {t}
    /\ netCash' = netCash - Signed[t]
    /\ credits' = [credits EXCEPT ![t] = @ + 1]
    /\ UNCHANGED <<exchangeVars, taskVars, up, crashes, reversals, expired>>

\* Mutant: a repeated CONFIRMED clears a guard that is not its own.
OnConfirmedAgain(t) ==
    /\ up
    /\ status[t] = "CONFIRMED"
    /\ ClearInflight(TokenOf[t])
    /\ applied' = applied \ {t}
    /\ UNCHANGED <<exchangeVars, diskVars, taskVars, history,
                   up, positions, lastFill, netCash, crashes, expired>>

OnConfirmed(t) ==
    /\ up
    /\ status[t] = "CONFIRMED"
    /\ t \in applied
    /\ ClearInflight(TokenOf[t])
    /\ applied' = applied \ {t}
    /\ UNCHANGED <<exchangeVars, diskVars, taskVars, history,
                   up, positions, lastFill, netCash, crashes, expired>>

\* The reversal goes through the same gate under its own id; risk is not told.
OnFailed(t) ==
    /\ up
    /\ status[t] = "FAILED"
    /\ t \in applied
    /\ \/ /\ ApplyFill(t, "reverse", -Signed[t])
          /\ reversals' = [reversals EXCEPT ![t] = @ + 1]
       \/ /\ <<t, "reverse">> \in fills
          /\ UNCHANGED <<diskVars, positions, lastFill, reversals>>
    /\ ClearInflight(TokenOf[t])
    /\ applied' = applied \ {t}
    /\ UNCHANGED <<exchangeVars, taskVars, up, netCash, crashes, credits, expired>>

-----------------------------------------------------------------------------
(* Remote positions.                                                       *)

Recent(tok) == lastFill[tok] # None /\ matchAge[lastFill[tok]] < RecentFill

\* Mutant: the in-flight guard is not consulted.
ReconciledBlindly(answer) ==
    [tok \in Tokens |->
        IF answer[tok] > 0 /\ ~Recent(tok) THEN answer[tok] ELSE positions[tok]]

\* reconcile_positions: the response lists only tokens held, a failed read none.
Reconciled(answer) ==
    [tok \in Tokens |->
        IF answer[tok] > 0 /\ inflight[tok] = 0 /\ ~Recent(tok)
        THEN answer[tok] ELSE positions[tok]]

SetPositions(p) == positions' = p /\ dbPositions' = p

\* A read of the Data API answers the settled balances, or fails.
Answers == {chain, NoShares}

\* Mutant: guards never expire.
NeverStale == {}

StaleGuards ==
    {tok \in Tokens : guardAge[tok] # None /\ guardAge[tok] > MaxInflightAge}

BeginRound ==
    /\ up
    /\ loop.at = "sleep"
    /\ inflight' = [tok \in Tokens |-> IF tok \in StaleGuards THEN 0 ELSE inflight[tok]]
    /\ guardAge' = [tok \in Tokens |-> IF tok \in StaleGuards THEN None ELSE guardAge[tok]]
    /\ expired' = expired \cup StaleGuards
    /\ loop' = [loop EXCEPT !.at = "positions", !.round = (@ + 1) % AuditEvery]
    /\ UNCHANGED <<exchangeVars, diskVars, history, sync,
                   up, positions, lastFill, applied, netCash, crashes>>

PositionsAnswered ==
    /\ up
    /\ loop.at = "positions"
    /\ \E a \in Answers : loop' = [loop EXCEPT !.at = "reconcile", !.answer = a]
    /\ UNCHANGED <<exchangeVars, diskVars, guardVars, history, sync,
                   up, positions, lastFill, applied, netCash, crashes>>

ReconcilePositions ==
    /\ up
    /\ loop.at = "reconcile"
    /\ SetPositions(Reconciled(loop.answer))
    /\ loop' = [loop EXCEPT !.at = "orders", !.answer = NoShares]
    /\ UNCHANGED <<exchangeVars, fills, guardVars, history, sync,
                   up, lastFill, applied, netCash, crashes>>

\* Mutant: the guard test of the divergence check is inverted.
GuardedTokens == {tok \in Tokens : inflight[tok] > 0}

UnguardedTokens == {tok \in Tokens : inflight[tok] = 0}

\* After the orders' part of the round: every AuditEvery-th round goes on to
\* _check_position_divergence, which picks the unguarded tokens and awaits.
EndOrders ==
    /\ up
    /\ loop.at = "orders"
    /\ loop' = IF loop.round = 0
               THEN [loop EXCEPT !.at = "balances", !.toks = UnguardedTokens]
               ELSE [loop EXCEPT !.at = "sleep"]
    /\ UNCHANGED <<exchangeVars, diskVars, guardVars, history, sync,
                   up, positions, lastFill, applied, netCash, crashes>>

BalancesAnswered ==
    /\ up
    /\ loop.at = "balances"
    /\ loop' = [loop EXCEPT !.at = "correct", !.answer = chain]
    /\ UNCHANGED <<exchangeVars, diskVars, guardVars, history, sync,
                   up, positions, lastFill, applied, netCash, crashes>>

BalancesFailed ==
    /\ up
    /\ loop.at = "balances"
    /\ loop' = [loop EXCEPT !.at = "sleep", !.toks = {}]
    /\ UNCHANGED <<exchangeVars, diskVars, guardVars, history, sync,
                   up, positions, lastFill, applied, netCash, crashes>>

\* abs(internal - chain_size) > max(1.0, 0.02 * chain_size)
Drifted(internal, onchain) ==
    LET gap == IF internal > onchain THEN internal - onchain ELSE onchain - internal
    IN  gap > 1 /\ 50 * gap > onchain

CorrectDivergence ==
    /\ up
    /\ loop.at = "correct"
    /\ SetPositions([tok \in Tokens |->
          IF tok \in loop.toks /\ Drifted(positions[tok], loop.answer[tok])
          THEN loop.answer[tok] ELSE positions[tok]])
    /\ loop' = [loop EXCEPT !.at = "sleep", !.toks = {}, !.answer = NoShares]
    /\ UNCHANGED <<exchangeVars, fills, guardVars, history, sync,
                   up, lastFill, applied, netCash, crashes>>

\* _sync_positions_for_market, called by a quoter after a soft rejection.
SyncAnswered ==
    /\ up
    /\ sync.at = "idle"
    /\ sync' = [at |-> "reconcile", answer |-> chain]
    /\ UNCHANGED <<exchangeVars, diskVars, guardVars, history, loop,
                   up, positions, lastFill, applied, netCash, crashes>>

SyncPositions ==
    /\ up
    /\ sync.at = "reconcile"
    /\ SetPositions(Reconciled(sync.answer))
    /\ sync' = NoSync
    /\ UNCHANGED <<exchangeVars, fills, guardVars, history, loop,
                   up, lastFill, applied, netCash, crashes>>

-----------------------------------------------------------------------------
(* Time, crashes and restarts.                                             *)

Tick ==
    /\ guardAge' = [tok \in Tokens |->
          IF guardAge[tok] = None \/ guardAge[tok] > MaxInflightAge
          THEN guardAge[tok] ELSE guardAge[tok] + 1]
    /\ matchAge' = [t \in Trades |->
          IF status[t] = "none" \/ matchAge[t] > MaxInflightAge
          THEN matchAge[t] ELSE matchAge[t] + 1]
    /\ UNCHANGED <<status, chain, diskVars, inflight, expired, taskVars, history,
                   up, positions, lastFill, applied, netCash, crashes>>

\* What a fresh process starts from: nothing in flight, no task awaiting.
ForgetMemory ==
    /\ positions' = NoShares
    /\ inflight' = [tok \in Tokens |-> 0]
    /\ guardAge' = [tok \in Tokens |-> None]
    /\ lastFill' = [tok \in Tokens |-> None]
    /\ applied' = {}
    /\ netCash' = 0
    /\ loop' = Asleep
    /\ sync' = NoSync
    /\ expired' = {}

CanCrash == up /\ crashes < MaxCrashes /\ up' = FALSE /\ crashes' = crashes + 1

Crash ==
    /\ CanCrash
    /\ ForgetMemory
    /\ UNCHANGED <<exchangeVars, diskVars, history>>

\* apply_fill commits the fills row before, and apart from, the position row.
CrashInsideApplyFill(t) ==
    /\ CanCrash
    /\ \/ status[t] # "none" /\ t \notin applied /\ <<t, "fill">> \notin fills
          /\ fills' = fills \cup {<<t, "fill">>}
       \/ status[t] = "FAILED" /\ t \in applied /\ <<t, "reverse">> \notin fills
          /\ fills' = fills \cup {<<t, "reverse">>}
    /\ ForgetMemory
    /\ UNCHANGED <<exchangeVars, dbPositions, history>>

\* _load, then _startup_reconcile, before any websocket event is handled.
Restart ==
    /\ ~up
    /\ up' = TRUE
    /\ \E a \in Answers :
          SetPositions([tok \in Tokens |-> IF a[tok] > 0 THEN a[tok] ELSE dbPositions[tok]])
    /\ UNCHANGED <<exchangeVars, fills, guardVars, taskVars, history,
                   lastFill, applied, netCash, crashes>>

-----------------------------------------------------------------------------
Init ==
    /\ status = [t \in Trades |-> "none"]
    /\ chain = Held
    /\ matchAge = [t \in Trades |-> 0]
    /\ fills = {}
    /\ dbPositions = Held
    /\ up = TRUE
    /\ positions = Held
    /\ inflight = [tok \in Tokens |-> 0]
    /\ guardAge = [tok \in Tokens |-> None]
    /\ lastFill = [tok \in Tokens |-> None]
    /\ applied = {}
    /\ netCash = 0
    /\ loop = Asleep
    /\ sync = NoSync
    /\ crashes = 0
    /\ credits = [t \in Trades |-> 0]
    /\ reversals = [t \in Trades |-> 0]
    /\ expired = {}

Exchange == \E t \in Trades : Match(t) \/ Mine(t) \/ Finish(t)
Deliver  == \E t \in Trades : OnMatched(t) \/ OnConfirmed(t) \/ OnFailed(t)

ReconcileLoop ==
    \/ BeginRound
    \/ PositionsAnswered
    \/ ReconcilePositions
    \/ EndOrders
    \/ BalancesAnswered
    \/ BalancesFailed
    \/ CorrectDivergence

Next ==
    \/ Exchange
    \/ Deliver
    \/ ReconcileLoop
    \/ SyncAnswered
    \/ SyncPositions
    \/ Tick
    \/ Crash
    \/ \E t \in Trades : CrashInsideApplyFill(t)
    \/ Restart

\* The event loop keeps scheduling the reconcile task and its supervisor
\* restarts the process; the RPC providers answer if asked often enough.
Fairness ==
    /\ WF_vars(ReconcileLoop)
    /\ SF_vars(BalancesAnswered)
    /\ WF_vars(SyncPositions)
    /\ WF_vars(Tick)
    /\ WF_vars(Restart)

Spec     == Init /\ [][Next]_vars
FairSpec == Spec /\ Fairness

-----------------------------------------------------------------------------
(* Properties.                                                             *)

\* Every variable has its type, and what the code clamps stays in range.
TypeOK ==
    /\ status \in [Trades -> Status]
    /\ chain \in Shares
    /\ matchAge \in [Trades -> 0..(MaxInflightAge + 1)]
    /\ fills \subseteq FillIds
    /\ dbPositions \in Shares
    /\ up \in BOOLEAN
    /\ positions \in Shares
    /\ inflight \in [Tokens -> Nat]
    /\ guardAge \in [Tokens -> (0..(MaxInflightAge + 1)) \cup {None}]
    /\ lastFill \in [Tokens -> Trades \cup {None}]
    /\ applied \subseteq Trades
    /\ netCash \in Int
    /\ loop \in [at : {"sleep", "positions", "reconcile", "orders", "balances", "correct"},
                 round : 0..(AuditEvery - 1), toks : SUBSET Tokens, answer : Shares]
    /\ sync \in [at : {"idle", "reconcile"}, answer : Shares]
    /\ crashes \in 0..MaxCrashes
    /\ credits \in [Trades -> Nat]
    /\ reversals \in [Trades -> Nat]
    /\ expired \subseteq Tokens

\* Whatever the websocket repeats or reorders, and however often the process
\* restarts, a fill reaches the position at most once and is taken back at
\* most once, and only after it was counted (apply_fill, on_trade).
AppliedAtMostOnce ==
    \A t \in Trades : credits[t] <= 1 /\ reversals[t] <= credits[t]

\* A guard always has a time stamp to expire by, so that no token is blocked
\* from reconciliation for ever (mark_inflight, clear_inflight, expire_inflight).
GuardsAreStamped ==
    \A tok \in Tokens : inflight[tok] > 0 <=> guardAge[tok] # None

\* The guard of a token never counts more than the fills still unsettled
\* there, and exactly those until a guard of the token has been expired.
GuardsCountUnsettled ==
    \A tok \in Tokens :
        /\ inflight[tok] <= Cardinality(Unsettled(tok))
        /\ tok \notin expired => inflight[tok] = Cardinality(Unsettled(tok))

\* A REST answer, however stale, never overwrites the position of a token
\* with an unsettled fill, unless this process expired a guard there
\* ("REST reconciliation corrects drift ONLY for tokens with no in-flight
\* trades", state/store.py:7).
RestSparesInFlight ==
    [][ReconcilePositions \/ SyncPositions =>
         \A tok \in Tokens :
             positions'[tok] # positions[tok] => Unsettled(tok) = {} \/ tok \in expired]_vars

\* The ledger keeps the promise of OnceLedger.
Entry(t) ==
    CASE credits[t] = 0 /\ reversals[t] = 0 /\ <<t, "fill">> \notin fills -> "unseen"
      [] credits[t] = 0 /\ reversals[t] = 0 /\ <<t, "fill">> \in fills -> "lost"
      [] credits[t] = 1 /\ reversals[t] = 0 -> "counted"
      [] credits[t] = 1 /\ reversals[t] = 1 -> "reversed"
      [] OTHER -> "corrupt"

Book == [t \in Trades |-> Entry(t)]

Once == INSTANCE OnceLedger WITH entry <- Book

\* Every step of the ledger is a step of OnceLedger or leaves its entries
\* alone: in particular no entry goes back from "reversed" to "counted".
CountsOnce == Once!Spec

\* A guard whose settlement message was lost does not stay for ever.
GuardsClear == \A tok \in Tokens : inflight[tok] > 0 ~> inflight[tok] = 0

\* After lost, repeated and reordered messages, crashes and failed reads, the
\* positions come back to the chain's, up to the tolerance of the check.
PositionsConverge ==
    <>[](up /\ \A tok \in Tokens : ~Drifted(positions[tok], chain[tok]))

=============================================================================
