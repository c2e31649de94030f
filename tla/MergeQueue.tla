----------------------------- MODULE MergeQueue -----------------------------
(***************************************************************************)
(* Merging complete sets on chain (engine.py, _maybe_merge, _merge_task;   *)
(* merge.py, _merge_eoa, _merge_safe): one task per market behind a lock   *)
(* that serializes the transactions, which all take their nonce from the   *)
(* same account.  A task that waits too long for its receipt gives up and  *)
(* passes the lock on while its transaction is still under way.            *)
(*                                                                         *)
(* Holdings count complete sets.  `onChain` is external; `local` is what   *)
(* the engine's positions say, which a merge does not change: they follow  *)
(* the chain by remote reads only.                                         *)
(***************************************************************************)
EXTENDS Integers, FiniteSets, Sequences, SequencesExt

CONSTANTS
    MergeMarkets,
    MergeMin,     \* merge_min_size
    MaxSets,      \* bound: complete sets of a market
    MaxNonce      \* bound: transactions of the account

ASSUME MergeAssumption ==
    /\ IsFiniteSet(MergeMarkets)
    /\ MergeMin \in Nat \ {0} /\ MaxSets \in Nat /\ MaxNonce \in Nat

VARIABLES
    onChain,    \* complete sets held on chain
    local,      \* min of the two positions the engine knows
    merging,    \* _merging
    request,    \* request[k]: the amount k's task was started with
    lockQueue,  \* the merge tasks that hold (the first) or await _chain_lock
    job,        \* the await of the task that holds the lock, with what it knows
    mined,      \* transactions of the account that were mined
    mempool,    \* those that are not: nonce, market, amount and excuse
    \* history
    excuse,     \* why the lock holder's amount may be too large
    gaveUp,     \* a task has ended while its transaction was under way
    clashed,    \* a nonce was taken when its transaction was sent
    reverted    \* a merge was mined and reverted although nothing excuses it

chainVars == <<onChain, mined, mempool>>
mergeVars == <<chainVars, local, merging, request, lockQueue, job, excuse, gaveUp, clashed, reverted>>

NoJob == [at |-> "start", amount |-> 0, nonce |-> 0]
Merging(k) == lockQueue # << >> /\ lockQueue[1] = k

MergeLeast(n, k) == IF n < k THEN n ELSE k

-----------------------------------------------------------------------------
(* The engine.                                                             *)

\* Mutant: a market may be in line while its task runs.
MayMergeAgain(k) == Len(lockQueue) < 2

\* _merging keeps a market from having two tasks.
MayMerge(k) == k \notin merging

\* _maybe_merge: the task starts with what the positions said.
MaybeMerge(k) ==
    /\ local[k] >= MergeMin /\ MayMerge(k)
    /\ merging' = merging \cup {k}
    /\ request' = [request EXCEPT ![k] = local[k]]
    /\ lockQueue' = Append(lockQueue, k)
    /\ UNCHANGED <<chainVars, local, job, excuse, gaveUp, clashed, reverted>>

\* The lock goes to the next task and this one is gone.
Release(k) ==
    /\ merging' = merging \ {k}
    /\ request' = [request EXCEPT ![k] = 0]
    /\ lockQueue' = Tail(lockQueue)
    /\ job' = NoJob
    /\ excuse' = FALSE

\* The task goes on with an amount, or ends when there is nothing to merge.
Proceed(k, amount, why) ==
    IF amount = 0
    THEN Release(k)
    ELSE /\ job' = [job EXCEPT !.at = "amount", !.amount = amount]
         /\ excuse' = why
         /\ UNCHANGED <<merging, request, lockQueue>>

\* Mutant: the positions are believed, the balances are not read.
ReadNothing(k) ==
    /\ Merging(k) /\ job.at = "start"
    /\ Proceed(k, request[k], FALSE)
    /\ UNCHANGED <<chainVars, local, gaveUp, clashed, reverted>>

\* The balances are read under the lock.  What an earlier transaction that is
\* still under way will merge is in them.
ReadBalances(k) ==
    /\ Merging(k) /\ job.at = "start"
    /\ Proceed(k, MergeLeast(request[k], onChain[k]), \E tx \in mempool : tx.market = k)
    /\ UNCHANGED <<chainVars, local, gaveUp, clashed, reverted>>

\* No provider answers: the amount stays as it was.
BalancesUnread(k) ==
    /\ Merging(k) /\ job.at = "start"
    /\ Proceed(k, request[k], TRUE)
    /\ UNCHANGED <<chainVars, local, gaveUp, clashed, reverted>>

\* get_transaction_count: of the transactions that were mined.
ReadNonce(k) ==
    /\ Merging(k) /\ job.at = "amount"
    /\ mined < MaxNonce
    /\ job' = [job EXCEPT !.at = "signed", !.nonce = mined]
    /\ UNCHANGED <<chainVars, local, merging, request, lockQueue, excuse, gaveUp, clashed, reverted>>

Taken(n) == n < mined \/ \E tx \in mempool : tx.nonce = n

Transaction(k) ==
    [nonce |-> job.nonce, market |-> k, amount |-> job.amount, excused |-> excuse]

\* The node takes the transaction if its nonce is free.
SendTx(k) ==
    /\ Merging(k) /\ job.at = "signed"
    /\ ~Taken(job.nonce)
    /\ mempool' = mempool \cup {Transaction(k)}
    /\ job' = [job EXCEPT !.at = "receipt"]
    /\ UNCHANGED <<onChain, mined, local, merging, request, lockQueue, excuse, gaveUp, clashed,
                   reverted>>

\* It is taken, but the answer is lost and the task gives up.
SendUnanswered(k) ==
    /\ Merging(k) /\ job.at = "signed"
    /\ ~Taken(job.nonce)
    /\ mempool' = mempool \cup {Transaction(k)}
    /\ gaveUp' = TRUE
    /\ Release(k)
    /\ UNCHANGED <<onChain, mined, local, clashed, reverted>>

\* A nonce that is taken is refused, or the transaction under way is replaced.
SendClashes(k) ==
    /\ Merging(k) /\ job.at = "signed"
    /\ Taken(job.nonce)
    /\ clashed' = TRUE
    /\ \/ /\ Release(k)
          /\ UNCHANGED mempool
       \/ /\ job.nonce >= mined
          /\ mempool' = {tx \in mempool : tx.nonce # job.nonce} \cup {Transaction(k)}
          /\ job' = [job EXCEPT !.at = "receipt"]
          /\ UNCHANGED <<merging, request, lockQueue, excuse>>
    /\ UNCHANGED <<onChain, mined, local, gaveUp, reverted>>

\* Mutant: nobody waits for the receipt.
ReceiptAtOnce(k) ==
    /\ Merging(k) /\ job.at = "receipt"
    /\ Release(k)
    /\ UNCHANGED <<chainVars, local, gaveUp, clashed, reverted>>

\* The receipt is there, of a merge that went through or reverted.
Receipt(k) ==
    /\ Merging(k) /\ job.at = "receipt"
    /\ job.nonce < mined
    /\ Release(k)
    /\ UNCHANGED <<chainVars, local, gaveUp, clashed, reverted>>

\* Mutant: the wait for the receipt has no end.
GiveUpBefore(k) ==
    /\ Merging(k) /\ job.at \in {"amount", "signed"}
    /\ Release(k)
    /\ UNCHANGED <<chainVars, local, gaveUp, clashed, reverted>>

\* The wait times out, or a call to the node fails: merge logs and returns None.
GiveUp(k) ==
    /\ Merging(k) /\ job.at \in {"amount", "signed", "receipt"}
    /\ gaveUp' = (gaveUp \/ job.at = "receipt")
    /\ Release(k)
    /\ UNCHANGED <<chainVars, local, clashed, reverted>>

\* A remote read brings the positions to the chain's.
Sync(k) ==
    /\ local[k] # onChain[k]
    /\ local' = [local EXCEPT ![k] = onChain[k]]
    /\ UNCHANGED <<chainVars, merging, request, lockQueue, job, excuse, gaveUp, clashed, reverted>>

-----------------------------------------------------------------------------
(* The chain.                                                              *)

\* The next transaction of the account is mined; a merge of more than there is
\* reverts.
Mine ==
    \E tx \in mempool :
        /\ tx.nonce = mined
        /\ mined' = mined + 1
        /\ mempool' = mempool \ {tx}
        /\ IF tx.amount <= onChain[tx.market]
           THEN /\ onChain' = [onChain EXCEPT ![tx.market] = @ - tx.amount]
                /\ UNCHANGED reverted
           ELSE /\ reverted' = (reverted \/ ~tx.excused)
                /\ UNCHANGED onChain
        /\ UNCHANGED <<local, merging, request, lockQueue, job, excuse, gaveUp, clashed>>

\* A fill completes a set.
Complete(k) ==
    /\ onChain[k] < MaxSets
    /\ onChain' = [onChain EXCEPT ![k] = @ + 1]
    /\ local' = [local EXCEPT ![k] = MergeLeast(@ + 1, MaxSets)]
    /\ UNCHANGED <<mined, mempool, merging, request, lockQueue, job, excuse, gaveUp, clashed, reverted>>

\* An exit sells one token of a set, also one that a merge has counted on.
Break(k) ==
    /\ onChain[k] > 0
    /\ onChain' = [onChain EXCEPT ![k] = @ - 1]
    /\ local' = [local EXCEPT ![k] = IF @ = 0 THEN 0 ELSE @ - 1]
    /\ excuse' = (excuse \/ (Merging(k) /\ job.at # "start"))
    /\ mempool' = {IF tx.market = k THEN [tx EXCEPT !.excused = TRUE] ELSE tx : tx \in mempool}
    /\ UNCHANGED <<mined, merging, request, lockQueue, job, gaveUp, clashed, reverted>>

MergeInit ==
    /\ onChain = [k \in MergeMarkets |-> 0] /\ local = onChain
    /\ merging = {} /\ request = [k \in MergeMarkets |-> 0] /\ lockQueue = << >> /\ job = NoJob
    /\ mined = 0 /\ mempool = {}
    /\ excuse = FALSE /\ gaveUp = FALSE /\ clashed = FALSE /\ reverted = FALSE

MergeNext ==
    \/ \E k \in MergeMarkets :
          \/ MaybeMerge(k) \/ ReadBalances(k) \/ BalancesUnread(k) \/ ReadNonce(k)
          \/ SendTx(k) \/ SendUnanswered(k) \/ SendClashes(k) \/ Receipt(k) \/ GiveUp(k)
          \/ Sync(k) \/ Complete(k) \/ Break(k)
    \/ Mine

\* The lock holder goes on: each of its calls is answered or times out.
Advance == \E k \in MergeMarkets :
    ReadBalances(k) \/ BalancesUnread(k) \/ ReadNonce(k) \/ SendTx(k) \/ SendClashes(k)
    \/ Receipt(k) \/ GiveUp(k)
MergeFairness == WF_mergeVars(Advance)

MergeSpec == MergeInit /\ [][MergeNext]_mergeVars /\ MergeFairness

-----------------------------------------------------------------------------
\* Every variable has its type; a market in _merging is in line once.
MergeTypeOK ==
    /\ onChain \in [MergeMarkets -> 0..MaxSets] /\ local \in [MergeMarkets -> 0..MaxSets]
    /\ request \in [MergeMarkets -> 0..MaxSets]
    /\ lockQueue \in Seq(MergeMarkets)
    /\ merging = ToSet(lockQueue) /\ Cardinality(merging) = Len(lockQueue)
    /\ job \in [at : {"start", "amount", "signed", "receipt"}, amount : 0..MaxSets,
                nonce : 0..MaxNonce]
    /\ mined \in 0..MaxNonce
    /\ mempool \subseteq [nonce : 0..MaxNonce, market : MergeMarkets, amount : 0..MaxSets,
                          excused : BOOLEAN]
    /\ excuse \in BOOLEAN /\ gaveUp \in BOOLEAN /\ clashed \in BOOLEAN /\ reverted \in BOOLEAN

\* No transaction is refused for its nonce, or replaces another, before some
\* task has ended without its receipt: the lock outlives the transaction
\* (engine.py:704: "so concurrent merges can't reuse a nonce").
NoncesOnce == clashed => gaveUp

\* A merge reverts for a reason: the balances could not be read, a set was
\* broken after they were, or an earlier merge of the market was still under
\* way.  Positions that lag behind the chain are none (engine.py:706-709).
RevertsExcused == ~reverted

\* A market asked to merge is done with it, whatever the node and the other
\* markets' merges do, and may merge again.
MergesEnd == \A k \in MergeMarkets : k \in merging ~> k \notin merging
=============================================================================
