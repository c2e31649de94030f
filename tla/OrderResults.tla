---------------------------- MODULE OrderResults ----------------------------
(***************************************************************************)
(* What becomes of the answers to placed orders: their classification      *)
(* (execution/gateway.py, place), the list of soft rejections that all     *)
(* markets share, each market's streak of them (engine.py,                 *)
(* _recompute_locked) and the error-rate breaker they feed (RiskManager).  *)
(*                                                                         *)
(* Several quoters place at a time, each under the lock of its own market. *)
(* The list is emptied after the wait for the rate budget and read when    *)
(* the answer is there; between the two the others do the same.            *)
(***************************************************************************)
EXTENDS Integers, Sequences

CONSTANTS
    Markets,
    Batches,       \* what is placed at a time: the sides of the orders
    SoftStreak,    \* soft rejections in a row before a quarantine (5 in the code)
    MinSample,     \* placements before there is an error rate (20 in the code)
    RateNum, RateDen,  \* max_order_error_rate
    MaxAttempts    \* bound: the placements of a life of the process

ASSUME ResultsAssumption ==
    /\ Batches \subseteq Seq({"BUY", "SELL"})
    /\ SoftStreak \in Nat \ {0} /\ MinSample \in Nat \ {0}
    /\ RateNum \in Nat \ {0} /\ RateDen \in Nat \ {0} /\ MaxAttempts \in Nat

VARIABLES
    call,       \* call[k]: where k's placement is
    softBy,     \* soft_rejections, as the markets whose answers are in it
    softRun,    \* _soft_streak
    attempts,   \* _order_attempts
    errors,     \* _order_errors
    killed,     \* _killed
    unswept     \* history: k's incomplete placements since it was last swept or complete

breakerVars == <<attempts, errors, killed>>
resultVars  == <<call, softBy, softRun, breakerVars, unswept>>

NoCall == [at |-> "none", batch |-> << >>]

-----------------------------------------------------------------------------
(* What the exchange answers to an order, and to a whole batch.            *)

Answers == {"accepted", "ownOrdersLock", "noBalance", "crosses", "duplicated", "canceledOnChain",
            "matchDelayed", "notReady", "invalid", "noId", "missing"}

Failures == {"rateLimit", "transport", "restricted", "status500", "rejected", "local"}

\* _is_state_lag_rejection: a BUY without balance is no lag.
StateLag(answer, side) ==
    \/ answer \in {"ownOrdersLock", "crosses", "duplicated", "canceledOnChain",
                   "matchDelayed", "notReady"}
    \/ answer = "noBalance" /\ side = "SELL"

\* _is_transient_place_error
Transient(failure) == failure \in {"rateLimit", "transport", "restricted", "status500"}

\* The answers a batch may get, as engine.py tells them apart: whether all
\* orders were accepted, and whether some rejection was soft.
Outcome(batch, answer) ==
    [complete |-> \A i \in DOMAIN batch : answer[i] = "accepted",
     soft     |-> \E i \in DOMAIN batch : StateLag(answer[i], batch[i])]

FailedOutcome(failure) == [complete |-> FALSE, soft |-> Transient(failure)]

-----------------------------------------------------------------------------
(* RiskManager.                                                            *)

NoteOrderResult(ok) ==
    /\ attempts' = attempts + 1
    /\ errors' = IF ok THEN errors ELSE errors + 1

\* error_rate >= max_order_error_rate; too few placements have no rate.
Tripped == attempts >= MinSample /\ errors * RateDen >= RateNum * attempts

\* global_halt; the daily loss is what the marks make of it at that moment.
GlobalHalt(losing) == killed \/ losing \/ Tripped

-----------------------------------------------------------------------------
(* The placement of one market.                                            *)

\* A recompute wants orders; a halted one wants none.
Decide(k, batch, losing) ==
    /\ call[k].at = "none" /\ batch # << >>
    /\ ~GlobalHalt(losing)
    /\ attempts < MaxAttempts
    /\ call' = [call EXCEPT ![k] = [at |-> "bucket", batch |-> batch]]
    /\ UNCHANGED <<softBy, softRun, breakerVars, unswept>>

\* The budget is there: the list is made new and the batch goes out.
SendOut(k) ==
    /\ call[k].at = "bucket"
    /\ softBy' = {}
    /\ call' = [call EXCEPT ![k].at = "posted"]
    /\ UNCHANGED <<softRun, breakerVars, unswept>>

\* Mutant: a soft rejection does not add to the streak.
StreakAfterReset(k) == 1

StreakAfter(k) == softRun[k] + 1

\* All rejections are hard and none of another market's are in the list:
\* a placement that is not complete is an error and the market is swept.
AnsweredHard(k, out) ==
    /\ softBy = {} /\ ~out.soft
    /\ softRun' = [softRun EXCEPT ![k] = 0]
    /\ NoteOrderResult(out.complete)
    /\ unswept' = [unswept EXCEPT ![k] = 0]
    /\ call' = [call EXCEPT ![k] = NoCall]
    /\ UNCHANGED <<softBy, killed>>

\* Something in the list is soft, whoever put it there: read the positions and
\* the orders again; with too long a streak, sweep the market.
AnsweredSoft(k, out) ==
    LET streak == StreakAfter(k)
        stuck  == streak >= SoftStreak
    IN
    /\ out.soft \/ softBy # {}
    /\ softBy' = IF out.soft THEN softBy \cup {k} ELSE softBy
    /\ softRun' = [softRun EXCEPT ![k] = streak]
    /\ unswept' = [unswept EXCEPT ![k] = IF stuck \/ out.complete THEN 0 ELSE @ + 1]
    /\ IF stuck
       THEN NoteOrderResult(FALSE) /\ call' = [call EXCEPT ![k] = NoCall]
       ELSE call' = [call EXCEPT ![k].at = "sync"] /\ UNCHANGED <<attempts, errors>>
    /\ UNCHANGED killed

Answered(k, out) ==
    /\ call[k].at = "posted"
    /\ AnsweredHard(k, out) \/ AnsweredSoft(k, out)

\* The positions are synced, or could not be: the placement counts as a success.
Synced(k) ==
    /\ call[k].at = "sync"
    /\ NoteOrderResult(TRUE)
    /\ call' = [call EXCEPT ![k] = NoCall]
    /\ UNCHANGED <<softBy, softRun, killed, unswept>>

Kill ==
    /\ killed' = TRUE
    /\ UNCHANGED <<call, softBy, softRun, attempts, errors, unswept>>

ResultsInit ==
    /\ call = [k \in Markets |-> NoCall]
    /\ softBy = {}
    /\ softRun = [k \in Markets |-> 0]
    /\ attempts = 0 /\ errors = 0 /\ killed = FALSE
    /\ unswept = [k \in Markets |-> 0]

\* Nothing of this survives the process.
ResultsRestart ==
    /\ call' = [k \in Markets |-> NoCall]
    /\ softBy' = {}
    /\ softRun' = [k \in Markets |-> 0]
    /\ attempts' = 0 /\ errors' = 0 /\ killed' = FALSE
    /\ unswept' = [k \in Markets |-> 0]

ResultsNext ==
    \/ \E k \in Markets, batch \in Batches, losing \in BOOLEAN : Decide(k, batch, losing)
    \/ \E k \in Markets : SendOut(k) \/ Synced(k)
    \/ \E k \in Markets : \E answer \in [DOMAIN call[k].batch -> Answers] :
          Answered(k, Outcome(call[k].batch, answer))
    \/ \E k \in Markets, failure \in Failures : Answered(k, FailedOutcome(failure))
    \/ Kill
    \/ ResultsRestart

ResultsSpec == ResultsInit /\ [][ResultsNext]_resultVars

-----------------------------------------------------------------------------
\* Every variable has its type, and there are no more errors than attempts.
ResultsTypeOK ==
    /\ call \in [Markets -> [at : {"none", "bucket", "posted", "sync"},
                             batch : Batches \cup {<< >>}]]
    /\ softBy \subseteq Markets
    /\ softRun \in [Markets -> Nat]
    /\ attempts \in Nat /\ errors \in 0..attempts /\ killed \in BOOLEAN
    /\ unswept \in [Markets -> Nat]

\* However its rejections are mixed up with those of other markets, a market is
\* swept at the latest by its SoftStreak-th incomplete placement in a row
\* (engine.py:615-620: "escalate so that the breaker steps in").
FailuresEscalate == \A k \in Markets : unswept[k] < SoftStreak

InFlight == {k \in Markets : call[k].at # "none"}

\* error_rate is over the whole life of the process: once it is over the limit
\* and no placement is under way, nothing but a restart brings it back, and no
\* placement starts (manager.py:80, :89).
TrippedStays ==
    [][Tripped /\ InFlight = {} =>
          \/ Tripped' /\ InFlight' = {}
          \/ ResultsRestart]_resultVars
=============================================================================
