----------------------------- MODULE TokenBucket -----------------------------
(***************************************************************************)
(* The rate budgeter of the order gateway (execution/ratelimit.py): a      *)
(* token bucket behind an asyncio.Lock.  acquire holds the lock while it   *)
(* sleeps, so callers queue in the order of their calls.  pressure refills *)
(* too, and does not take the lock.                                        *)
(*                                                                         *)
(* Time is in ticks of the event loop's clock and kept relative: the code's*)
(* now - _last is `since`, a sleep is the ticks it has left.  The loop may *)
(* wake a sleeper one clock tick early (asyncio allows its own resolution) *)
(* and any time late.                                                      *)
(***************************************************************************)
EXTENDS Integers, Sequences, SequencesExt

CONSTANTS
    Callers,      \* the tasks that call acquire
    Wants,        \* the numbers of tokens they ask for
    Rate,         \* tokens per tick
    Capacity,     \* burst
    Saturated,    \* bound: `since` is not counted beyond it; by then the bucket is full
    MaxWindow     \* bound: the longest window of the history

ASSUME BucketAssumption ==
    /\ Rate \in Nat \ {0} /\ Capacity \in Nat \ {0}
    /\ Wants \subseteq Nat \ {0}
    /\ Saturated \in Nat /\ Rate * Saturated >= Capacity
    /\ MaxWindow \in Nat

VARIABLES
    tokens,       \* _tokens
    since,        \* now - _last
    queue,        \* the callers inside acquire; the first one holds the lock
    wants,        \* wants[c]: the n of c's call
    left,         \* what is left of the lock holder's sleep
    \* history: a window that may open at any time
    winAge,       \* its age
    winGranted    \* the tokens granted in it

callVars == <<queue, wants, left>>
window   == <<winAge, winGranted>>
vars     == <<tokens, since, callVars, window>>

Holder  == queue[1]
Waiting == ToSet(queue)

Least(m, n) == IF m < n THEN m ELSE n

\* Mutant: the bucket overflows.
Overfull == tokens + Rate * since

\* Mutant: _last is set before it is used, so that no time ever passes.
NoTimePassed == tokens

\* What _refill makes of the bucket.
Refilled == Least(Capacity, tokens + Rate * since)

\* Mutant: _last is not moved.
RefillTwice ==
    /\ tokens' = Refilled
    /\ UNCHANGED since

Refill ==
    /\ tokens' = Refilled
    /\ since' = 0

-----------------------------------------------------------------------------
Call(c, n) ==
    /\ c \notin Waiting
    /\ queue' = Append(queue, c)
    /\ wants' = [wants EXCEPT ![c] = n]
    /\ UNCHANGED <<tokens, since, left, window>>

\* The holder leaves with its tokens; the lock passes to the next in line.
Grant ==
    /\ queue # << >> /\ left = 0
    /\ Refilled >= wants[Holder]
    /\ tokens' = Refilled - wants[Holder]
    /\ since' = 0
    /\ queue' = Tail(queue)
    /\ winGranted' = winGranted + wants[Holder]
    /\ UNCHANGED <<wants, left, winAge>>

\* Mutant: the sleep is computed from the whole demand.
WholeDemand == wants[Holder]

Deficit == wants[Holder] - Refilled

Sleep ==
    /\ queue # << >> /\ left = 0
    /\ Refilled < wants[Holder]
    /\ Refill
    /\ left' = Deficit \div Rate
    /\ UNCHANGED <<queue, wants, window>>

\* The i-th caller is cancelled, the first one in its sleep.
Cancel(i) ==
    /\ queue' = RemoveAt(queue, i)
    /\ left' = IF i = 1 THEN 0 ELSE left
    /\ UNCHANGED <<tokens, since, wants, window>>

\* order_pressure is read by a quoter that is about to place.
Pressure ==
    /\ Refill
    /\ UNCHANGED <<callVars, window>>

Tick ==
    /\ since' = Least(since + 1, Saturated)
    /\ left' = IF left = 0 THEN 0 ELSE left - 1
    /\ IF winAge = MaxWindow
       THEN winAge' = 0 /\ winGranted' = 0
       ELSE winAge' = winAge + 1 /\ UNCHANGED winGranted
    /\ UNCHANGED <<tokens, queue, wants>>

OpenWindow ==
    /\ winAge' = 0
    /\ winGranted' = 0
    /\ UNCHANGED <<tokens, since, callVars>>

Init ==
    /\ tokens = Capacity
    /\ since = 0
    /\ queue = << >>
    /\ wants = [c \in Callers |-> 0]
    /\ left = 0
    /\ winAge = 0
    /\ winGranted = 0

Next ==
    \/ \E c \in Callers, n \in Wants : Call(c, n)
    \/ \E i \in DOMAIN queue : Cancel(i)
    \/ Grant
    \/ Sleep
    \/ Pressure
    \/ Tick
    \/ OpenWindow

\* Time passes and the event loop runs a task whose sleep is over.
Spec     == Init /\ [][Next]_vars
FairSpec == Spec /\ WF_vars(Tick) /\ WF_vars(Grant) /\ WF_vars(Sleep)

-----------------------------------------------------------------------------
\* Every variable has its type; the bucket is never negative or overfull.
TypeOK ==
    /\ tokens \in 0..Capacity
    /\ since \in 0..Saturated
    /\ queue \in Seq(Callers)
    /\ wants \in [Callers -> Nat]
    /\ left \in Nat
    /\ winAge \in 0..MaxWindow
    /\ winGranted \in Nat

\* In a window of any length that opens at any time, acquire grants no more
\* than a full bucket and what the rate brings in the meantime, whoever
\* refills and whoever is cancelled.
WithinBudget == winGranted <= Capacity + Rate * winAge

\* A holder that sleeps wakes when the refill covers its demand, less than a
\* tick early and no later: refills by pressure during its sleep, which it
\* does not see, do not move that point (acquire).
SleepsJustEnough ==
    queue # << >> /\ left > 0 /\ wants[Holder] <= Capacity =>
        LET then == tokens + Rate * (since + left) IN
        then <= wants[Holder] /\ wants[Holder] < then + Rate

\* An acquire that the capacity can serve ends, behind whatever queue.
AcquireEnds == \A c \in Callers : c \in Waiting ~> c \notin Waiting

=============================================================================
