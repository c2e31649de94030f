------------------------------ MODULE QuotePlan ------------------------------
(***************************************************************************)
(* The minimal plan from the orders that rest to the quotes that are       *)
(* wanted (execution/reconciler.py), order by order and with its           *)
(* tolerances.  Quotes and live orders are records of token, side, price   *)
(* and size; live orders come in the order in which the store lists them.  *)
(* Every strategy's quotes go through it (engine.py:539-541).              *)
(***************************************************************************)
EXTENDS Selection, SequencesExt

\* tol holds the tolerances of a profile: the tick size in the unit of the
\* prices, reprice_ticks, and resize_frac as the fraction num over den.

Between(m, n) == IF m < n THEN n - m ELSE m - n

PriceClose(price, q, tol) == Between(price, q.price) <= tol.ticks * tol.tick

\* Mutant: an order that is larger than its quote is never too large.
LargerIsClose(size, q, tol) == (q.size - size) * tol.den <= tol.num * q.size

SizeClose(size, q, tol) == Between(size, q.size) * tol.den <= tol.num * q.size

Satisfies(o, q, tol) ==
    /\ o.token = q.token /\ o.side = q.side
    /\ PriceClose(o.price, q, tol) /\ SizeClose(o.size, q, tol)

\* A quote takes the first live order that satisfies it and is not taken yet,
\* or is placed.
Match(live, plan, q, tol) ==
    LET free == {i \in DOMAIN live : i \notin plan.keep /\ Satisfies(live[i], q, tol)}
    IN  IF free = {}
        THEN [plan EXCEPT !.place = Append(@, q)]
        ELSE [plan EXCEPT !.keep = @ \cup {CHOOSE i \in free : \A j \in free : i <= j}]

\* reconcile: the indices of the orders to keep, and the quotes to place.
Reconcile(targets, live, tol) ==
    FoldLeft(LAMBDA plan, q : Match(live, plan, q, tol), [keep |-> {}, place |-> << >>], targets)

IsNoop(plan, live) == plan.place = << >> /\ plan.keep = DOMAIN live

\* Mutant: what no quote keeps is not cancelled.
ExecutedUncancelled(plan, live) == live \o plan.place

\* The live orders once the plan is executed.
Executed(plan, live) == Picked(live, plan.keep) \o plan.place
=============================================================================
