----------------------------- MODULE Selection -----------------------------
(***************************************************************************)
(* A list comprehension with a condition: the elements of a sequence at    *)
(* some of its indices, in their order.                                    *)
(***************************************************************************)
EXTENDS Integers, Sequences, FiniteSets

\* How many of the indices come up to i.
Rank(i, I) == Cardinality({j \in I : j <= i})

Picked(s, I) == [k \in 1..Cardinality(I) |-> s[CHOOSE i \in I : Rank(i, I) = k]]
=============================================================================
