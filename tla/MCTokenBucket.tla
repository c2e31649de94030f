--------------------------- MODULE MCTokenBucket ---------------------------
(***************************************************************************)
(* Instances of TokenBucket for TLC: a demand that fits the rate, one that *)
(* has to wait and one that needs the whole bucket.                        *)
(***************************************************************************)
EXTENDS TokenBucket

CONSTANTS q1, q2, q3

ThreeCallers == {q1, q2, q3}
Demands      == {1, 3, 5}
=============================================================================
