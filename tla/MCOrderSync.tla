---------------------------- MODULE MCOrderSync ----------------------------
(***************************************************************************)
(* Instances of OrderSync for TLC.                                         *)
(***************************************************************************)
EXTENDS OrderSync, TLC

CONSTANTS yes, no, bid, exit, p1, p2, o1, o2

OneToken  == {yes}
TwoTokens == {yes, no}
Bid       == {bid}
BidExit   == {bid, exit}
TokenOfSlot == [s \in Slots |-> IF s = exit /\ no \in Tokens THEN no ELSE yes]
OnePrice  == {p1}
TwoPrices == {p1, p2}
TwoIds    == {o1, o2}
OneId     == {o1}
Symmetry  == Permutations(Ids) \cup Permutations(Prices)

\* "`HALTED` (stale data / resolved / kill switch -> cancel all)"
\* (README.md:113): a market that stays halted has its orders cancelled, also
\* when its book has lost a side, as that of a resolved market does.
HaltedCancelsAll == <>[]halted => <>[](live = {})
=============================================================================
