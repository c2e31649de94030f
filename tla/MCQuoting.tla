----------------------------- MODULE MCQuoting -----------------------------
(***************************************************************************)
(* The machines that decide what a market quotes, side by side for TLC:    *)
(* the regime, the answers to placed orders, the two strategies, the       *)
(* snapshots and the factors made of them.  They share no state here; a    *)
(* behaviour is one of the machine chosen at its start and the others keep *)
(* their initial state.                                                    *)
(***************************************************************************)
EXTENDS RegimeGate, OrderResults, MakerQuotes, OneWay, Snapshots, Adaptive

CONSTANTS k1, k2

VARIABLE machine

quotingVars ==
    <<machine, gateVars, resultVars, makerVars, owVars, snapVars, adaptVars>>

\* Hours to the end date: it is past, or one, two or three away.
HoursToResolution == {-1, 1, 2, 3}
TwoMarkets    == {k1, k2}
BuyOrExitBuy  == {<<"BUY">>, <<"SELL", "BUY">>}
EvenPyramid   == <<5, 5>>
HoldNoneOrTwo == {[yes |-> 0, no |-> 0], [yes |-> 2, no |-> 1]}
FiveBuckets   ==
    {[volume |-> 2, mood |-> "low"], [volume |-> 10, mood |-> "normal"],
     [volume |-> 10, mood |-> "low"], [volume |-> 10, mood |-> "high"],
     [volume |-> 18, mood |-> "high"]}

\* The tolerance, the thresholds and the ladder meet the bounds under which no
\* pair loses (MakerQuotes), a factor falls on a real drop only (Adaptive) and a
\* ladder stays within its limit (OneWay).
ASSUME RunIsCovered == ToleranceIsSmall /\ WideThresholds /\ LadderFits

\* A machine with several initial states has one of them when not chosen.
Init ==
    /\ machine \in {"gate", "results", "maker", "oneWay", "snapshots", "adaptive"}
    /\ GateInit /\ ResultsInit /\ MakerInit /\ OwInit /\ SnapInit /\ AdaptInit
    /\ machine # "maker" => makerHeld = [yes |-> 0, no |-> 0]
    /\ machine # "oneWay" => owHeld = 0
    /\ machine # "adaptive" => ~noOrder

Next ==
    \/ /\ machine = "gate" /\ GateNext
       /\ UNCHANGED <<machine, resultVars, makerVars, owVars, snapVars, adaptVars>>
    \/ /\ machine = "results" /\ ResultsNext
       /\ UNCHANGED <<machine, gateVars, makerVars, owVars, snapVars, adaptVars>>
    \/ /\ machine = "maker" /\ MakerNext
       /\ UNCHANGED <<machine, gateVars, resultVars, owVars, snapVars, adaptVars>>
    \/ /\ machine = "oneWay" /\ OwNext
       /\ UNCHANGED <<machine, gateVars, resultVars, makerVars, snapVars, adaptVars>>
    \/ /\ machine = "snapshots" /\ SnapNext
       /\ UNCHANGED <<machine, gateVars, resultVars, makerVars, owVars, adaptVars>>
    \/ /\ machine = "adaptive" /\ AdaptNext
       /\ UNCHANGED <<machine, gateVars, resultVars, makerVars, owVars, snapVars>>

Spec == Init /\ [][Next]_quotingVars

\* Every machine's variables have their types, and quotes are on the grid.
QuotingTypeOK ==
    /\ GateTypeOK /\ ResultsTypeOK /\ MakerTypeOK
    /\ OwTypeOK /\ SnapTypeOK /\ AdaptTypeOK
=============================================================================
