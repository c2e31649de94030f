------------------------------ MODULE MCEngine ------------------------------
(***************************************************************************)
(* Three machines of the engine that share no state, side by side for TLC: *)
(* the market data of a token, the merging of complete sets and the life   *)
(* of the process.  A behaviour is one of the machine chosen at its start; *)
(* the others keep their initial state.                                    *)
(***************************************************************************)
EXTENDS MarketFeed, MergeQueue, Supervisor

CONSTANTS k1, k2

VARIABLE machine

engineVars == <<machine, feedVars, mergeVars, lifeVars>>

TwoMarkets == {k1, k2}

\* A machine with several initial states has one of them when not chosen.
Init ==
    /\ machine \in {"feed", "merge", "life"}
    /\ FeedInit /\ MergeInit /\ LifeInit
    /\ machine # "life" => beats /\ rests = {}

Next ==
    \/ machine = "feed"  /\ FeedNext  /\ UNCHANGED <<machine, mergeVars, lifeVars>>
    \/ machine = "merge" /\ MergeNext /\ UNCHANGED <<machine, feedVars, lifeVars>>
    \/ machine = "life"  /\ LifeNext  /\ UNCHANGED <<machine, feedVars, mergeVars>>

\* Each machine's fairness, of its own actions while it is the one that runs.
Feeds  == machine = "feed"
Merges == machine = "merge"
Lives  == machine = "life"

EngineFairness ==
    /\ WF_feedVars(Feeds /\ Ask) /\ SF_feedVars(Feeds /\ Answer)
    /\ WF_feedVars(Feeds /\ \E other \in BOOLEAN : Correct(other))
    /\ WF_feedVars(Feeds /\ Wake) /\ WF_feedVars(Feeds /\ ReadBook) /\ WF_feedVars(Feeds /\ Done)
    /\ WF_mergeVars(Merges /\ Advance)
    /\ WF_lifeVars(Lives /\ \E who \in {"own", "old"} : Land(who) \/ Lose(who))
    /\ WF_lifeVars(Lives /\ DeadMan)

Spec == Init /\ [][Next]_engineVars /\ EngineFairness

\* Every machine's variables have their types.
EngineTypeOK == FeedTypeOK /\ MergeTypeOK /\ LifeTypeOK
=============================================================================
