----------------------------- MODULE Supervisor -----------------------------
(***************************************************************************)
(* The life of the engine process (engine.py, start, _spawn, _supervise,   *)
(* run_forever, shutdown, _startup_reconcile; cli.py, run): what it does   *)
(* about orders that rest when it starts, in which order it arms the       *)
(* exchange's dead-man switch and starts to quote, how dead tasks are      *)
(* restarted, and what is left behind when it stops, by a signal, by an    *)
(* exception or by a crash, and starts again.                              *)
(*                                                                         *)
(* Orders are of this life of the process ("own") or of an earlier one     *)
(* ("old").  A post that is under way when its task is cancelled may still *)
(* land.                                                                   *)
(***************************************************************************)
EXTENDS FiniteSets

CONSTANTS
    Tasks,      \* the engine's tasks, the supervisor aside
    Mortal,     \* those that an exception can end: the quoters catch theirs
    Quoters,
    Beater      \* the heartbeat loop

ASSUME SupervisorAssumption ==
    Mortal \subseteq Tasks /\ Quoters \subseteq Tasks \ Mortal /\ Beater \in Tasks \ Quoters

VARIABLES
    stage,      \* where run_forever is
    status,     \* what each task does
    gathered,   \* the tasks that run_forever gathered and nobody has replaced
    beats,      \* the configuration has the heartbeat on
    \* the exchange
    rests,      \* whose orders rest
    posting,    \* whose posts are under way
    armed,      \* the dead-man switch runs
    misses,     \* the last heartbeat failed
    \* history of this life
    known,      \* the startup found the old orders and put them into the store
    slipped,    \* an old post landed after the startup looked, or a look failed
    unarmed,    \* the startup's heartbeat failed, or the switch has fired since
    stopAsked   \* asked to stop, or the connection failed

exchangeSide == <<rests, posting, armed, misses>>
history      == <<known, slipped, unarmed, stopAsked>>
lifeVars == <<stage, status, gathered, beats, exchangeSide, history>>

Stages == {"connecting", "cancelling", "looking", "clearing", "arming", "spawning", "gathering",
           "stopping", "closed"}
Running == stage = "gathering"
NoTask  == [t \in Tasks |-> "none"]

-----------------------------------------------------------------------------
(* The start.                                                              *)

OpenGateway(ok) ==
    /\ stage = "connecting"
    /\ stage' = IF ok THEN "cancelling" ELSE "stopping"
    /\ stopAsked' = ~ok
    /\ UNCHANGED <<status, gathered, beats, exchangeSide, known, slipped, unarmed>>

\* _startup_reconcile: a cancel_all that may fail.
StartupCancel(ok) ==
    /\ stage = "cancelling"
    /\ stage' = "looking"
    /\ rests' = IF ok THEN {} ELSE rests
    /\ UNCHANGED <<status, gathered, beats, posting, armed, misses, known, slipped, unarmed, stopAsked>>

\* Mutant: what is left after the cancel_all is not looked for.
FindNothing(ok) ==
    /\ stage = "looking"
    /\ stage' = "arming"
    /\ slipped' = ~ok
    /\ UNCHANGED <<status, gathered, beats, exchangeSide, known, unarmed, stopAsked>>

\* Stragglers are looked for; a failed read looks like none.
FindLeftovers(ok) ==
    /\ stage = "looking"
    /\ stage' = IF ok /\ rests # {} THEN "clearing" ELSE "arming"
    /\ slipped' = ~ok
    /\ UNCHANGED <<status, gathered, beats, exchangeSide, known, unarmed, stopAsked>>

\* They are cancelled token by token and what survives is adopted.
Clear(canceled, ok) ==
    /\ stage = "clearing"
    /\ stage' = "arming"
    /\ rests' = IF canceled THEN {} ELSE rests
    /\ known' = ok
    /\ slipped' = (slipped \/ ~ok)
    /\ UNCHANGED <<status, gathered, beats, posting, armed, misses, unarmed, stopAsked>>

\* The first heartbeat, whether or not its loop is configured.
Arm(ok) ==
    /\ stage = "arming"
    /\ stage' = "spawning"
    /\ armed' = (armed \/ ok)
    /\ misses' = ~ok
    /\ unarmed' = ~ok
    /\ UNCHANGED <<status, gathered, beats, rests, posting, known, slipped, stopAsked>>

Spawn ==
    /\ stage = "spawning"
    /\ stage' = "gathering"
    /\ status' = [t \in Tasks |-> "running"]
    /\ gathered' = Tasks
    /\ UNCHANGED <<beats, exchangeSide, known, slipped, unarmed, stopAsked>>

-----------------------------------------------------------------------------
(* The tasks.                                                              *)

SubmitOrder(t) ==
    /\ Running /\ t \in Quoters /\ status[t] = "running"
    /\ posting' = posting \cup {"own"}
    /\ UNCHANGED <<stage, status, gathered, beats, rests, armed, misses, history>>

Beat(ok) ==
    /\ Running /\ status[Beater] = "running" /\ beats
    /\ armed' = (armed \/ ok)
    /\ misses' = ~ok
    /\ UNCHANGED <<stage, status, gathered, beats, rests, posting, history>>

\* A task ends by an exception, or, with the heartbeat off, its loop returns.
Die(t) ==
    /\ Running /\ status[t] = "running"
    /\ \/ t \in Mortal /\ status' = [status EXCEPT ![t] = "dead"]
       \/ t = Beater /\ ~beats /\ status' = [status EXCEPT ![t] = "ended"]
    /\ UNCHANGED <<stage, gathered, beats, exchangeSide, history>>

\* _supervise looks every five seconds and replaces a task that is done; the
\* exception of a gathered one has ended the engine by then.
Supervise(t) ==
    /\ Running /\ status[t] \in {"dead", "ended"}
    /\ \A u \in gathered : status[u] # "dead"
    /\ status' = [status EXCEPT ![t] = "running"]
    /\ gathered' = gathered \ {t}
    /\ UNCHANGED <<stage, beats, exchangeSide, history>>

-----------------------------------------------------------------------------
(* The end.                                                                *)

\* gather raises the exception of the first gathered task that dies of one.
GatherRaises(t) ==
    /\ Running /\ t \in gathered /\ status[t] = "dead"
    /\ stage' = "stopping"
    /\ status' = NoTask /\ gathered' = {}
    /\ UNCHANGED <<beats, exchangeSide, history>>

\* Ctrl-C cancels run_forever and every task with it.
Interrupt ==
    /\ stage \notin {"stopping", "closed"}
    /\ stage' = "stopping"
    /\ status' = NoTask /\ gathered' = {}
    /\ stopAsked' = TRUE
    /\ UNCHANGED <<beats, exchangeSide, known, slipped, unarmed>>

\* shutdown: cancel_all, which may fail or have no client, then everything is
\* closed.
Shutdown(ok) ==
    /\ stage = "stopping"
    /\ stage' = "closed"
    /\ rests' = IF ok THEN {} ELSE rests
    /\ UNCHANGED <<status, gathered, beats, posting, armed, misses, history>>

Crash ==
    /\ stage # "closed"
    /\ stage' = "closed"
    /\ status' = NoTask /\ gathered' = {}
    /\ UNCHANGED <<beats, exchangeSide, history>>

\* Another process: what this one left is old to it.
StartAgain ==
    /\ stage = "closed"
    /\ stage' = "connecting"
    /\ rests' = {"old" : who \in rests}
    /\ posting' = {"old" : who \in posting}
    /\ known' = FALSE /\ slipped' = FALSE /\ unarmed' = FALSE /\ stopAsked' = FALSE
    /\ beats' \in BOOLEAN
    /\ UNCHANGED <<status, gathered, armed, misses>>

-----------------------------------------------------------------------------
(* The exchange.                                                           *)

Land(who) ==
    /\ who \in posting
    /\ posting' = posting \ {who}
    /\ rests' = rests \cup {who}
    /\ slipped' = (slipped \/ who = "old")
    /\ UNCHANGED <<stage, status, gathered, beats, armed, misses, known, unarmed, stopAsked>>

Lose(who) ==
    /\ who \in posting
    /\ posting' = posting \ {who}
    /\ UNCHANGED <<stage, status, gathered, beats, rests, armed, misses, history>>

\* Between the first heartbeat and its loop there is no await.
Silent ==
    /\ stage # "spawning"
    /\ stage # "gathering" \/ status[Beater] # "running" \/ ~beats \/ misses

\* Mutant: the exchange's switch needs the process.
DeadManWhileUp ==
    /\ armed /\ Silent /\ posting = {} /\ stage # "closed"
    /\ armed' = FALSE
    /\ rests' = {}
    /\ unarmed' = TRUE
    /\ UNCHANGED <<stage, status, gathered, beats, posting, misses, known, slipped, stopAsked>>

\* Without heartbeats for longer than a post takes, the exchange cancels all.
DeadMan ==
    /\ armed /\ Silent /\ posting = {}
    /\ armed' = FALSE
    /\ rests' = {}
    /\ unarmed' = TRUE
    /\ UNCHANGED <<stage, status, gathered, beats, posting, misses, known, slipped, stopAsked>>

LifeInit ==
    /\ stage = "connecting" /\ status = NoTask /\ gathered = {}
    /\ beats \in BOOLEAN
    /\ rests \in SUBSET {"old"} /\ posting = {}
    /\ armed = FALSE /\ misses = FALSE
    /\ known = FALSE /\ slipped = FALSE /\ unarmed = FALSE /\ stopAsked = FALSE

LifeNext ==
    \/ \E ok \in BOOLEAN :
          \/ OpenGateway(ok) \/ StartupCancel(ok) \/ FindLeftovers(ok) \/ Arm(ok) \/ Beat(ok) \/ Shutdown(ok)
          \/ \E canceled \in BOOLEAN : Clear(canceled, ok)
    \/ Spawn
    \/ \E t \in Tasks : SubmitOrder(t) \/ Die(t) \/ Supervise(t) \/ GatherRaises(t)
    \/ Interrupt \/ Crash \/ StartAgain
    \/ \E who \in {"own", "old"} : Land(who) \/ Lose(who)
    \/ DeadMan

\* Posts land or not, the switch fires in the end.
LifeFairness ==
    /\ WF_lifeVars(\E who \in {"own", "old"} : Land(who) \/ Lose(who))
    /\ WF_lifeVars(DeadMan)

LifeSpec == LifeInit /\ [][LifeNext]_lifeVars /\ LifeFairness

-----------------------------------------------------------------------------
\* Every variable has its type; no task outlives the run.
LifeTypeOK ==
    /\ stage \in Stages
    /\ status \in [Tasks -> {"none", "running", "dead", "ended"}]
    /\ gathered \subseteq {t \in Tasks : status[t] # "none"}
    /\ Running \/ status = NoTask
    /\ rests \subseteq {"own", "old"} /\ posting \subseteq {"own", "old"}
    /\ \A flag \in {beats, armed, misses, known, slipped, unarmed, stopAsked} : flag \in BOOLEAN

\* No order of an earlier life rests unknown to the engine when it begins to
\* quote, unless the exchange could not be read or the order was still under
\* way (engine.py:260-262: "so we never quote on top of an unknown order").
OldOrdersKnown ==
    stage \in {"spawning", "gathering"} /\ "old" \in rests => known \/ slipped

\* No order is posted before the dead-man switch runs, unless the heartbeat of
\* the startup failed or the switch has already fired (engine.py:138-141).
ArmedFirst == "own" \in rests \cup posting /\ Running => armed \/ unarmed

\* Whatever a process leaves behind under an armed switch, posts that land
\* after its cancel_all among them, does not rest for ever, though no process
\* comes back (engine.py:190-194, :138).
NothingLeftBehind == stage = "closed" /\ armed ~> stage # "closed" \/ rests = {}

\* The engine runs until it is asked to stop (engine.py:165: "Restart any
\* engine task that exits while we're running. Never down.").
NeverDown == stage = "stopping" => stopAsked
=============================================================================
