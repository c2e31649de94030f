----------------------------- MODULE GateProofs -----------------------------
(***************************************************************************)
(* What the regime gate and the answers to placements keep to: a toxic     *)
(* print is answered for a whole cool-off and nothing is quoted in it, the *)
(* quoter wakes at its end, and a link that is down for too long leaves    *)
(* nothing resting; with any number of markets, a market that keeps        *)
(* failing is swept in time, and a tripped error rate stays tripped.       *)
(***************************************************************************)
EXTENDS RegimeGate, OrderResults, TLAPS

-----------------------------------------------------------------------------
(* The regime and the timer (RegimeGate).                                  *)

\* The timer is at least a tick, never longer than the base tick, and ends
\* with a cool-off (_next_wake_s).
LEMMA WakeBounds ==
    ASSUME NEW c \in Nat, held \in BOOLEAN
    PROVE  /\ NextWake(c) \in Nat
           /\ NextWake(c) <= BaseTick
           /\ c > 0 => NextWake(c) <= c + 1
BY GateAssumption, SMT DEF NextWake, GateMost, GateLeast

\* Time runs out and does not go below nothing.
LEMMA DecNat ==
    ASSUME NEW n \in Nat
    PROVE  /\ Dec(n) \in Nat /\ Dec(n) <= n
           /\ n > 0 => Dec(n) = n - 1
           /\ n = 0 => Dec(n) = 0
BY DEF Dec, GateMost

\* The regime is one of the five.
LEMMA RegimeIsOne ==
    ASSUME NEW halt, NEW h, NEW jump, NEW reduce, NEW lively
    PROVE  Regime(halt, h, jump, reduce, lively) \in Regimes
BY DEF Regime, Regimes

\* The machine plans no quote while it has a sweep to answer, while it cools or
\* while the link is stale.
LEMMA QuotesNeedCalm ==
    ASSUME NEW halt \in BOOLEAN, NEW h, NEW jump \in BOOLEAN, NEW reduce \in BOOLEAN,
           NEW lively \in BOOLEAN, sweep \in BOOLEAN, cool \in Nat,
           NEW plan \in Plans(Regime(halt, h, jump, reduce, lively)), plan # Nothing
    PROVE  ~sweep /\ cool = 0 /\ ~MarketStale
<1>1. Plans("HALTED") = {Nothing} /\ Plans("EVENT") = {Nothing}
  BY DEF Plans
<1>2. CASE MarketStale
  BY <1>1, <1>2 DEF Regime
<1>3. CASE ~MarketStale /\ (sweep \/ cool > 0)
  <2>1. Regime(halt, h, jump, reduce, lively) \in {"HALTED", "EVENT"}
    BY <1>3 DEF Regime
  <2> QED
    BY <1>1, <2>1
<1> QED
  BY <1>2, <1>3

\* A plan is one of the quotings.
LEMMA PlansAreQuotings ==
    ASSUME NEW regime, NEW plan \in Plans(regime)
    PROVE  plan \in Quotings
BY DEF Plans, Quotings, Nothing, Exits, Entries

\* The cool-off after a decision stays within its length.
LEMMA CoolAfterBounds ==
    ASSUME NEW regime, NEW jump \in BOOLEAN, cool \in 0..CoolOff
    PROVE  CoolAfter(regime, jump) \in 0..CoolOff
BY GateAssumption DEF CoolAfter

-----------------------------------------------------------------------------
\* The state before anything has happened is well typed.
LEMMA GateInitTyped == GateInit => GateTypeOK
<1> SUFFICES ASSUME GateInit PROVE GateTypeOK
  OBVIOUS
<1>1. 1 \in 0..(PullTime + 1) /\ 0 \in 0..CoolOff /\ BaseTick \in Nat
  BY GateAssumption DEF PullTime
<1>2. task \in [at : {"sleep", "cancel", "place"}, plan : Quotings, regime : Regimes,
                spent : 0..MaxAwait]
  BY GateAssumption DEF GateInit, Asleep, Quotings, Nothing, Exits, Entries, Regimes
<1>3. resting \in Quotings
  BY DEF GateInit, Quotings, Nothing, Exits, Entries
<1> QED
  BY <1>1, <1>2, <1>3 DEF GateInit, GateTypeOK

\* Every reachable state is well typed.
THEOREM GateTypeCorrect == GateSpec => []GateTypeOK
<1>1. GateInit => GateTypeOK
  BY GateInitTyped
<1>2. GateTypeOK /\ [GateNext]_gateVars => GateTypeOK'
  <2> SUFFICES ASSUME GateTypeOK, [GateNext]_gateVars PROVE GateTypeOK'
    OBVIOUS
  <2> USE DEF GateTypeOK
  <2>0. /\ cool \in Nat /\ held \in BOOLEAN /\ CoolOff \in Nat /\ PullTime \in Nat
        /\ NextWake(cool) \in Nat
        /\ Asleep \in [at : {"sleep", "cancel", "place"}, plan : Quotings, regime : Regimes,
                       spent : 0..MaxAwait]
    BY GateAssumption, WakeBounds DEF PullTime, Asleep, Quotings, Nothing, Exits, Entries, Regimes
  <2>1. CASE SkipRecompute
    BY <2>0, <2>1 DEF SkipRecompute, Sleep, gateInputs
  <2>2. ASSUME NEW halt \in BOOLEAN, NEW reduce \in BOOLEAN, NEW lively \in BOOLEAN,
               NEW switched \in BOOLEAN, NEW h \in Hours, Recompute(halt, h, reduce, lively, switched)
        PROVE  GateTypeOK'
    <3> DEFINE jump == jumped /\ ~switched
               regime == Regime(halt, HoursToEnd(h), jump, reduce, lively)
    <3>1. jump \in BOOLEAN /\ regime \in Regimes
      BY RegimeIsOne
    <3>2. cool' \in 0..CoolOff
      BY <2>2, <3>1, CoolAfterBounds DEF Recompute
    <3> HIDE DEF jump, regime
    <3>3. cool' \in Nat /\ NextWake(cool') \in Nat
      BY <3>2, <2>0, WakeBounds
    <3>4. task' \in [at : {"sleep", "cancel", "place"}, plan : Quotings, regime : Regimes,
                     spent : 0..MaxAwait]
      <4>1. CASE \E plan \in Plans(regime) :
                   task' = [at |-> "cancel", plan |-> plan, regime |-> regime, spent |-> 0]
        BY <4>1, <3>1, PlansAreQuotings, GateAssumption
      <4>2. CASE task' = Asleep
        BY <4>2, <2>0
      <4> QED
        BY <2>2, <4>1, <4>2 DEF Recompute, Sleep, regime, jump
    <3>5. timer' \in Nat /\ skipped' \in BOOLEAN
      BY <2>2, <3>3 DEF Recompute, Sleep
    <3> QED
      BY <2>2, <3>2, <3>4, <3>5 DEF Recompute, PullTime
  <2>3. CASE Canceled
    BY <2>3, <2>0, GateAssumption DEF Canceled, Sleep, gateInputs, gateHistory, Quotings, Nothing, Exits, Entries, GateLeast, PullTime
  <2>4. CASE CancelFailed
    BY <2>4, <2>0 DEF CancelFailed, Sleep, gateInputs, gateHistory
  <2>5. CASE Placed
    BY <2>5, <2>0 DEF Placed, Sleep, gateInputs, gateHistory, Quotings, Nothing, Exits, Entries
  <2>6. CASE PlaceLater
    BY <2>6, <2>0 DEF PlaceLater, Sleep, gateInputs, gateHistory, Quotings, Nothing, Exits, Entries
  <2>7. CASE ToxicPrint
    <3>1. owed' \in 0..CoolOff
      BY <2>7, <2>0 DEF ToxicPrint
    <3> QED
      BY <2>7, <3>1 DEF ToxicPrint, gateInputs
  <2>8. ASSUME NEW jump \in BOOLEAN, NEW ok \in BOOLEAN, BookMoves(jump, ok) PROVE GateTypeOK'
    BY <2>8 DEF BookMoves, gateHistory
  <2>9. CASE Inventory
    BY <2>9 DEF Inventory, gateHistory
  <2>10. CASE LinkDrops \/ LinkReturns
    BY <2>10, <2>0 DEF LinkDrops, LinkReturns, gateHistory, PullTime
  <2>11. CASE GateTick
    <3>1. cool' \in 0..CoolOff /\ owed' \in 0..CoolOff
      BY <2>11, <2>0, DecNat DEF GateTick
    <3>2. timer' \in Nat
      BY <2>11, DecNat DEF GateTick
    <3>3. task' \in [at : {"sleep", "cancel", "place"}, plan : Quotings, regime : Regimes,
                     spent : 0..MaxAwait]
      BY <2>11, GateAssumption DEF GateTick
    <3>4. down' \in 0..(PullTime + 1)
      BY <2>11, <2>0 DEF GateTick, GateLeast
    <3>5. lost' \in BOOLEAN
      BY <2>11 DEF GateTick
    <3> QED
      BY <2>11, <3>1, <3>2, <3>3, <3>4, <3>5 DEF GateTick, PullTime
  <2>12. CASE UNCHANGED gateVars
    BY <2>12 DEF gateVars, gateInputs, gateHistory, PullTime
  <2> QED
    BY <2>1, <2>2, <2>3, <2>4, <2>5, <2>6, <2>7, <2>8, <2>9, <2>10, <2>11, <2>12 DEF GateNext
<1> QED
  BY <1>1, <1>2, PTL DEF GateSpec

-----------------------------------------------------------------------------
\* A sweep flag is always an event, unless the market is halted.
LEMMA SweepIsAnEvent ==
    ASSUME NEW halt, NEW h, NEW jump, NEW reduce, NEW lively, sweep
    PROVE  Regime(halt, h, jump, reduce, lively) \in {"HALTED", "EVENT"}
BY DEF Regime

\* The flag and the cool-off together cover what a toxic print calls for.
THEOREM SweepCooled == GateSpec => []SweepIsCooled
<1>1. GateInit => SweepIsCooled
  BY DEF GateInit, SweepIsCooled
<1>2. GateTypeOK /\ SweepIsCooled /\ [GateNext]_gateVars => SweepIsCooled'
  <2> SUFFICES ASSUME GateTypeOK, SweepIsCooled, [GateNext]_gateVars PROVE SweepIsCooled'
    OBVIOUS
  <2>1. cool \in Nat /\ owed \in Nat /\ CoolOff \in Nat /\ owed <= CoolOff
    BY GateAssumption DEF GateTypeOK
  <2>2. ASSUME NEW halt \in BOOLEAN, NEW reduce \in BOOLEAN, NEW lively \in BOOLEAN,
               NEW switched \in BOOLEAN, NEW h \in Hours, Recompute(halt, h, reduce, lively, switched)
        PROVE  SweepIsCooled'
    <3> DEFINE jump == jumped /\ ~switched
               regime == Regime(halt, HoursToEnd(h), jump, reduce, lively)
    <3>1. owed' = owed /\ cool' = CoolAfter(regime, jump) /\ lost' = (lost \/ (sweep /\ regime = "HALTED"))
      BY <2>2 DEF Recompute
    <3>2. sweep => regime \in {"HALTED", "EVENT"}
      BY SweepIsAnEvent
    <3> HIDE DEF regime, jump
    <3>3. CASE sweep
      BY <3>1, <3>2, <3>3, <2>1 DEF SweepIsCooled, CoolAfter
    <3>4. CASE ~sweep
      BY <3>1, <3>4, <2>1 DEF SweepIsCooled, CoolAfter
    <3> QED
      BY <3>3, <3>4
  <2>3. CASE GateTick
    <3>1. cool' = Dec(cool) /\ owed' = Dec(owed) /\ sweep' = sweep /\ lost' = (lost /\ owed' > 0)
      BY <2>3 DEF GateTick
    <3>2. SUFFICES ASSUME owed' > 0 PROVE sweep' \/ cool' >= owed' \/ lost'
      BY DEF SweepIsCooled
    <3>3. owed > 0 /\ owed' = owed - 1
      BY <2>1, <3>1, <3>2, DecNat
    <3>4. cool >= owed => cool' >= owed'
      BY <2>1, <3>1, <3>3, DecNat
    <3>5. sweep \/ cool >= owed \/ lost
      BY <3>3 DEF SweepIsCooled
    <3> QED
      BY <3>1, <3>2, <3>4, <3>5
  <2>4. CASE ToxicPrint
    BY <2>4 DEF ToxicPrint, SweepIsCooled
  <2>5. CASE SkipRecompute \/ Canceled \/ CancelFailed \/ Placed \/ PlaceLater
    BY <2>5 DEF SkipRecompute, Canceled, CancelFailed, Placed, PlaceLater, gateHistory, SweepIsCooled
  <2>6. CASE Inventory \/ LinkDrops \/ LinkReturns
    BY <2>6 DEF Inventory, LinkDrops, LinkReturns, gateHistory, SweepIsCooled
  <2>7. ASSUME NEW jump \in BOOLEAN, NEW ok \in BOOLEAN, BookMoves(jump, ok) PROVE SweepIsCooled'
    BY <2>7 DEF BookMoves, gateHistory, SweepIsCooled
  <2>8. CASE UNCHANGED gateVars
    BY <2>8 DEF gateVars, gateHistory, SweepIsCooled
  <2> QED
    BY <2>2, <2>3, <2>4, <2>5, <2>6, <2>7, <2>8 DEF GateNext
<1> QED
  BY <1>1, <1>2, GateTypeCorrect, PTL DEF GateSpec

\* Only a recompute leaves the sleep with a plan, and one that plans a quote
\* found neither flag nor cool-off: with the invariant, nothing is owed.
THEOREM NoQuoteInCoolOff == GateSpec => NoQuoteWhileOwed
<1> DEFINE Keeps == task.at = "sleep" /\ task'.at # "sleep" /\ task'.plan # Nothing
                       => owed = 0 \/ lost
<1>1. GateTypeOK /\ SweepIsCooled /\ [GateNext]_gateVars => [Keeps]_gateVars
  <2> SUFFICES ASSUME GateTypeOK, SweepIsCooled, GateNext,
                      task.at = "sleep", task'.at # "sleep", task'.plan # Nothing
               PROVE  owed = 0 \/ lost
    OBVIOUS
  <2>1. cool \in Nat /\ owed \in Nat /\ sweep \in BOOLEAN /\ jumped \in BOOLEAN
    BY GateAssumption DEF GateTypeOK
  <2>2. ASSUME NEW halt \in BOOLEAN, NEW reduce \in BOOLEAN, NEW lively \in BOOLEAN,
               NEW switched \in BOOLEAN, NEW h \in Hours, Recompute(halt, h, reduce, lively, switched)
        PROVE  owed = 0 \/ lost
    <3> DEFINE jump == jumped /\ ~switched
               regime == Regime(halt, HoursToEnd(h), jump, reduce, lively)
    <3>1. PICK plan \in Plans(regime) :
             task' = [at |-> "cancel", plan |-> plan, regime |-> regime, spent |-> 0]
      BY <2>2 DEF Recompute, Sleep, Asleep
    <3>2. plan # Nothing
      BY <3>1
    <3>3. ~sweep /\ cool = 0
      BY <2>1, <3>2, QuotesNeedCalm
    <3> QED
      BY <2>1, <3>3 DEF SweepIsCooled
  <2>3. CASE SkipRecompute
    BY <2>3 DEF SkipRecompute, Sleep, Asleep
  <2>4. CASE Canceled \/ CancelFailed \/ Placed \/ PlaceLater
    BY <2>4 DEF Canceled, CancelFailed, Placed, PlaceLater
  <2>5. CASE ToxicPrint \/ Inventory \/ LinkDrops \/ LinkReturns \/ GateTick
    BY <2>5 DEF ToxicPrint, Inventory, LinkDrops, LinkReturns, GateTick
  <2>6. ASSUME NEW jump \in BOOLEAN, NEW ok \in BOOLEAN, BookMoves(jump, ok) PROVE owed = 0 \/ lost
    BY <2>6 DEF BookMoves
  <2> QED
    BY <2>2, <2>3, <2>4, <2>5, <2>6 DEF GateNext
<1> QED
  BY <1>1, GateTypeCorrect, SweepCooled, PTL DEF GateSpec, NoQuoteWhileOwed

-----------------------------------------------------------------------------
\* A quoter that goes to sleep sets its timer by the cool-off, and the two run
\* down together.
THEOREM ReentryIsPrompt == GateSpec => []PromptReentry
<1>1. GateInit => PromptReentry
  BY DEF GateInit, PromptReentry
<1>2. GateTypeOK /\ GateTypeOK' /\ PromptReentry /\ [GateNext]_gateVars => PromptReentry'
  <2> SUFFICES ASSUME GateTypeOK, GateTypeOK', PromptReentry, [GateNext]_gateVars
               PROVE  PromptReentry'
    OBVIOUS
  <2>1. cool \in Nat /\ timer \in Nat /\ held \in BOOLEAN /\ cool' \in Nat
    BY GateAssumption DEF GateTypeOK
  <2>2. ASSUME NEW c \in Nat, cool' = c, Sleep(c) PROVE PromptReentry'
    BY <2>1, <2>2, WakeBounds DEF Sleep, PromptReentry
  <2>3. CASE SkipRecompute \/ Canceled \/ CancelFailed \/ Placed \/ PlaceLater
    <3>1. cool' = cool
      BY <2>3 DEF SkipRecompute, Canceled, CancelFailed, Placed, PlaceLater
    <3>2. Sleep(cool) \/ task'.at # "sleep"
      BY <2>3 DEF SkipRecompute, Canceled, CancelFailed, Placed, PlaceLater, GateTypeOK
    <3> QED
      BY <2>1, <2>2, <3>1, <3>2 DEF PromptReentry
  <2>4. ASSUME NEW halt \in BOOLEAN, NEW reduce \in BOOLEAN, NEW lively \in BOOLEAN,
               NEW switched \in BOOLEAN, NEW h \in Hours, Recompute(halt, h, reduce, lively, switched)
        PROVE  PromptReentry'
    <3>1. Sleep(cool') \/ task'.at # "sleep"
      BY <2>4 DEF Recompute
    <3> QED
      BY <2>1, <2>2, <3>1 DEF PromptReentry
  <2>5. CASE GateTick
    <3>1. CASE task.at = "sleep"
      BY <2>1, <2>5, <3>1, DecNat DEF GateTick, PromptReentry
    <3>2. CASE task.at # "sleep"
      BY <2>5, <3>2 DEF GateTick, PromptReentry, GateTypeOK
    <3> QED
      BY <3>1, <3>2
  <2>6. CASE ToxicPrint \/ Inventory \/ LinkDrops \/ LinkReturns
    BY <2>6 DEF ToxicPrint, Inventory, LinkDrops, LinkReturns, PromptReentry
  <2>7. ASSUME NEW jump \in BOOLEAN, NEW ok \in BOOLEAN, BookMoves(jump, ok) PROVE PromptReentry'
    BY <2>7 DEF BookMoves, PromptReentry
  <2>8. CASE UNCHANGED gateVars
    BY <2>8 DEF gateVars, PromptReentry
  <2> QED
    BY <2>3, <2>4, <2>5, <2>6, <2>7, <2>8 DEF GateNext
<1> QED
  BY <1>1, <1>2, GateTypeCorrect, PTL DEF GateSpec

-----------------------------------------------------------------------------
\* A plan that quotes was made while the link was fresh, and has aged no more
\* than its await; what rests while the quoter sleeps is looked at again before
\* the link is down for too long.
PlansAreFresh ==
    task.at \in {"cancel", "place"} /\ task.plan # Nothing => down <= StaleHalt + task.spent

\* Whoever places has something to place.
PlacesQuotes == task.at = "place" => task.plan # Nothing

\* A quoter that sleeps over orders wakes before they are too old.
LooksInTime ==
    task.at = "sleep" /\ ~dirty /\ ~skipped /\ resting # Nothing => down + timer <= PullTime

\* The invariant.
GateInv == GateTypeOK /\ timer <= BaseTick /\ PlansAreFresh /\ PlacesQuotes /\ LooksInTime

\* A quoter that sleeps while the link is not yet stale beyond an await looks
\* again in time.
LEMMA SleepInTime ==
    ASSUME NEW c \in Nat, held \in BOOLEAN, down \in Nat, down <= StaleHalt + MaxAwait
    PROVE  NextWake(c) \in Nat /\ NextWake(c) <= BaseTick /\ down + NextWake(c) <= PullTime
BY GateAssumption, WakeBounds DEF PullTime

\* What is left when the link is down for too long was not planned.
THEOREM PulledInTime == GateSpec => []PulledWhenBlind
<1>1. GateInit => GateInv
  <2> SUFFICES ASSUME GateInit PROVE GateInv
    OBVIOUS
  <2>1. GateTypeOK
    BY GateInitTyped
  <2> QED
    BY <2>1, GateAssumption DEF GateInit, GateInv, PlansAreFresh, PlacesQuotes, LooksInTime, Asleep
<1>2. GateInv /\ GateTypeOK' /\ [GateNext]_gateVars => GateInv'
  <2> SUFFICES ASSUME GateInv, GateTypeOK', [GateNext]_gateVars
               PROVE  (timer <= BaseTick /\ PlansAreFresh /\ PlacesQuotes /\ LooksInTime)'
    BY DEF GateInv
  <2> USE DEF PlansAreFresh, PlacesQuotes, LooksInTime
  <2>1. /\ cool \in Nat /\ timer \in Nat /\ held \in BOOLEAN /\ down \in Nat /\ cool' \in Nat
        /\ BaseTick \in Nat /\ timer <= BaseTick /\ PullTime \in Nat
        /\ StaleHalt \in Nat \ {0} /\ MaxAwait \in Nat /\ sweep \in BOOLEAN /\ jumped \in BOOLEAN
    BY GateAssumption DEF GateInv, GateTypeOK, PullTime
  <2>2. /\ task.at \in {"sleep", "cancel", "place"} /\ task.spent \in Nat /\ task.spent <= MaxAwait
        /\ dirty \in BOOLEAN /\ skipped \in BOOLEAN
    BY GateAssumption DEF GateInv, GateTypeOK
  <2>3. PlansAreFresh /\ PlacesQuotes /\ LooksInTime
    BY DEF GateInv
  <2>4. Asleep.at = "sleep"
    BY DEF Asleep
  <2>5. CASE SkipRecompute
    <3>1. task' = Asleep /\ skipped' /\ timer' = NextWake(cool)
      BY <2>5 DEF SkipRecompute, Sleep
    <3> QED
      BY <2>1, <2>4, <3>1, WakeBounds
  <2>6. ASSUME NEW halt \in BOOLEAN, NEW reduce \in BOOLEAN, NEW lively \in BOOLEAN,
               NEW switched \in BOOLEAN, NEW h \in Hours, Recompute(halt, h, reduce, lively, switched)
        PROVE  (timer <= BaseTick /\ PlansAreFresh /\ PlacesQuotes /\ LooksInTime)'
    <3> DEFINE jump == jumped /\ ~switched
               regime == Regime(halt, HoursToEnd(h), jump, reduce, lively)
    <3>1. ASSUME NEW plan \in Plans(regime), plan # Nothing PROVE down <= StaleHalt
      <4>1. ~MarketStale
        BY <2>1, <3>1, QuotesNeedCalm
      <4> QED
        BY <2>1, <4>1 DEF MarketStale
    <3> HIDE DEF jump, regime
    <3>2. ASSUME NEW plan \in Plans(regime), timer' = timer,
                 task' = [at |-> "cancel", plan |-> plan, regime |-> regime, spent |-> 0]
          PROVE  (timer <= BaseTick /\ PlansAreFresh /\ PlacesQuotes /\ LooksInTime)'
      <4>1. down' = down
        BY <2>6 DEF Recompute
      <4>2. task'.at = "cancel" /\ task'.plan = plan /\ task'.spent = 0
        BY <3>2
      <4> QED
        BY <2>1, <3>1, <3>2, <4>1, <4>2
    <3>3. ASSUME resting \in Plans(regime), Sleep(cool')
          PROVE  (timer <= BaseTick /\ PlansAreFresh /\ PlacesQuotes /\ LooksInTime)'
      <4>1. down' = down /\ resting' = resting
        BY <2>6 DEF Recompute
      <4>2. task'.at = "sleep" /\ timer' = NextWake(cool')
        BY <2>4, <3>3 DEF Sleep
      <4>3. timer' <= BaseTick
        BY <2>1, <4>2, WakeBounds
      <4>4. resting # Nothing => down <= StaleHalt
        BY <3>1, <3>3
      <4>5. resting # Nothing => down + NextWake(cool') <= PullTime
        BY <2>1, <4>4, SleepInTime
      <4> QED
        BY <4>1, <4>2, <4>3, <4>5
    <3>4. ASSUME skipped', Sleep(cool')
          PROVE  (timer <= BaseTick /\ PlansAreFresh /\ PlacesQuotes /\ LooksInTime)'
      BY <2>1, <2>4, <3>4, WakeBounds DEF Sleep
    <3> QED
      BY <2>6, <3>2, <3>3, <3>4 DEF Recompute, regime, jump
  <2>7. CASE Canceled
    <3>1. down' = down /\ cool' = cool
      BY <2>7 DEF Canceled, gateInputs
    <3>2. CASE task.plan = Nothing
      <4>1. task'.at = "sleep" /\ timer' = NextWake(cool)
        BY <2>4, <2>7, <3>2 DEF Canceled, Sleep
      <4>2. PICK kept \in Nothing..GateLeast(resting, task.plan) : resting' = kept
        BY <2>7 DEF Canceled
      <4>3. resting \in Nat
        BY DEF GateInv, GateTypeOK, Quotings, Nothing, Exits, Entries
      <4>4. resting' = Nothing
        BY <3>2, <4>2, <4>3 DEF GateLeast, Nothing
      <4> QED
        BY <2>1, <4>1, <4>4, WakeBounds
    <3>3. CASE task.plan # Nothing
      <4>1. timer' = timer /\ task' = [task EXCEPT !.at = "place"]
        BY <2>7, <3>3 DEF Canceled
      <4>2. task'.at = "place" /\ task'.plan = task.plan /\ task'.spent = task.spent
        BY <4>1 DEF GateInv, GateTypeOK
      <4> QED
        BY <2>1, <2>3, <2>7, <3>1, <3>3, <4>1, <4>2 DEF Canceled
    <3> QED
      BY <3>2, <3>3
  <2>8. CASE CancelFailed \/ PlaceLater
    <3>1. dirty' /\ task'.at = "sleep" /\ timer' = NextWake(cool)
      BY <2>4, <2>8 DEF CancelFailed, PlaceLater, Sleep
    <3> QED
      BY <2>1, <3>1, WakeBounds
  <2>9. CASE Placed
    <3>1. task'.at = "sleep" /\ timer' = NextWake(cool) /\ down' = down
      BY <2>4, <2>9 DEF Placed, Sleep, gateInputs
    <3>2. down <= StaleHalt + MaxAwait
      <4>1. task.at = "place" /\ task.plan # Nothing
        BY <2>3, <2>9 DEF Placed
      <4>2. down <= StaleHalt + task.spent
        BY <2>3, <4>1
      <4> QED
        BY <2>1, <2>2, <4>2
    <3> QED
      BY <2>1, <3>1, <3>2, SleepInTime
  <2>10. CASE GateTick
    <3>1. down' \in Nat /\ (down = 0 => down' = 0) /\ down' <= down + 1
      BY <2>1, <2>10 DEF GateTick, GateLeast
    <3>2. CASE task.at = "sleep"
      <4>1. task' = task /\ timer' = Dec(timer) /\ dirty' = dirty /\ skipped' = skipped /\ resting' = resting
        BY <2>10, <3>2 DEF GateTick
      <4>2. ~dirty => timer > 0
        BY <2>1, <2>10, <3>2 DEF GateTick, Ready
      <4>3. ~dirty => timer' = timer - 1
        BY <2>1, <4>1, <4>2, DecNat
      <4>4. timer' <= BaseTick
        BY <2>1, <4>1, DecNat
      <4> QED
        BY <2>1, <2>2, <2>3, <3>1, <3>2, <4>1, <4>3, <4>4
    <3>3. CASE task.at # "sleep"
      <4>1. task' = [task EXCEPT !.spent = @ + 1] /\ timer' = timer
        BY <2>10, <3>3 DEF GateTick
      <4>2. task'.at = task.at /\ task'.plan = task.plan /\ task'.spent = task.spent + 1
        BY <4>1 DEF GateInv, GateTypeOK
      <4> QED
        BY <2>1, <2>2, <2>3, <3>1, <3>3, <4>1, <4>2
    <3> QED
      BY <3>2, <3>3
  <2>11. CASE ToxicPrint
    BY <2>1, <2>3, <2>11 DEF ToxicPrint, gateInputs
  <2>12. CASE LinkDrops
    <3>1. task' = task /\ timer' = timer /\ down' = 1
      BY <2>12 DEF LinkDrops
    <3>2. 1 + timer <= PullTime
      BY <2>1, GateAssumption DEF PullTime
    <3> QED
      BY <2>1, <2>2, <2>3, <3>1, <3>2
  <2>13. CASE LinkReturns
    <3>1. task' = task /\ timer' = timer /\ down' = 0
      BY <2>13 DEF LinkReturns
    <3>2. timer <= PullTime
      BY <2>1, GateAssumption DEF PullTime
    <3> QED
      BY <2>1, <2>2, <2>3, <3>1, <3>2
  <2>14. CASE Inventory
    <3>1. task' = task /\ timer' = timer /\ down' = down /\ dirty'
      BY <2>14 DEF Inventory
    <3> QED
      BY <2>1, <2>3, <3>1
  <2>15. ASSUME NEW jump \in BOOLEAN, NEW ok \in BOOLEAN, BookMoves(jump, ok)
         PROVE  (timer <= BaseTick /\ PlansAreFresh /\ PlacesQuotes /\ LooksInTime)'
    BY <2>1, <2>3, <2>15 DEF BookMoves, gateHistory
  <2>16. CASE UNCHANGED gateVars
    BY <2>1, <2>3, <2>16 DEF gateVars, gateInputs, gateHistory
  <2> QED
    BY <2>5, <2>6, <2>7, <2>8, <2>9, <2>10, <2>11, <2>12, <2>13, <2>14, <2>15, <2>16 DEF GateNext
<1>3. GateInv => PulledWhenBlind
  <2> SUFFICES ASSUME GateInv, task.at = "sleep", down > PullTime, ~dirty, resting # Nothing, ~skipped
               PROVE  FALSE
    BY DEF PulledWhenBlind
  <2>1. down + timer <= PullTime
    BY DEF GateInv, LooksInTime
  <2> QED
    BY <2>1, GateAssumption DEF GateInv, GateTypeOK, PullTime
<1> QED
  BY <1>1, <1>2, <1>3, GateTypeCorrect, PTL DEF GateSpec

-----------------------------------------------------------------------------
(* The answers to placements (OrderResults).                               *)

\* One more attempt keeps the errors within the attempts.
LEMMA NoteOrderResultTyped ==
    ASSUME NEW ok \in BOOLEAN, attempts \in Nat, errors \in 0..attempts, NoteOrderResult(ok)
    PROVE  attempts' \in Nat /\ errors' \in 0..attempts'
BY DEF NoteOrderResult

\* A market without a placement.
LEMMA NoCallTyped ==
    [k \in Markets |-> NoCall] \in [Markets -> [at : {"none", "bucket", "posted", "sync"},
                                                batch : Batches \cup {<< >>}]]
BY DEF NoCall

\* A life of the process begins well typed.
LEMMA FreshTyped ==
    /\ [k \in Markets |-> 0] \in [Markets -> Nat]
    /\ 0 \in 0..0 /\ {} \subseteq Markets
OBVIOUS

\* An update of one market's call.
LEMMA CallUpdateTyped ==
    ASSUME NEW k \in Markets, NEW at \in {"none", "bucket", "posted", "sync"},
           NEW batch \in Batches \cup {<< >>}, ResultsTypeOK
    PROVE  /\ [call EXCEPT ![k] = [at |-> at, batch |-> batch]]
                 \in [Markets -> [at : {"none", "bucket", "posted", "sync"},
                                  batch : Batches \cup {<< >>}]]
           /\ [call EXCEPT ![k].at = at]
                 \in [Markets -> [at : {"none", "bucket", "posted", "sync"},
                                  batch : Batches \cup {<< >>}]]
BY DEF ResultsTypeOK

\* Every reachable state is well typed, and no more placements failed than were
\* attempted.
THEOREM ResultsTypeCorrect == ResultsSpec => []ResultsTypeOK
<1>1. ResultsInit => ResultsTypeOK
  <2> SUFFICES ASSUME ResultsInit PROVE ResultsTypeOK
    OBVIOUS
  <2>1. attempts \in Nat /\ errors \in 0..attempts
    BY FreshTyped DEF ResultsInit
  <2> QED
    BY <2>1, NoCallTyped, FreshTyped, Zenon DEF ResultsInit, ResultsTypeOK
<1>2. ResultsTypeOK /\ [ResultsNext]_resultVars => ResultsTypeOK'
  <2> SUFFICES ASSUME ResultsTypeOK, [ResultsNext]_resultVars PROVE ResultsTypeOK'
    OBVIOUS
  <2>1. ASSUME NEW k \in Markets, NEW batch \in Batches, NEW losing \in BOOLEAN,
               Decide(k, batch, losing)
        PROVE  ResultsTypeOK'
    <3>1. call' = [call EXCEPT ![k] = [at |-> "bucket", batch |-> batch]]
      BY <2>1 DEF Decide
    <3> QED
      BY <2>1, <3>1, CallUpdateTyped DEF Decide, ResultsTypeOK, breakerVars
  <2>2. ASSUME NEW k \in Markets, SendOut(k) PROVE ResultsTypeOK'
    <3>1. call' = [call EXCEPT ![k].at = "posted"]
      BY <2>2 DEF SendOut
    <3>2. call' \in [Markets -> [at : {"none", "bucket", "posted", "sync"},
                                 batch : Batches \cup {<< >>}]]
      BY <3>1, CallUpdateTyped DEF ResultsTypeOK
    <3> QED
      BY <2>2, <3>2 DEF SendOut, ResultsTypeOK, breakerVars
  <2>3. ASSUME NEW k \in Markets, Synced(k) PROVE ResultsTypeOK'
    <3>1. call' = [call EXCEPT ![k] = [at |-> "none", batch |-> << >>]]
      BY <2>3 DEF Synced, NoCall
    <3>2. attempts' \in Nat /\ errors' \in 0..attempts'
      BY <2>3, NoteOrderResultTyped DEF Synced, ResultsTypeOK
    <3> QED
      BY <2>3, <3>1, <3>2, CallUpdateTyped DEF Synced, ResultsTypeOK
  <2>4. ASSUME NEW k \in Markets, NEW out, out.complete \in BOOLEAN, out.soft \in BOOLEAN,
               Answered(k, out)
        PROVE  ResultsTypeOK'
    <3>1. CASE AnsweredHard(k, out)
      <4>1. call' = [call EXCEPT ![k] = [at |-> "none", batch |-> << >>]]
        BY <3>1 DEF AnsweredHard, NoCall
      <4>2. attempts' \in Nat /\ errors' \in 0..attempts'
        BY <2>4, <3>1, NoteOrderResultTyped DEF AnsweredHard, ResultsTypeOK
      <4> QED
        BY <3>1, <4>1, <4>2, CallUpdateTyped DEF AnsweredHard, ResultsTypeOK
    <3>2. CASE AnsweredSoft(k, out)
      <4>1. softRun' \in [Markets -> Nat] /\ unswept' \in [Markets -> Nat]
        BY <3>2 DEF AnsweredSoft, StreakAfter, ResultsTypeOK
      <4>2. softBy' \subseteq Markets /\ killed' \in BOOLEAN
        BY <3>2 DEF AnsweredSoft, ResultsTypeOK
      <4>3. CASE StreakAfter(k) >= SoftStreak
        <5>1. call' = [call EXCEPT ![k] = [at |-> "none", batch |-> << >>]]
          BY <3>2, <4>3 DEF AnsweredSoft, NoCall
        <5>2. attempts' \in Nat /\ errors' \in 0..attempts'
          BY <3>2, <4>3, NoteOrderResultTyped DEF AnsweredSoft, ResultsTypeOK
        <5> QED
          BY <4>1, <4>2, <5>1, <5>2, CallUpdateTyped DEF ResultsTypeOK
      <4>4. CASE ~(StreakAfter(k) >= SoftStreak)
        <5>1. call' = [call EXCEPT ![k].at = "sync"] /\ attempts' = attempts /\ errors' = errors
          BY <3>2, <4>4 DEF AnsweredSoft
        <5> QED
          BY <4>1, <4>2, <5>1, CallUpdateTyped DEF ResultsTypeOK
      <4> QED
        BY <4>3, <4>4
    <3> QED
      BY <2>4, <3>1, <3>2 DEF Answered
  <2>5. CASE Kill
    BY <2>5 DEF Kill, ResultsTypeOK
  <2>6. CASE ResultsRestart
    <3>1. attempts' \in Nat /\ errors' \in 0..attempts'
      BY <2>6, FreshTyped DEF ResultsRestart
    <3> QED
      BY <2>6, <3>1, NoCallTyped, FreshTyped, Zenon DEF ResultsRestart, ResultsTypeOK
  <2>7. CASE UNCHANGED resultVars
    BY <2>7 DEF resultVars, breakerVars, ResultsTypeOK
  <2>8. ASSUME NEW k \in Markets, NEW answer \in [DOMAIN call[k].batch -> Answers]
        PROVE  LET out == Outcome(call[k].batch, answer)
               IN  out.complete \in BOOLEAN /\ out.soft \in BOOLEAN
    BY DEF Outcome
  <2>9. ASSUME NEW failure \in Failures
        PROVE  FailedOutcome(failure).complete \in BOOLEAN /\ FailedOutcome(failure).soft \in BOOLEAN
    BY DEF FailedOutcome, Transient
  <2> QED
    BY <2>1, <2>2, <2>3, <2>4, <2>5, <2>6, <2>7, <2>8, <2>9 DEF ResultsNext
<1> QED
  BY <1>1, <1>2, PTL DEF ResultsSpec

-----------------------------------------------------------------------------
\* The market's own streak, which the code escalates by, counts at least every
\* placement since the last sweep that was incomplete.
EscalationInv ==
    \A k \in Markets : unswept[k] <= softRun[k] /\ unswept[k] < SoftStreak

\* A market is swept by its SoftStreak-th incomplete placement in a row.
THEOREM FailuresAreSwept == ResultsSpec => []FailuresEscalate
<1>1. ResultsInit => EscalationInv
  <2> SUFFICES ASSUME ResultsInit, NEW k \in Markets
               PROVE  unswept[k] <= softRun[k] /\ unswept[k] < SoftStreak
    BY DEF EscalationInv
  <2>1. unswept[k] = 0 /\ softRun[k] = 0
    BY DEF ResultsInit
  <2> QED
    BY <2>1, ResultsAssumption
<1>2. ResultsTypeOK /\ EscalationInv /\ [ResultsNext]_resultVars => EscalationInv'
  <2> SUFFICES ASSUME ResultsTypeOK, EscalationInv, [ResultsNext]_resultVars PROVE EscalationInv'
    OBVIOUS
  <2>1. softRun \in [Markets -> Nat] /\ unswept \in [Markets -> Nat] /\ SoftStreak \in Nat \ {0}
    BY ResultsAssumption DEF ResultsTypeOK
  <2>2. ASSUME NEW k \in Markets, NEW out, Answered(k, out) PROVE EscalationInv'
    <3>1. CASE AnsweredHard(k, out)
      BY <2>1, <3>1 DEF AnsweredHard, EscalationInv
    <3>2. CASE AnsweredSoft(k, out)
      <4>1. CASE StreakAfter(k) >= SoftStreak
        BY <2>1, <3>2, <4>1 DEF AnsweredSoft, StreakAfter, EscalationInv
      <4>2. CASE ~(StreakAfter(k) >= SoftStreak)
        BY <2>1, <3>2, <4>2 DEF AnsweredSoft, StreakAfter, EscalationInv
      <4> QED
        BY <4>1, <4>2
    <3> QED
      BY <2>2, <3>1, <3>2 DEF Answered
  <2>3. ASSUME NEW k \in Markets, SendOut(k) \/ Synced(k) PROVE EscalationInv'
    BY <2>3 DEF SendOut, Synced, EscalationInv
  <2>4. ASSUME NEW k \in Markets, NEW batch \in Batches, NEW losing \in BOOLEAN,
               Decide(k, batch, losing)
        PROVE  EscalationInv'
    BY <2>4 DEF Decide, EscalationInv
  <2>5. CASE Kill
    BY <2>5 DEF Kill, EscalationInv
  <2>6. CASE ResultsRestart
    BY <2>1, <2>6 DEF ResultsRestart, EscalationInv
  <2>7. CASE UNCHANGED resultVars
    BY <2>7 DEF resultVars, EscalationInv
  <2> QED
    BY <2>2, <2>3, <2>4, <2>5, <2>6, <2>7 DEF ResultsNext
<1>3. EscalationInv => FailuresEscalate
  BY DEF EscalationInv, FailuresEscalate
<1> QED
  BY <1>1, <1>2, <1>3, ResultsTypeCorrect, PTL DEF ResultsSpec

\* With nothing under way, a tripped error rate stops every placement, and only
\* placements could bring it down.
THEOREM TrippedForGood == ResultsSpec => TrippedStays
<1> DEFINE Stays == Tripped /\ InFlight = {} =>
                       \/ Tripped' /\ InFlight' = {}
                       \/ ResultsRestart
<1>1. [ResultsNext]_resultVars => [Stays]_resultVars
  <2> SUFFICES ASSUME ResultsNext, Tripped, InFlight = {}, ~ResultsRestart
               PROVE  Tripped' /\ InFlight' = {}
    OBVIOUS
  <2>1. \A k \in Markets : call[k].at = "none"
    BY DEF InFlight
  <2>2. ASSUME NEW k \in Markets PROVE ~SendOut(k) /\ ~Synced(k)
    BY <2>1 DEF SendOut, Synced
  <2>3. ASSUME NEW k \in Markets, NEW out PROVE ~Answered(k, out)
    BY <2>1 DEF Answered
  <2>4. ASSUME NEW k \in Markets, NEW batch, NEW losing PROVE ~Decide(k, batch, losing)
    BY DEF Decide, GlobalHalt
  <2>5. Kill
    BY <2>2, <2>3, <2>4 DEF ResultsNext
  <2> QED
    BY <2>5 DEF Kill, Tripped, InFlight
<1> QED
  BY <1>1, PTL DEF ResultsSpec, TrippedStays
=============================================================================
