---------------------------- MODULE EngineProofs ----------------------------
(***************************************************************************)
(* What the machines of MCEngine keep to: with any prices, tick sizes and  *)
(* messages under way, the book follows the exchange's and a quoter that   *)
(* waits has seen it as it is; with any markets, amounts and number of     *)
(* transactions, the lock keeps the nonces of merges apart until a task    *)
(* gives up, and an amount that nothing excuses is never too large; with   *)
(* any tasks, through any number of crashes and restarts, the switch is    *)
(* armed before the first post and the old orders are known before the     *)
(* first quote.                                                            *)
(***************************************************************************)
EXTENDS MCEngine, FoldLemmas, SequenceTheorems

-----------------------------------------------------------------------------
(* The market data of a token (MarketFeed).                                *)

\* What the websocket carries.
Messages ==
    [kind : {"book"}, levels : SUBSET Prices, tick : Ticks]
      \cup [kind : {"price_change"}, price : Prices, there : BOOLEAN]
      \cup [kind : {"tick_size_change"}, tick : Ticks]

\* The types, with the messages under way.
FeedTyped == FeedTypeOK /\ wire \in Seq(Messages)

\* A message leaves a book of the market's prices and a tick size of its own,
\* and one that wakes nobody leaves the book as it was.
LEMMA AppliedTyped ==
    ASSUME NEW msg \in Messages, NEW levels \in SUBSET Prices, NEW t \in Ticks
    PROVE  /\ Applied(levels, msg) \in SUBSET Prices /\ TickAfter(t, msg) \in Ticks
           /\ ~Wakes(msg) => Applied(levels, msg) = levels
<1>1. CASE msg \in [kind : {"book"}, levels : SUBSET Prices, tick : Ticks]
  <2>1. msg.kind = "book" /\ msg.levels \in SUBSET Prices /\ msg.tick \in Ticks
    BY <1>1
  <2>2. Applied(levels, msg) = msg.levels
    BY <2>1, Zenon DEF Applied
  <2> QED
    BY <2>1, <2>2 DEF TickAfter, Wakes
<1>2. CASE msg \in [kind : {"price_change"}, price : Prices, there : BOOLEAN]
  <2>1. msg.kind = "price_change" /\ msg.price \in Prices
    BY <1>2
  <2>2. Applied(levels, msg) = ApplyDelta(levels, msg.price, msg.there)
    BY <2>1, Zenon DEF Applied
  <2> QED
    BY <2>1, <2>2 DEF ApplyDelta, TickAfter, Wakes
<1>3. CASE msg \in [kind : {"tick_size_change"}, tick : Ticks]
  <2>1. msg.kind = "tick_size_change" /\ msg.tick \in Ticks
    BY <1>3
  <2>2. Applied(levels, msg) = levels
    BY <2>1, Zenon DEF Applied
  <2> QED
    BY <2>1, <2>2 DEF TickAfter
<1> QED
  BY <1>1, <1>2, <1>3 DEF Messages

\* A message of the exchange goes in line while the link holds.
LEMMA PushTyped ==
    ASSUME FeedTyped, NEW msg \in Messages, Push(msg)
    PROVE  /\ wire' \in Seq(Messages)
           /\ ~link => wire' = << >>
BY DEF FeedTyped, FeedTypeOK, Push

\* Messages are of three kinds.
LEMMA KindsOfMessages ==
    ASSUME NEW msgs \in Seq(Messages)
    PROVE  \A i \in DOMAIN msgs : msgs[i].kind \in {"book", "price_change", "tick_size_change"}
<1> TAKE i \in DOMAIN msgs
<1>1. msgs[i] \in Messages
  OBVIOUS
<1> QED
  BY <1>1 DEF Messages

-----------------------------------------------------------------------------
\* The initial states are well typed.
LEMMA FeedInitTyped == FeedInit => FeedTyped
<1> SUFFICES ASSUME FeedInit PROVE FeedTyped
  OBVIOUS
<1>1. exchTick \in Ticks /\ tick \in Ticks
  BY FeedAssumption DEF FeedInit
<1>2. wire = << >> /\ wire \in Seq(Messages)
  BY DEF FeedInit
<1>3. refresh \in [at : {"idle", "asked", "answered"}, shown : SUBSET Prices]
  BY DEF FeedInit, NoRefresh
<1>4. moves \in 0..MaxMoves /\ missed \in 0..MaxMissed
  BY FeedAssumption DEF FeedInit
<1> QED
  BY <1>1, <1>2, <1>3, <1>4, KindsOfMessages DEF FeedInit, FeedTyped, FeedTypeOK

\* Every step keeps the types.
LEMMA FeedTypedStep == FeedTyped /\ [FeedNext]_feedVars => FeedTyped'
<1> SUFFICES ASSUME FeedTyped, [FeedNext]_feedVars PROVE FeedTyped'
  OBVIOUS
<1>0. MaxMoves \in Nat /\ MaxMissed \in Nat /\ wire \in Seq(Messages)
  BY FeedAssumption DEF FeedTyped
<1>1. ASSUME NEW p \in Prices, Move(p) PROVE FeedTyped'
  <2>1. Delta(p, p \notin exch) \in Messages
    BY DEF Delta, Messages
  <2>2. wire' \in Seq(Messages) /\ (~link => wire' = << >>)
    BY <1>1, <2>1, PushTyped DEF Move
  <2>3. moves' \in 0..MaxMoves /\ exch' \subseteq Prices
    BY <1>0, <1>1 DEF Move, FeedTyped, FeedTypeOK
  <2> QED
    BY <1>1, <2>2, <2>3, KindsOfMessages DEF Move, FeedTyped, FeedTypeOK
<1>2. ASSUME NEW t \in Ticks, MoveTick(t) PROVE FeedTyped'
  <2>1. TickChange(t) \in Messages
    BY DEF TickChange, Messages
  <2>2. wire' \in Seq(Messages) /\ (~link => wire' = << >>)
    BY <1>2, <2>1, PushTyped DEF MoveTick
  <2>3. moves' \in 0..MaxMoves /\ exchTick' \in Ticks
    BY <1>0, <1>2 DEF MoveTick, FeedTyped, FeedTypeOK
  <2> QED
    BY <1>2, <2>2, <2>3, KindsOfMessages DEF MoveTick, FeedTyped, FeedTypeOK
<1>3. CASE LinkUp
  <2>1. Snapshot(exch, exchTick) \in Messages
    BY DEF Snapshot, Messages, FeedTyped, FeedTypeOK
  <2>2. wire' \in Seq(Messages)
    BY <1>3, <2>1 DEF LinkUp
  <2> QED
    BY <1>3, <2>2, KindsOfMessages DEF LinkUp, FeedTyped, FeedTypeOK
<1>4. CASE LinkDown
  <2>1. wire' = << >> /\ wire' \in Seq(Messages)
    BY <1>4 DEF LinkDown
  <2> QED
    BY <1>4, <2>1, KindsOfMessages DEF LinkDown, FeedTyped, FeedTypeOK
<1>5. CASE Receive
  <2>1. Head(wire) \in Messages /\ wire' \in Seq(Messages) /\ (wire = << >> => FALSE)
    BY <1>0, <1>5 DEF Receive
  <2>2. book' \in SUBSET Prices /\ tick' \in Ticks
    BY <1>5, <2>1, AppliedTyped DEF Receive, FeedTyped, FeedTypeOK
  <2>3. link' = link /\ link
    BY <1>5, <2>1 DEF Receive, FeedTyped, FeedTypeOK
  <2>4. woken' \in BOOLEAN /\ clean' \in BOOLEAN /\ overtaken' \in BOOLEAN
    BY <1>5 DEF Receive
  <2> QED
    BY <1>5, <2>1, <2>2, <2>3, <2>4, KindsOfMessages DEF Receive, FeedTyped, FeedTypeOK
<1>6. CASE Miss
  <2>1. wire' \in Seq(Messages) /\ wire # << >>
    BY <1>0, <1>6 DEF Miss
  <2>2. missed' \in 0..MaxMissed
    BY <1>0, <1>6 DEF Miss, FeedTyped, FeedTypeOK
  <2> QED
    BY <1>6, <2>1, <2>2, KindsOfMessages DEF Miss, FeedTyped, FeedTypeOK
<1>7. CASE Ask
  BY <1>7 DEF Ask, NoRefresh, FeedTyped, FeedTypeOK
<1>8. CASE Answer
  BY <1>8 DEF Answer, FeedTyped, FeedTypeOK
<1>9. CASE AnswerFails
  BY <1>9 DEF AnswerFails, NoRefresh, FeedTyped, FeedTypeOK
<1>10. ASSUME NEW other \in BOOLEAN, Correct(other) PROVE FeedTyped'
  <2>1. book' \subseteq Prices /\ woken' \in BOOLEAN /\ clean' \in BOOLEAN
    BY <1>10 DEF Correct, FeedTyped, FeedTypeOK
  <2> QED
    BY <1>10, <2>1 DEF Correct, NoRefresh, FeedTyped, FeedTypeOK
<1>11. CASE Wake \/ ReadBook \/ Done
  BY <1>11 DEF Wake, ReadBook, Done, FeedTyped, FeedTypeOK
<1>12. CASE UNCHANGED feedVars
  BY <1>12 DEF feedVars, FeedTyped, FeedTypeOK
<1> QED
  BY <1>1, <1>2, <1>3, <1>4, <1>5, <1>6, <1>7, <1>8, <1>9, <1>10, <1>11, <1>12 DEF FeedNext

\* Every reachable state is well typed.
LEMMA FeedTypedAlways == FeedSpec => []FeedTyped
BY FeedInitTyped, FeedTypedStep, PTL DEF FeedSpec

\* The types that the runs check follow.
THEOREM FeedTypeCorrect == FeedSpec => []FeedTypeOK
<1>1. FeedTyped => FeedTypeOK
  BY DEF FeedTyped
<1> QED
  BY <1>1, FeedTypedAlways, PTL

-----------------------------------------------------------------------------
\* From its look at the book on, whatever changes the book sets the event; the
\* event is not cleared again before the next look.
EventTellsAll == reader \in {"waits", "busy"} /\ ~woken => seen = book

\* No change of the book falls between the clearing and the reading unnoticed.
THEOREM NoChangeUnseen == FeedSpec => []SeenIsCurrent
<1>1. FeedInit => EventTellsAll
  BY DEF FeedInit, EventTellsAll
<1>2. FeedTyped /\ EventTellsAll /\ [FeedNext]_feedVars => EventTellsAll'
  <2> SUFFICES ASSUME FeedTyped, EventTellsAll, [FeedNext]_feedVars PROVE EventTellsAll'
    OBVIOUS
  <2> USE DEF EventTellsAll
  <2>1. CASE Receive
    <3>1. Head(wire) \in Messages
      BY <2>1 DEF Receive, FeedTyped
    <3>2. ~Wakes(Head(wire)) => Applied(book, Head(wire)) = book
      BY <3>1, AppliedTyped DEF FeedTyped, FeedTypeOK
    <3> QED
      BY <2>1, <3>2 DEF Receive
  <2>2. ASSUME NEW other \in BOOLEAN, Correct(other) PROVE EventTellsAll'
    BY <2>2 DEF Correct
  <2>3. CASE Wake \/ ReadBook \/ Done
    BY <2>3 DEF Wake, ReadBook, Done
  <2>4. CASE Ask \/ Answer \/ AnswerFails
    BY <2>4 DEF Ask, Answer, AnswerFails
  <2>5. CASE LinkUp \/ LinkDown \/ Miss
    BY <2>5 DEF LinkUp, LinkDown, Miss
  <2>6. ASSUME NEW p \in Prices, Move(p) PROVE EventTellsAll'
    BY <2>6 DEF Move
  <2>7. ASSUME NEW t \in Ticks, MoveTick(t) PROVE EventTellsAll'
    BY <2>7 DEF MoveTick
  <2>8. CASE UNCHANGED feedVars
    BY <2>8 DEF feedVars
  <2> QED
    BY <2>1, <2>2, <2>3, <2>4, <2>5, <2>6, <2>7, <2>8 DEF FeedNext
<1>3. EventTellsAll => SeenIsCurrent
  BY DEF EventTellsAll, SeenIsCurrent
<1> QED
  BY <1>1, <1>2, <1>3, FeedTypedAlways, PTL DEF FeedSpec

-----------------------------------------------------------------------------
(* What the replay of messages comes to.                                   *)

\* A message tells of a price: a snapshot of every one, a delta of its own.
Touches(msg, p) ==
    msg.kind = "book" \/ (msg.kind = "price_change" /\ msg.price = p)

\* It says that there is size at the price.
Leaves(msg, p) == IF msg.kind = "book" THEN p \in msg.levels ELSE msg.there

\* The last message under way that tells of a price tells the truth.
Newest(msgs, levels) ==
    \A p \in Prices, i \in 1..Len(msgs) :
        Touches(msgs[i], p) /\ (\A j \in (i + 1)..Len(msgs) : ~Touches(msgs[j], p))
            => (Leaves(msgs[i], p) <=> p \in levels)

\* Where no message under way tells of a price, the book has it as it is.
Agrees(base, msgs, levels) ==
    \A p \in Prices :
        (\A i \in 1..Len(msgs) : ~Touches(msgs[i], p)) => (p \in base <=> p \in levels)

\* What a message does to the book, price by price.
LEMMA AppliedAt ==
    ASSUME NEW msg \in Messages, NEW base, NEW p \in Prices
    PROVE  p \in Applied(base, msg) <=> IF Touches(msg, p) THEN Leaves(msg, p) ELSE p \in base
<1>1. CASE msg.kind = "book"
  <2>1. Applied(base, msg) = msg.levels
    BY <1>1, Zenon DEF Applied
  <2> QED
    BY <1>1, <2>1 DEF Touches, Leaves
<1>2. CASE msg.kind = "price_change"
  <2>1. Applied(base, msg) = ApplyDelta(base, msg.price, msg.there)
    BY <1>2, Zenon DEF Applied
  <2>2. msg.there \in BOOLEAN
    BY <1>2 DEF Messages
  <2> QED
    BY <1>2, <2>1, <2>2 DEF Touches, Leaves, ApplyDelta
<1>3. CASE msg.kind = "tick_size_change"
  <2>1. Applied(base, msg) = base
    BY <1>3, Zenon DEF Applied
  <2> QED
    BY <1>3, <2>1 DEF Touches
<1> QED
  BY <1>1, <1>2, <1>3 DEF Messages

\* The books on the way, from none of the messages applied to all of them.
Passes(r, base, msgs) ==
    r[0] = base /\ \A k \in 1..Len(msgs) : r[k] = Applied(r[k - 1], msgs[k])

\* The greatest of the first numbers, and those before it.
LEMMA FirstNumbers ==
    ASSUME NEW k \in Nat \ {0}
    PROVE  Max(1..k) = k /\ (1..k) \ {k} = 1..(k - 1) /\ 1..k # {}
<1>1. 1..k \in SUBSET (0..k) /\ k \in 1..k
  OBVIOUS
<1>2. Max(1..k) \in 1..k /\ \A j \in 1..k : j <= Max(1..k)
  BY <1>1, MaxIsGreatest
<1> QED
  BY <1>1, <1>2

\* The replay goes through such books.
LEMMA ReplayPasses ==
    ASSUME NEW base \in SUBSET Prices, NEW msgs \in Seq(Messages)
    PROVE  \E r : Passes(r, base, msgs) /\ Replay(base, msgs) = r[Len(msgs)]
<1> DEFINE S    == 1..Len(msgs)
           V    == SUBSET Prices
           step == [i \in S |-> [v \in V |-> Applied(v, msgs[i])]]
           pick == [s \in SUBSET S |-> Max(s)]
           Eq(h) == h = [s \in SUBSET (DOMAIN msgs) |->
                            IF s = {} THEN base ELSE Applied(h[s \ {Max(s)}], msgs[Max(s)])]
<1>1. DOMAIN msgs = S /\ Len(msgs) \in Nat /\ IsFiniteSet(S)
  BY FS_Interval
<1>2. \A s \in SUBSET S : s # {} => Max(s) \in s
  <2> SUFFICES ASSUME NEW s \in SUBSET S, s # {} PROVE Max(s) \in s
    OBVIOUS
  <2>1. s \in SUBSET (0..Len(msgs))
    BY <1>1
  <2> QED
    BY <1>1, <2>1, MaxIsGreatest
<1>3. Picks(pick, S)
  BY <1>2 DEF Picks
<1>4. step \in [S -> [V -> V]]
  <2> SUFFICES ASSUME NEW i \in S, NEW v \in V PROVE Applied(v, msgs[i]) \in V
    OBVIOUS
  <2>1. msgs[i] \in Messages
    BY <1>1
  <2>2. Ticks # {}
    BY FeedAssumption
  <2> QED
    BY <2>1, <2>2, AppliedTyped
<1>5. /\ \A s \in SUBSET S : pick[s] = Max(s)
      /\ \A i \in S, v \in V : step[i][v] = Applied(v, msgs[i])
  OBVIOUS
<1> HIDE DEF step, pick
<1>6. PICK g \in [SUBSET S -> V] : Solves(g, S, base, step, pick)
  <2>1. base \in V
    OBVIOUS
  <2> QED
    BY <1>1, <1>3, <1>4, <2>1, SolutionExists, Zenon
<1>7. ASSUME NEW s \in SUBSET S
      PROVE  g[s] = IF s = {} THEN base ELSE Applied(g[s \ {Max(s)}], msgs[Max(s)])
  <2>1. CASE s = {}
    BY <2>1, <1>6 DEF Solves
  <2>2. CASE s # {}
    <3>1. Max(s) \in S /\ s \ {Max(s)} \in SUBSET S
      BY <1>2, <2>2
    <3>2. g[s] = step[Max(s)][g[s \ {Max(s)}]] /\ g[s \ {Max(s)}] \in V
      BY <1>5, <1>6, <2>2, <3>1 DEF Solves
    <3> QED
      BY <1>5, <2>2, <3>1, <3>2
  <2> QED
    BY <2>1, <2>2
<1>8. Eq(g)
  <2>1. SUBSET S = SUBSET (DOMAIN msgs)
    BY <1>1
  <2>2. g = [s \in SUBSET S |-> g[s]]
    BY <1>6
  <2>3. [s \in SUBSET S |-> g[s]] =
        [s \in SUBSET S |-> IF s = {} THEN base ELSE Applied(g[s \ {Max(s)}], msgs[Max(s)])]
    BY <1>7
  <2> QED
    BY <2>1, <2>2, <2>3
<1> DEFINE h == CHOOSE h : Eq(h)
<1>9. Replay(base, msgs) = h[DOMAIN msgs]
  BY DEF Replay, FoldLeft, MapThenFoldSet
<1>10. Eq(h)
  <2> HIDE DEF Eq
  <2> QED
    BY <1>8
<1>11. \A s \in SUBSET S : h[s] = IF s = {} THEN base ELSE Applied(h[s \ {Max(s)}], msgs[Max(s)])
  <2> HIDE DEF h
  <2> QED
    BY <1>1, <1>10
<1> HIDE DEF h, Eq
<1> DEFINE r == [k \in 0..Len(msgs) |-> h[1..k]]
<1>12. r[0] = base
  <2>1. 1..0 = {} /\ 0 \in 0..Len(msgs)
    BY <1>1
  <2> QED
    BY <1>11, <2>1
<1>13. ASSUME NEW k \in 1..Len(msgs) PROVE r[k] = Applied(r[k - 1], msgs[k])
  <2>1. Max(1..k) = k /\ (1..k) \ {k} = 1..(k - 1) /\ 1..k # {}
    BY FirstNumbers
  <2>2. 1..k \in SUBSET S /\ k \in 0..Len(msgs) /\ k - 1 \in 0..Len(msgs)
    BY <1>1
  <2> QED
    BY <1>11, <2>1, <2>2
<1>14. r[Len(msgs)] = h[DOMAIN msgs]
  BY <1>1
<1> HIDE DEF r
<1> QED
  BY <1>9, <1>12, <1>13, <1>14 DEF Passes

\* They are books of the market's prices.
LEMMA PassesTyped ==
    ASSUME NEW base \in SUBSET Prices, NEW msgs \in Seq(Messages), NEW r, Passes(r, base, msgs)
    PROVE  r[Len(msgs)] \in SUBSET Prices
<1> DEFINE P == {n \in Nat : n <= Len(msgs) => r[n] \in SUBSET Prices}
<1>1. 0 \in P
  BY DEF Passes
<1>2. ASSUME NEW n \in P PROVE n + 1 \in P
  <2> SUFFICES ASSUME n + 1 <= Len(msgs) PROVE r[n + 1] \in SUBSET Prices
    OBVIOUS
  <2>1. PICK k \in 1..Len(msgs) : k = n + 1 /\ k - 1 = n
    OBVIOUS
  <2>2. r[k] = Applied(r[k - 1], msgs[k]) /\ msgs[k] \in Messages
    BY <2>1 DEF Passes
  <2>3. r[k - 1] \in SUBSET Prices /\ Ticks # {}
    BY <2>1, FeedAssumption
  <2>4. PICK t \in Ticks : TRUE
    BY <2>3
  <2>5. Applied(r[k - 1], msgs[k]) \in SUBSET Prices
    BY <2>2, <2>3, <2>4, AppliedTyped
  <2> QED
    BY <2>1, <2>2, <2>5
<1>3. P = Nat
  <2>1. P \in SUBSET Nat
    OBVIOUS
  <2> HIDE DEF P
  <2> QED
    BY <1>1, <1>2, <2>1, NumbersByStep
<1>4. Len(msgs) \in P
  BY <1>3
<1> QED
  BY <1>4

\* A book stays as it is at a price that no further message tells of.
LEMMA PassesLeave ==
    ASSUME NEW base, NEW msgs \in Seq(Messages), NEW r, Passes(r, base, msgs), NEW p \in Prices,
           NEW i \in 0..Len(msgs), \A j \in (i + 1)..Len(msgs) : ~Touches(msgs[j], p)
    PROVE  p \in r[Len(msgs)] <=> p \in r[i]
<1> DEFINE P == {n \in Nat : i + n <= Len(msgs) => (p \in r[i + n] <=> p \in r[i])}
<1>1. 0 \in P
  BY DEF P
<1>2. ASSUME NEW n \in P PROVE n + 1 \in P
  <2> SUFFICES ASSUME i + (n + 1) <= Len(msgs) PROVE p \in r[i + (n + 1)] <=> p \in r[i]
    OBVIOUS
  <2>1. PICK k \in 1..Len(msgs) : k = i + (n + 1) /\ k - 1 = i + n /\ k \in (i + 1)..Len(msgs)
    OBVIOUS
  <2>2. r[k] = Applied(r[k - 1], msgs[k]) /\ ~Touches(msgs[k], p) /\ msgs[k] \in Messages
    BY <2>1 DEF Passes
  <2>3. p \in r[k] <=> p \in r[k - 1]
    BY <2>2, AppliedAt
  <2>4. p \in r[k - 1] <=> p \in r[i]
    BY <2>1
  <2> QED
    BY <2>1, <2>3, <2>4
<1>3. P = Nat
  <2>1. P \in SUBSET Nat
    OBVIOUS
  <2> HIDE DEF P
  <2> QED
    BY <1>1, <1>2, <2>1, NumbersByStep
<1>4. Len(msgs) - i \in Nat /\ i + (Len(msgs) - i) = Len(msgs) /\ Len(msgs) <= Len(msgs)
  OBVIOUS
<1> HIDE DEF P
<1>5. Len(msgs) - i \in P
  BY <1>3, <1>4
<1> QED
  BY <1>4, <1>5 DEF P

\* The messages under way make the book that of the exchange.
LEMMA ReplayIsTrue ==
    ASSUME NEW base \in SUBSET Prices, NEW msgs \in Seq(Messages), NEW levels \in SUBSET Prices,
           Newest(msgs, levels), Agrees(base, msgs, levels)
    PROVE  Replay(base, msgs) = levels
<1>1. PICK r : Passes(r, base, msgs) /\ Replay(base, msgs) = r[Len(msgs)]
  BY ReplayPasses
<1>2. r[0] = base /\ Len(msgs) \in Nat
  BY <1>1 DEF Passes
<1>3. ASSUME NEW p \in Prices PROVE p \in r[Len(msgs)] <=> p \in levels
  <2> DEFINE B == {i \in 1..Len(msgs) : Touches(msgs[i], p)}
  <2>1. CASE B = {}
    <3>1. \A i \in 1..Len(msgs) : ~Touches(msgs[i], p)
      BY <2>1
    <3>2. 0 \in 0..Len(msgs) /\ \A j \in (0 + 1)..Len(msgs) : ~Touches(msgs[j], p)
      BY <1>2, <3>1
    <3>3. p \in r[Len(msgs)] <=> p \in r[0]
      BY <1>1, <3>2, PassesLeave
    <3> QED
      BY <1>2, <3>1, <3>3 DEF Agrees
  <2>2. CASE B # {}
    <3>1. B \in SUBSET (0..Len(msgs))
      OBVIOUS
    <3>2. PICK i \in B : \A k \in B : k <= i
      <4> HIDE DEF B
      <4> QED
        BY <1>2, <2>2, <3>1, GreatestNumber
    <3>3. /\ i \in 1..Len(msgs) /\ i \in 0..Len(msgs) /\ Touches(msgs[i], p)
          /\ \A j \in (i + 1)..Len(msgs) : ~Touches(msgs[j], p)
      BY <1>2, <3>2
    <3>4. p \in r[Len(msgs)] <=> p \in r[i]
      BY <1>1, <3>3, PassesLeave
    <3>5. r[i] = Applied(r[i - 1], msgs[i]) /\ msgs[i] \in Messages
      BY <1>1, <3>3 DEF Passes
    <3>6. p \in r[i] <=> Leaves(msgs[i], p)
      BY <3>3, <3>5, AppliedAt
    <3> QED
      BY <3>3, <3>4, <3>6 DEF Newest
  <2> QED
    BY <2>1, <2>2
<1>4. ASSUME NEW p \in r[Len(msgs)] PROVE p \in Prices
  <2>1. r[Len(msgs)] \in SUBSET Prices
    BY <1>1, PassesTyped
  <2> QED
    BY <2>1
<1> QED
  BY <1>1, <1>3, <1>4

-----------------------------------------------------------------------------
(* What comes and goes on the wire.                                        *)

\* A message that tells of no other price, and the truth of its own.
LEMMA NewestAppend ==
    ASSUME NEW msgs \in Seq(Messages), NEW msg \in Messages, NEW old, NEW new, Newest(msgs, old),
           \A p \in Prices : IF Touches(msg, p) THEN Leaves(msg, p) <=> p \in new
                             ELSE p \in old <=> p \in new
    PROVE  Newest(Append(msgs, msg), new)
<1> DEFINE all == Append(msgs, msg)
<1>1. /\ Len(all) = Len(msgs) + 1 /\ all[Len(msgs) + 1] = msg /\ Len(msgs) \in Nat
      /\ \A i \in 1..Len(msgs) : all[i] = msgs[i]
  OBVIOUS
<1> HIDE DEF all
<1> SUFFICES ASSUME NEW p \in Prices, NEW i \in 1..Len(all), Touches(all[i], p),
                    \A j \in (i + 1)..Len(all) : ~Touches(all[j], p)
             PROVE  Leaves(all[i], p) <=> p \in new
  BY DEF Newest, all
<1>2. CASE i = Len(msgs) + 1
  BY <1>1, <1>2
<1>3. CASE i # Len(msgs) + 1
  <2>1. i \in 1..Len(msgs) /\ all[i] = msgs[i]
    BY <1>1, <1>3
  <2>2. ~Touches(msg, p)
    <3>1. Len(msgs) + 1 \in (i + 1)..Len(all)
      BY <1>1, <2>1
    <3> QED
      BY <1>1, <3>1
  <2>3. \A j \in (i + 1)..Len(msgs) : ~Touches(msgs[j], p)
    <3> SUFFICES ASSUME NEW j \in (i + 1)..Len(msgs) PROVE ~Touches(msgs[j], p)
      OBVIOUS
    <3>1. j \in (i + 1)..Len(all) /\ j \in 1..Len(msgs)
      BY <1>1, <2>1
    <3> QED
      BY <1>1, <3>1
  <2> QED
    BY <2>1, <2>2, <2>3 DEF Newest
<1> QED
  BY <1>2, <1>3

\* Where the book agreed it still does.
LEMMA AgreesAppend ==
    ASSUME NEW msgs \in Seq(Messages), NEW msg \in Messages, NEW base, NEW old, NEW new,
           Agrees(base, msgs, old),
           \A p \in Prices : ~Touches(msg, p) => (p \in old <=> p \in new)
    PROVE  Agrees(base, Append(msgs, msg), new)
<1> DEFINE all == Append(msgs, msg)
<1>1. /\ Len(all) = Len(msgs) + 1 /\ all[Len(msgs) + 1] = msg /\ Len(msgs) \in Nat
      /\ \A i \in 1..Len(msgs) : all[i] = msgs[i]
  OBVIOUS
<1> HIDE DEF all
<1> SUFFICES ASSUME NEW p \in Prices, \A i \in 1..Len(all) : ~Touches(all[i], p)
             PROVE  p \in base <=> p \in new
  BY DEF Agrees, all
<1>2. ~Touches(msg, p) /\ \A i \in 1..Len(msgs) : ~Touches(msgs[i], p)
  BY <1>1
<1> QED
  BY <1>2 DEF Agrees

\* The first message leaves: the others tell the truth as before, and a book
\* that it was applied to agrees if it did, or if the message is a snapshot.
LEMMA FirstLeaves ==
    ASSUME NEW msgs \in Seq(Messages), msgs # << >>, NEW base, NEW levels, Newest(msgs, levels)
    PROVE  /\ Newest(Tail(msgs), levels)
           /\ Agrees(base, msgs, levels) \/ Head(msgs).kind = "book"
                 => Agrees(Applied(base, Head(msgs)), Tail(msgs), levels)
<1> DEFINE rest == Tail(msgs)
<1>1. /\ Len(msgs) \in Nat \ {0} /\ Len(rest) = Len(msgs) - 1 /\ Head(msgs) = msgs[1]
      /\ \A i \in 1..(Len(msgs) - 1) : rest[i] = msgs[i + 1]
      /\ Head(msgs) \in Messages
  OBVIOUS
<1> HIDE DEF rest
<1>2. ASSUME NEW p \in Prices, NEW i \in 1..Len(rest), Touches(rest[i], p),
             \A j \in (i + 1)..Len(rest) : ~Touches(rest[j], p)
      PROVE  Leaves(rest[i], p) <=> p \in levels
  <2>1. PICK k \in 1..Len(msgs) : k = i + 1 /\ rest[i] = msgs[k]
    BY <1>1
  <2>2. \A j \in (k + 1)..Len(msgs) : ~Touches(msgs[j], p)
    <3> SUFFICES ASSUME NEW j \in (k + 1)..Len(msgs) PROVE ~Touches(msgs[j], p)
      OBVIOUS
    <3>1. j - 1 \in (i + 1)..Len(rest) /\ j - 1 \in 1..(Len(msgs) - 1) /\ (j - 1) + 1 = j
      BY <1>1, <2>1
    <3>2. rest[j - 1] = msgs[j]
      BY <1>1, <3>1
    <3> QED
      BY <1>2, <3>1, <3>2
  <2> QED
    BY <1>2, <2>1, <2>2 DEF Newest
<1>3. ASSUME Agrees(base, msgs, levels) \/ Head(msgs).kind = "book", NEW p \in Prices,
             \A i \in 1..Len(rest) : ~Touches(rest[i], p)
      PROVE  p \in Applied(base, Head(msgs)) <=> p \in levels
  <2>1. \A j \in (1 + 1)..Len(msgs) : ~Touches(msgs[j], p)
    <3> SUFFICES ASSUME NEW j \in 2..Len(msgs) PROVE ~Touches(msgs[j], p)
      OBVIOUS
    <3>1. j - 1 \in 1..Len(rest) /\ j - 1 \in 1..(Len(msgs) - 1) /\ (j - 1) + 1 = j
      BY <1>1
    <3>2. rest[j - 1] = msgs[j]
      BY <1>1, <3>1
    <3> QED
      BY <1>3, <3>1, <3>2
  <2>2. CASE Touches(Head(msgs), p)
    <3>1. 1 \in 1..Len(msgs) /\ Touches(msgs[1], p)
      BY <1>1, <2>2
    <3>2. Leaves(msgs[1], p) <=> p \in levels
      BY <2>1, <3>1 DEF Newest
    <3> QED
      BY <1>1, <2>2, <3>2, AppliedAt
  <2>3. CASE ~Touches(Head(msgs), p)
    <3>1. Agrees(base, msgs, levels)
      BY <1>3, <2>3 DEF Touches
    <3>2. \A j \in 1..Len(msgs) : ~Touches(msgs[j], p)
      <4> SUFFICES ASSUME NEW j \in 1..Len(msgs) PROVE ~Touches(msgs[j], p)
        OBVIOUS
      <4>1. j = 1 \/ j \in (1 + 1)..Len(msgs)
        BY <1>1
      <4> QED
        BY <1>1, <2>1, <2>3, <4>1
    <3>3. p \in base <=> p \in levels
      BY <3>1, <3>2 DEF Agrees
    <3> QED
      BY <1>1, <2>3, <3>3, AppliedAt
  <2> QED
    BY <2>2, <2>3
<1>4. Newest(rest, levels)
  BY <1>2 DEF Newest
<1>5. Agrees(base, msgs, levels) \/ Head(msgs).kind = "book" => Agrees(Applied(base, Head(msgs)), rest, levels)
  BY <1>3 DEF Agrees
<1> QED
  BY <1>4, <1>5 DEF rest

-----------------------------------------------------------------------------
\* While the link holds, what is under way tells the truth last; unless
\* something was missed, the book agrees where nothing under way tells of a
\* price, and so does a REST answer that no delta has overtaken.
WireIsTrue ==
    /\ link => Newest(wire, exch)
    /\ link /\ clean => Agrees(book, wire, exch)
    /\ link /\ clean /\ refresh.at = "answered" /\ ~overtaken => Agrees(refresh.shown, wire, exch)

\* A change at the exchange is told by the message that follows it.
LEMMA PushKeepsTrue ==
    ASSUME FeedTyped, WireIsTrue, NEW msg \in Messages, Push(msg), msg.kind # "book",
           \A p \in Prices : IF Touches(msg, p) THEN Leaves(msg, p) <=> p \in exch'
                             ELSE p \in exch <=> p \in exch',
           UNCHANGED <<link, book, refresh, clean, overtaken>>
    PROVE  WireIsTrue'
<1> SUFFICES ASSUME link PROVE WireIsTrue'
  BY DEF WireIsTrue
<1>1. wire' = Append(wire, msg) /\ wire \in Seq(Messages)
  BY DEF Push, FeedTyped
<1>2. Newest(wire, exch) /\ (clean => Agrees(book, wire, exch))
      /\ (clean /\ refresh.at = "answered" /\ ~overtaken => Agrees(refresh.shown, wire, exch))
  BY DEF WireIsTrue
<1>3. PICK new : new = exch'
  OBVIOUS
<1>4. Newest(Append(wire, msg), new)
  BY <1>1, <1>2, <1>3, NewestAppend
<1>5. \A p \in Prices : ~Touches(msg, p) => (p \in exch <=> p \in new)
  BY <1>3
<1>6. \A base : Agrees(base, wire, exch) => Agrees(base, Append(wire, msg), new)
  BY <1>1, <1>5, AgreesAppend
<1>7. Newest(wire, exch)' /\ (clean' => Agrees(book, wire, exch)')
      /\ (clean' /\ refresh'.at = "answered" /\ ~overtaken' => Agrees(refresh.shown, wire, exch)')
  <2>1. Newest(wire, exch)' = Newest(Append(wire, msg), new)
    BY <1>1, <1>3 DEF Newest
  <2>2. Agrees(book, wire, exch)' = Agrees(book, Append(wire, msg), new)
    BY <1>1, <1>3 DEF Agrees
  <2>3. Agrees(refresh.shown, wire, exch)' = Agrees(refresh.shown, Append(wire, msg), new)
    BY <1>1, <1>3 DEF Agrees
  <2> QED
    BY <1>2, <1>4, <1>6, <2>1, <2>2, <2>3
<1> QED
  BY <1>7 DEF WireIsTrue

\* Every step keeps it.
LEMMA WireStaysTrue ==
    FeedTyped /\ WireIsTrue /\ [FeedNext]_feedVars => WireIsTrue'
<1> SUFFICES ASSUME FeedTyped, WireIsTrue, [FeedNext]_feedVars PROVE WireIsTrue'
  OBVIOUS
<1>0. /\ wire \in Seq(Messages) /\ exch \in SUBSET Prices /\ exchTick \in Ticks
      /\ ~link => wire = << >>
      /\ link => Newest(wire, exch)
      /\ link /\ clean => Agrees(book, wire, exch)
      /\ link /\ clean /\ refresh.at = "answered" /\ ~overtaken => Agrees(refresh.shown, wire, exch)
  BY DEF FeedTyped, FeedTypeOK, WireIsTrue
<1>1. ASSUME NEW p \in Prices, Move(p) PROVE WireIsTrue'
  <2> DEFINE msg == Delta(p, p \notin exch)
  <2>1. /\ exch' = (IF p \in exch THEN exch \ {p} ELSE exch \cup {p})
        /\ Push(msg) /\ UNCHANGED <<link, book, refresh, clean, overtaken>>
    BY <1>1 DEF Move
  <2>2. /\ msg \in Messages /\ msg.kind # "book"
        /\ \A q \in Prices : /\ Touches(msg, q) <=> q = p
                             /\ Leaves(msg, p) <=> p \notin exch
    BY DEF Delta, Messages, Touches, Leaves
  <2>3. \A q \in Prices : IF Touches(msg, q) THEN Leaves(msg, q) <=> q \in exch'
                          ELSE q \in exch <=> q \in exch'
    BY <2>1, <2>2
  <2> HIDE DEF msg
  <2> QED
    BY <2>1, <2>2, <2>3, PushKeepsTrue
<1>2. ASSUME NEW t \in Ticks, MoveTick(t) PROVE WireIsTrue'
  <2> DEFINE msg == TickChange(t)
  <2>1. exch' = exch /\ Push(msg) /\ UNCHANGED <<link, book, refresh, clean, overtaken>>
    BY <1>2 DEF MoveTick
  <2>2. /\ msg \in Messages /\ msg.kind # "book"
        /\ \A q \in Prices : ~Touches(msg, q)
    BY DEF TickChange, Messages, Touches
  <2>3. \A q \in Prices : IF Touches(msg, q) THEN Leaves(msg, q) <=> q \in exch'
                          ELSE q \in exch <=> q \in exch'
    BY <2>1, <2>2
  <2> HIDE DEF msg
  <2> QED
    BY <2>1, <2>2, <2>3, PushKeepsTrue
<1>3. CASE LinkUp
  <2>1. wire' = <<Snapshot(exch, exchTick)>> /\ exch' = exch
    BY <1>3 DEF LinkUp
  <2>2. /\ Len(wire') = 1 /\ wire'[1].kind = "book" /\ wire'[1].levels = exch
    BY <2>1 DEF Snapshot
  <2>3. Newest(wire, exch)'
    BY <2>1, <2>2 DEF Newest, Leaves
  <2>4. \A base : Agrees(base, wire', exch')
    BY <2>2 DEF Agrees, Touches
  <2>5. Agrees(book, wire, exch)' /\ Agrees(refresh.shown, wire, exch)'
    BY <2>4 DEF Agrees
  <2> QED
    BY <2>3, <2>5 DEF WireIsTrue
<1>4. CASE LinkDown
  BY <1>4 DEF LinkDown, WireIsTrue
<1>5. CASE Receive
  <2>1. /\ wire # << >> /\ wire' = Tail(wire) /\ book' = Applied(book, Head(wire))
        /\ clean' = (clean \/ Head(wire).kind = "book")
        /\ overtaken' = (overtaken \/ (refresh.at = "answered" /\ Head(wire).kind # "tick_size_change"))
        /\ UNCHANGED <<exch, link, refresh>>
    BY <1>5 DEF Receive
  <2>2. link /\ Head(wire) \in Messages
    BY <1>0, <2>1
  <2>3. /\ Newest(Tail(wire), exch)
        /\ Agrees(book, wire, exch) \/ Head(wire).kind = "book"
             => Agrees(Applied(book, Head(wire)), Tail(wire), exch)
    BY <1>0, <2>1, <2>2, FirstLeaves
  <2>4. Newest(wire, exch)'
    BY <2>1, <2>3 DEF Newest
  <2>5. clean' => Agrees(book, wire, exch)'
    <3>1. clean' => Agrees(Applied(book, Head(wire)), Tail(wire), exch)
      BY <1>0, <2>1, <2>2, <2>3
    <3>2. Agrees(Applied(book, Head(wire)), Tail(wire), exch) = Agrees(book, wire, exch)'
      BY <2>1 DEF Agrees
    <3> QED
      BY <3>1, <3>2
  <2>6. ASSUME clean', refresh'.at = "answered", ~overtaken'
        PROVE  Agrees(refresh.shown, wire, exch)'
    <3>1. Head(wire).kind = "tick_size_change" /\ clean /\ ~overtaken /\ refresh.at = "answered"
      BY <2>1, <2>6
    <3>2. Agrees(refresh.shown, wire, exch)
      BY <1>0, <2>2, <3>1
    <3>3. Agrees(Applied(refresh.shown, Head(wire)), Tail(wire), exch)
      BY <1>0, <2>1, <2>2, <3>2, FirstLeaves
    <3>4. Applied(refresh.shown, Head(wire)) = refresh.shown
      BY <3>1, Zenon DEF Applied
    <3>5. Agrees(refresh.shown, wire, exch)' = Agrees(refresh.shown, Tail(wire), exch)
      BY <2>1 DEF Agrees
    <3> QED
      BY <3>3, <3>4, <3>5
  <2> QED
    BY <2>4, <2>5, <2>6 DEF WireIsTrue
<1>6. CASE Miss
  <2>1. /\ wire # << >> /\ wire' = Tail(wire) /\ ~clean' /\ UNCHANGED <<exch, link>>
    BY <1>6 DEF Miss
  <2>2. link
    BY <1>0, <2>1
  <2>3. Newest(Tail(wire), exch)
    BY <1>0, <2>1, <2>2, FirstLeaves
  <2>4. Newest(wire, exch)'
    BY <2>1, <2>3 DEF Newest
  <2> QED
    BY <2>1, <2>4 DEF WireIsTrue
<1>7. CASE Ask \/ AnswerFails
  <2>1. refresh'.at # "answered" /\ UNCHANGED <<exch, wire, link, book, clean, overtaken>>
    BY <1>7 DEF Ask, AnswerFails, NoRefresh
  <2> QED
    BY <1>0, <2>1 DEF WireIsTrue, Newest, Agrees
<1>8. CASE Answer
  <2>1. refresh'.shown = exch /\ UNCHANGED <<exch, wire, link, book, clean>>
    BY <1>8 DEF Answer
  <2>2. Agrees(refresh.shown, wire, exch)'
    BY <2>1 DEF Agrees
  <2> QED
    BY <1>0, <2>1, <2>2 DEF WireIsTrue, Newest, Agrees
<1>9. ASSUME NEW other \in BOOLEAN, Correct(other) PROVE WireIsTrue'
  <2>1. refresh.at = "answered" /\ refresh'.at = "idle" /\ UNCHANGED <<exch, wire, link, overtaken>>
        /\ \/ book' = refresh.shown /\ clean' = (clean /\ ~overtaken)
           \/ UNCHANGED <<book, clean>>
    BY <1>9 DEF Correct, NoRefresh
  <2>2. CASE book' = refresh.shown /\ clean' = (clean /\ ~overtaken)
    <3>1. link /\ clean' => Agrees(refresh.shown, wire, exch)
      BY <1>0, <2>1, <2>2
    <3>2. Agrees(book, wire, exch)' = Agrees(refresh.shown, wire, exch)
      BY <2>1, <2>2 DEF Agrees
    <3>3. Newest(wire, exch)' = Newest(wire, exch)
      BY <2>1 DEF Newest
    <3> QED
      BY <1>0, <2>1, <3>1, <3>2, <3>3 DEF WireIsTrue
  <2>3. CASE UNCHANGED <<book, clean>>
    BY <1>0, <2>1, <2>3 DEF WireIsTrue, Newest, Agrees
  <2> QED
    BY <2>1, <2>2, <2>3
<1>10. CASE Wake \/ ReadBook \/ Done
  <2>1. UNCHANGED <<exch, wire, link, book, refresh, clean, overtaken>>
    BY <1>10 DEF Wake, ReadBook, Done
  <2> QED
    BY <1>0, <2>1 DEF WireIsTrue, Newest, Agrees
<1>11. CASE UNCHANGED feedVars
  BY <1>0, <1>11 DEF feedVars, WireIsTrue, Newest, Agrees
<1> QED
  BY <1>1, <1>2, <1>3, <1>4, <1>5, <1>6, <1>7, <1>8, <1>9, <1>10, <1>11 DEF FeedNext

\* The book and what is under way make up the exchange's book, through any
\* snapshots, deltas and corrections (engine.py:893-914, orderbook.py).
THEOREM BookFollowsWire == FeedSpec => []FollowsWire
<1>1. FeedInit => WireIsTrue
  BY DEF FeedInit, WireIsTrue
<1>2. FeedTyped /\ WireIsTrue => FollowsWire
  <2> SUFFICES ASSUME FeedTyped, WireIsTrue, link, clean PROVE Replay(book, wire) = exch
    BY DEF FollowsWire
  <2>1. Newest(wire, exch) /\ Agrees(book, wire, exch)
    BY DEF WireIsTrue
  <2>2. wire \in Seq(Messages) /\ book \in SUBSET Prices /\ exch \in SUBSET Prices
    BY DEF FeedTyped, FeedTypeOK
  <2> QED
    BY <2>1, <2>2, ReplayIsTrue
<1> QED
  BY <1>1, <1>2, WireStaysTrue, FeedTypedAlways, PTL DEF FeedSpec

-----------------------------------------------------------------------------
(* The merging of complete sets (MergeQueue).                              *)

\* What the lock holder carries.
Jobs == [at : {"start", "amount", "signed", "receipt"}, amount : Nat, nonce : Nat]

\* What is under way.
Txs  == [nonce : Nat, market : MergeMarkets, amount : Nat, excused : BOOLEAN]

\* What the types of a merge come down to; only the lock holder has a job.
MergeTyped ==
    /\ onChain \in [MergeMarkets -> Nat] /\ local \in [MergeMarkets -> Nat]
    /\ request \in [MergeMarkets -> Nat]
    /\ lockQueue \in Seq(MergeMarkets)
    /\ job \in Jobs
    /\ mined \in Nat /\ mempool \subseteq Txs
    /\ excuse \in BOOLEAN /\ reverted \in BOOLEAN
    /\ lockQueue = << >> => job.at = "start"

\* So is the holder that has done nothing yet.
LEMMA NoJobTyped == NoJob \in Jobs /\ NoJob.at = "start"
BY DEF NoJob, Jobs

\* The least of two numbers.
LEMMA MergeLeastBounds ==
    ASSUME NEW n \in Nat, NEW k \in Nat
    PROVE  MergeLeast(n, k) \in Nat /\ MergeLeast(n, k) <= k
BY DEF MergeLeast

\* The transaction of the lock holder.
LEMMA TransactionTyped ==
    ASSUME NEW k \in MergeMarkets, MergeTyped
    PROVE  /\ Transaction(k) \in Txs
           /\ Transaction(k).nonce = job.nonce /\ Transaction(k).market = k
           /\ Transaction(k).amount = job.amount /\ Transaction(k).excused = excuse
BY DEF Transaction, Txs, MergeTyped, Jobs

\* A task that leaves the lock keeps the types.
LEMMA ReleaseTyped ==
    ASSUME NEW k \in MergeMarkets, MergeTyped, Merging(k), Release(k)
    PROVE  /\ request' \in [MergeMarkets -> Nat] /\ lockQueue' \in Seq(MergeMarkets)
           /\ job' \in Jobs /\ job'.at = "start" /\ excuse' = FALSE
BY NoJobTyped DEF MergeTyped, Merging, Release

\* A task that goes on or ends after its look at the balances.
LEMMA ProceedTyped ==
    ASSUME NEW k \in MergeMarkets, NEW amount \in Nat, NEW why \in BOOLEAN,
           MergeTyped, Merging(k), Proceed(k, amount, why)
    PROVE  /\ request' \in [MergeMarkets -> Nat] /\ lockQueue' \in Seq(MergeMarkets)
           /\ job' \in Jobs /\ excuse' \in BOOLEAN
           /\ \/ job'.at = "start"
              \/ /\ job'.at = "amount" /\ job'.amount = amount /\ excuse' = why
                 /\ lockQueue' = lockQueue
<1>1. CASE amount = 0
  BY <1>1, ReleaseTyped DEF Proceed
<1>2. CASE amount # 0
  <2>1. job' = [job EXCEPT !.at = "amount", !.amount = amount]
    BY <1>2 DEF Proceed
  <2>2. job' \in Jobs /\ job'.at = "amount" /\ job'.amount = amount
    BY <2>1 DEF MergeTyped, Jobs
  <2> QED
    BY <1>2, <2>2 DEF Proceed, MergeTyped
<1> QED
  BY <1>1, <1>2

\* What becomes of a transaction whose market loses a set.
Excuse(k, tx) == IF tx.market = k THEN [tx EXCEPT !.excused = TRUE] ELSE tx

\* An excuse changes nothing but the excuse, and of its own market's
\* transactions only.
LEMMA ExcuseTyped ==
    ASSUME NEW k \in MergeMarkets, NEW tx \in Txs
    PROVE  /\ Excuse(k, tx) \in Txs
           /\ Excuse(k, tx).nonce = tx.nonce /\ Excuse(k, tx).market = tx.market
           /\ Excuse(k, tx).amount = tx.amount
           /\ ~Excuse(k, tx).excused => tx.market # k /\ ~tx.excused
BY DEF Excuse, Txs

-----------------------------------------------------------------------------
\* The types are inductive.
LEMMA MergeTypedStep == MergeTyped /\ [MergeNext]_mergeVars => MergeTyped'
<1> SUFFICES ASSUME MergeTyped, [MergeNext]_mergeVars PROVE MergeTyped'
  OBVIOUS
<1>1. ASSUME NEW k \in MergeMarkets, MaybeMerge(k) PROVE MergeTyped'
  <2>1. lockQueue' \in Seq(MergeMarkets) /\ lockQueue' # << >>
    BY <1>1 DEF MaybeMerge, MergeTyped
  <2> QED
    BY <1>1, <2>1 DEF MaybeMerge, MergeTyped, chainVars
<1>2. ASSUME NEW k \in MergeMarkets, ReadBalances(k) \/ BalancesUnread(k) PROVE MergeTyped'
  <2>1. PICK amount \in Nat, why \in BOOLEAN : Proceed(k, amount, why)
    BY <1>2, MergeLeastBounds DEF ReadBalances, BalancesUnread, MergeTyped
  <2>2. Merging(k)
    BY <1>2 DEF ReadBalances, BalancesUnread
  <2>3. lockQueue # << >>
    BY <2>2 DEF Merging
  <2>4. lockQueue' = << >> => job'.at = "start"
    BY <2>1, <2>2, <2>3, ProceedTyped
  <2> QED
    BY <1>2, <2>1, <2>2, <2>4, ProceedTyped DEF ReadBalances, BalancesUnread, MergeTyped, chainVars
<1>3. ASSUME NEW k \in MergeMarkets, ReadNonce(k) PROVE MergeTyped'
  <2>1. job' \in Jobs /\ lockQueue # << >>
    BY <1>3 DEF ReadNonce, MergeTyped, Jobs, Merging
  <2> QED
    BY <1>3, <2>1 DEF ReadNonce, MergeTyped, chainVars
<1>4. ASSUME NEW k \in MergeMarkets, SendTx(k) PROVE MergeTyped'
  <2>1. job' \in Jobs /\ lockQueue # << >>
    BY <1>4 DEF SendTx, MergeTyped, Jobs, Merging
  <2>2. mempool' \subseteq Txs
    BY <1>4, TransactionTyped DEF SendTx, MergeTyped
  <2> QED
    BY <1>4, <2>1, <2>2 DEF SendTx, MergeTyped
<1>5. ASSUME NEW k \in MergeMarkets, SendUnanswered(k) PROVE MergeTyped'
  <2>1. mempool' \subseteq Txs
    BY <1>5, TransactionTyped DEF SendUnanswered, MergeTyped
  <2> QED
    BY <1>5, <2>1, ReleaseTyped DEF SendUnanswered, MergeTyped
<1>6. ASSUME NEW k \in MergeMarkets, SendClashes(k) PROVE MergeTyped'
  <2>1. CASE Release(k) /\ UNCHANGED mempool
    BY <1>6, <2>1, ReleaseTyped DEF SendClashes, MergeTyped
  <2>2. CASE ~(Release(k) /\ UNCHANGED mempool)
    <3>1. job' = [job EXCEPT !.at = "receipt"] /\ mempool' \subseteq mempool \cup {Transaction(k)}
      BY <1>6, <2>2 DEF SendClashes
    <3>2. job' \in Jobs /\ lockQueue # << >>
      BY <1>6, <3>1 DEF SendClashes, MergeTyped, Jobs, Merging
    <3>3. mempool' \subseteq Txs
      BY <3>1, TransactionTyped DEF MergeTyped
    <3> QED
      BY <1>6, <2>2, <3>2, <3>3 DEF SendClashes, MergeTyped
  <2> QED
    BY <2>1, <2>2
<1>7. ASSUME NEW k \in MergeMarkets, Receipt(k) \/ GiveUp(k) PROVE MergeTyped'
  BY <1>7, ReleaseTyped DEF Receipt, GiveUp, MergeTyped, chainVars
<1>8. ASSUME NEW k \in MergeMarkets, Sync(k) PROVE MergeTyped'
  BY <1>8 DEF Sync, MergeTyped, chainVars
<1>9. ASSUME NEW k \in MergeMarkets, Complete(k) PROVE MergeTyped'
  <2>1. onChain' \in [MergeMarkets -> Nat]
    BY <1>9 DEF Complete, MergeTyped
  <2>2. MergeLeast(local[k] + 1, MaxSets) \in Nat
    BY MergeAssumption DEF MergeLeast, MergeTyped
  <2>3. local' \in [MergeMarkets -> Nat]
    BY <1>9, <2>2 DEF Complete, MergeTyped
  <2> QED
    BY <1>9, <2>1, <2>3 DEF Complete, MergeTyped
<1>10. ASSUME NEW k \in MergeMarkets, Break(k) PROVE MergeTyped'
  <2>1. onChain' \in [MergeMarkets -> Nat] /\ local' \in [MergeMarkets -> Nat]
    BY SMTT(30), <1>10 DEF Break, MergeTyped
  <2>2. mempool' = {Excuse(k, tx) : tx \in mempool}
    BY <1>10 DEF Break, Excuse
  <2>3. mempool' \subseteq Txs
    BY <2>2, ExcuseTyped DEF MergeTyped
  <2>4. excuse' \in BOOLEAN
    BY <1>10 DEF Break
  <2> QED
    BY <1>10, <2>1, <2>3, <2>4 DEF Break, MergeTyped
<1>11. CASE Mine
  <2>1. PICK tx \in mempool :
          /\ mined' = mined + 1 /\ mempool' = mempool \ {tx}
          /\ IF tx.amount <= onChain[tx.market]
             THEN onChain' = [onChain EXCEPT ![tx.market] = @ - tx.amount] /\ UNCHANGED reverted
             ELSE reverted' = (reverted \/ ~tx.excused) /\ UNCHANGED onChain
    BY <1>11 DEF Mine
  <2>2. tx.amount \in Nat /\ tx.market \in MergeMarkets
    BY DEF MergeTyped, Txs
  <2>3. onChain' \in [MergeMarkets -> Nat]
    <3>1. CASE tx.amount <= onChain[tx.market]
      <4>1. onChain[tx.market] - tx.amount \in Nat
        BY <2>2, <3>1 DEF MergeTyped
      <4> QED
        BY <2>1, <3>1, <4>1 DEF MergeTyped
    <3>2. CASE ~(tx.amount <= onChain[tx.market])
      BY <2>1, <3>2 DEF MergeTyped
    <3> QED
      BY <3>1, <3>2
  <2>4. reverted' \in BOOLEAN
    BY <2>1 DEF MergeTyped
  <2> QED
    BY <1>11, <2>1, <2>3, <2>4 DEF Mine, MergeTyped
<1>12. CASE UNCHANGED mergeVars
  BY <1>12 DEF mergeVars, chainVars, MergeTyped
<1> QED
  BY <1>1, <1>2, <1>3, <1>4, <1>5, <1>6, <1>7, <1>8, <1>9, <1>10, <1>11, <1>12 DEF MergeNext

\* The initial states are well typed.
LEMMA MergeInitTyped == MergeInit => MergeTyped
<1> SUFFICES ASSUME MergeInit PROVE MergeTyped
  OBVIOUS
<1>1. onChain \in [MergeMarkets -> Nat] /\ local \in [MergeMarkets -> Nat] /\ request \in [MergeMarkets -> Nat]
  BY DEF MergeInit
<1>2. lockQueue \in Seq(MergeMarkets) /\ job \in Jobs /\ job.at = "start" /\ mempool \subseteq Txs
  BY NoJobTyped DEF MergeInit
<1> QED
  BY <1>1, <1>2 DEF MergeInit, MergeTyped

-----------------------------------------------------------------------------
\* While every task has waited for its receipt, at most one transaction is
\* under way: that of the lock holder, with the next nonce.
NonceInv ==
    ~gaveUp =>
        /\ ~clashed
        /\ job.at \in {"start", "amount"} => mempool = {}
        /\ job.at = "signed" => mempool = {} /\ job.nonce = mined
        /\ job.at = "receipt" =>
              \/ job.nonce = mined /\ \E tx \in Txs : mempool = {tx} /\ tx.nonce = mined
              \/ job.nonce < mined /\ mempool = {}

\* The lock outlives the transaction, so nonces are used once.
THEOREM NoncesUsedOnce == MergeSpec => []NoncesOnce
<1>1. MergeInit => NonceInv
  BY NoJobTyped DEF MergeInit, NonceInv
<1>2. MergeTyped /\ NonceInv /\ [MergeNext]_mergeVars => NonceInv'
  <2> SUFFICES ASSUME MergeTyped, NonceInv, [MergeNext]_mergeVars, ~gaveUp' PROVE NonceInv'
    BY DEF NonceInv
  <2>0. job \in Jobs /\ mined \in Nat
    BY DEF MergeTyped
  <2>1. ASSUME NEW k \in MergeMarkets, MaybeMerge(k) \/ Sync(k) \/ Complete(k) PROVE NonceInv'
    BY <2>1 DEF MaybeMerge, Sync, Complete, chainVars, NonceInv
  <2>2. ASSUME NEW k \in MergeMarkets, ReadBalances(k) \/ BalancesUnread(k) PROVE NonceInv'
    <3>1. ~gaveUp /\ ~clashed' /\ mempool = {} /\ mempool' = {}
      <4>1. job.at = "start" /\ gaveUp' = gaveUp /\ clashed' = clashed /\ mempool' = mempool
        BY <2>2 DEF ReadBalances, BalancesUnread, chainVars
      <4> QED
        BY <4>1 DEF NonceInv
    <3>2. job' = NoJob \/ job'.at = "amount"
      BY <2>0, <2>2 DEF ReadBalances, BalancesUnread, Proceed, Release, Jobs
    <3> QED
      BY <3>1, <3>2, NoJobTyped DEF NonceInv
  <2>3. ASSUME NEW k \in MergeMarkets, ReadNonce(k) PROVE NonceInv'
    <3>1. job'.at = "signed" /\ job'.nonce = mined
      BY <2>0, <2>3 DEF ReadNonce, Jobs
    <3> QED
      BY <2>3, <3>1 DEF ReadNonce, chainVars, NonceInv
  <2>4. ASSUME NEW k \in MergeMarkets, SendTx(k) PROVE NonceInv'
    <3>1. job'.at = "receipt" /\ job'.nonce = job.nonce
      BY <2>0, <2>4 DEF SendTx, Jobs
    <3>2. ~gaveUp /\ ~clashed' /\ mempool' = {Transaction(k)} /\ job.nonce = mined /\ mined' = mined
      BY <2>4 DEF SendTx, NonceInv
    <3> QED
      BY <3>1, <3>2, TransactionTyped DEF NonceInv
  <2>5. ASSUME NEW k \in MergeMarkets PROVE ~SendUnanswered(k)
    BY DEF SendUnanswered
  <2>6. ASSUME NEW k \in MergeMarkets PROVE ~SendClashes(k)
    <3>1. SUFFICES ASSUME SendClashes(k) PROVE FALSE
      OBVIOUS
    <3>2. ~gaveUp /\ mempool = {} /\ job.nonce = mined
      BY <3>1 DEF SendClashes, NonceInv
    <3> QED
      BY <2>0, <3>1, <3>2 DEF SendClashes, Taken
  <2>7. ASSUME NEW k \in MergeMarkets, Receipt(k) \/ GiveUp(k) PROVE NonceInv'
    <3>1. job' = NoJob /\ mempool' = mempool /\ clashed' = clashed
      BY <2>7 DEF Receipt, GiveUp, Release, chainVars
    <3>2. ~gaveUp /\ mempool = {}
      <4>1. CASE Receipt(k)
        <5>1. ~gaveUp /\ job.at = "receipt" /\ job.nonce < mined
          BY <4>1 DEF Receipt
        <5> QED
          BY <2>0, <5>1 DEF NonceInv, Jobs
      <4>2. CASE GiveUp(k)
        <5>1. ~gaveUp /\ job.at \in {"amount", "signed"}
          BY <4>2 DEF GiveUp
        <5> QED
          BY <5>1 DEF NonceInv
      <4> QED
        BY <2>7, <4>1, <4>2
    <3>3. ~clashed'
      BY <3>1, <3>2 DEF NonceInv
    <3> QED
      BY <3>1, <3>2, <3>3, NoJobTyped DEF NonceInv
  <2>8. ASSUME NEW k \in MergeMarkets, Break(k) PROVE NonceInv'
    <3>1. mempool' = {Excuse(k, tx) : tx \in mempool}
      BY <2>8 DEF Break, Excuse
    <3>2. mempool = {} => mempool' = {}
      BY <3>1
    <3>3. ASSUME NEW tx \in Txs, mempool = {tx}
          PROVE  mempool' = {Excuse(k, tx)} /\ Excuse(k, tx) \in Txs /\ Excuse(k, tx).nonce = tx.nonce
      BY <3>1, <3>3, ExcuseTyped
    <3>4. job' = job /\ mined' = mined /\ gaveUp' = gaveUp /\ clashed' = clashed
      BY <2>8 DEF Break
    <3> QED
      BY <3>2, <3>3, <3>4 DEF NonceInv
  <2>9. CASE Mine
    <3>1. PICK tx \in mempool : tx.nonce = mined /\ mined' = mined + 1 /\ mempool' = mempool \ {tx}
      BY <2>9 DEF Mine
    <3>2. job' = job /\ gaveUp' = gaveUp /\ clashed' = clashed
      BY <2>9 DEF Mine
    <3>3. job.at = "receipt" /\ job.nonce = mined /\ mempool = {tx}
      BY <2>0, <3>1, <3>2 DEF NonceInv, Jobs
    <3> QED
      BY <2>0, <3>1, <3>2, <3>3 DEF NonceInv
  <2>10. CASE UNCHANGED mergeVars
    BY <2>10 DEF mergeVars, chainVars, NonceInv
  <2> QED
    BY <2>1, <2>2, <2>3, <2>4, <2>5, <2>6, <2>7, <2>8, <2>9, <2>10 DEF MergeNext
<1>3. NonceInv => NoncesOnce
  BY DEF NonceInv, NoncesOnce
<1> QED
  BY <1>1, <1>2, <1>3, MergeInitTyped, MergeTypedStep, PTL DEF MergeSpec

-----------------------------------------------------------------------------
\* At most one transaction of the account is under way, also after a task has
\* given up: it has the next nonce, and nobody has asked for a later one.
PoolInv ==
    /\ \A tx, other \in mempool : tx.nonce = mined /\ tx = other
    /\ job.at \in {"signed", "receipt"} => job.nonce <= mined

\* Every step keeps the pool to one transaction.
LEMMA PoolStep == MergeTyped /\ PoolInv /\ [MergeNext]_mergeVars => PoolInv'
<1> SUFFICES ASSUME MergeTyped, PoolInv, [MergeNext]_mergeVars PROVE PoolInv'
  OBVIOUS
<1>0. job \in Jobs /\ mined \in Nat
  BY DEF MergeTyped
<1>1. ASSUME NEW k \in MergeMarkets, MaybeMerge(k) \/ Sync(k) \/ Complete(k) PROVE PoolInv'
  BY <1>1 DEF MaybeMerge, Sync, Complete, chainVars, PoolInv
<1>2. ASSUME NEW k \in MergeMarkets, ReadBalances(k) \/ BalancesUnread(k) PROVE PoolInv'
  <2>1. job' = NoJob \/ job'.at = "amount"
    BY <1>0, <1>2 DEF ReadBalances, BalancesUnread, Proceed, Release, Jobs
  <2> QED
    BY <1>2, <2>1, NoJobTyped DEF ReadBalances, BalancesUnread, chainVars, PoolInv
<1>3. ASSUME NEW k \in MergeMarkets, ReadNonce(k) PROVE PoolInv'
  <2>1. job'.nonce = mined
    BY <1>0, <1>3 DEF ReadNonce, Jobs
  <2> QED
    BY <1>0, <1>3, <2>1 DEF ReadNonce, chainVars, PoolInv
<1>4. ASSUME NEW k \in MergeMarkets, job.at = "signed", ~Taken(job.nonce),
             mempool' = mempool \cup {Transaction(k)}, mined' = mined,
             job' = NoJob \/ job'.nonce = job.nonce
      PROVE  PoolInv'
  <2>1. job.nonce = mined /\ mempool = {}
    <3>1. job.nonce <= mined /\ ~(job.nonce < mined) /\ job.nonce \in Nat
      BY <1>0, <1>4 DEF PoolInv, Taken, Jobs
    <3>2. job.nonce = mined
      BY <1>0, <3>1
    <3>3. \A tx \in mempool : tx.nonce = mined /\ tx.nonce # job.nonce
      BY <1>4 DEF PoolInv, Taken
    <3> QED
      BY <3>2, <3>3
  <2>2. mempool' = {Transaction(k)} /\ Transaction(k).nonce = mined
    BY <1>4, <2>1, TransactionTyped
  <2> QED
    BY <1>0, <1>4, <2>1, <2>2, NoJobTyped DEF PoolInv
<1>5. ASSUME NEW k \in MergeMarkets, SendTx(k) \/ SendUnanswered(k) PROVE PoolInv'
  <2>1. job' = NoJob \/ job'.nonce = job.nonce
    BY <1>0, <1>5 DEF SendTx, SendUnanswered, Release, Jobs
  <2> QED
    BY <1>4, <1>5, <2>1 DEF SendTx, SendUnanswered
<1>6. ASSUME NEW k \in MergeMarkets, SendClashes(k) PROVE PoolInv'
  <2>1. CASE Release(k) /\ UNCHANGED mempool
    BY <1>6, <2>1, NoJobTyped DEF SendClashes, Release, PoolInv
  <2>2. CASE ~(Release(k) /\ UNCHANGED mempool)
    <3>1. /\ job.at = "signed" /\ job.nonce >= mined /\ mined' = mined
          /\ mempool' = {tx \in mempool : tx.nonce # job.nonce} \cup {Transaction(k)}
          /\ job' = [job EXCEPT !.at = "receipt"]
      BY <1>6, <2>2 DEF SendClashes
    <3>2. job.nonce = mined /\ job'.nonce = job.nonce
      BY <1>0, <3>1 DEF PoolInv, Jobs
    <3>3. mempool' = {Transaction(k)} /\ Transaction(k).nonce = mined
      BY <3>1, <3>2, TransactionTyped DEF PoolInv
    <3> QED
      BY <1>0, <3>1, <3>2, <3>3 DEF PoolInv
  <2> QED
    BY <2>1, <2>2
<1>7. ASSUME NEW k \in MergeMarkets, Receipt(k) \/ GiveUp(k) PROVE PoolInv'
  BY <1>7, NoJobTyped DEF Receipt, GiveUp, Release, chainVars, PoolInv
<1>8. ASSUME NEW k \in MergeMarkets, Break(k) PROVE PoolInv'
  <2>1. mempool' = {Excuse(k, tx) : tx \in mempool} /\ mined' = mined /\ job' = job
    BY <1>8 DEF Break, Excuse
  <2>2. \A tx \in mempool : Excuse(k, tx).nonce = tx.nonce
    BY ExcuseTyped DEF MergeTyped
  <2> QED
    BY <2>1, <2>2 DEF PoolInv
<1>9. CASE Mine
  <2>1. PICK tx \in mempool : mined' = mined + 1 /\ mempool' = mempool \ {tx}
    BY <1>9 DEF Mine
  <2>2. mempool' = {} /\ job' = job
    BY <1>9, <2>1 DEF Mine, PoolInv
  <2> QED
    BY <1>0, <2>1, <2>2 DEF PoolInv, Jobs
<1>10. CASE UNCHANGED mergeVars
  BY <1>10 DEF mergeVars, chainVars, PoolInv
<1> QED
  BY <1>1, <1>2, <1>3, <1>5, <1>6, <1>7, <1>8, <1>9, <1>10 DEF MergeNext

\* What nothing excuses can be merged: the transaction that is under way, and
\* the amount of the task that holds the lock, whose market has none.
AmountsInv ==
    /\ ~reverted
    /\ \A tx \in mempool : ~tx.excused => tx.amount <= onChain[tx.market]
    /\ \A k \in MergeMarkets : Merging(k) /\ job.at \in {"amount", "signed"} /\ ~excuse =>
          job.amount <= onChain[k] /\ \A tx \in mempool : tx.market # k

\* Every step keeps the amounts to what is held, or finds an excuse.
LEMMA AmountsStep ==
    MergeTyped /\ MergeTyped' /\ PoolInv /\ AmountsInv /\ [MergeNext]_mergeVars => AmountsInv'
<1> SUFFICES ASSUME MergeTyped, MergeTyped', PoolInv, AmountsInv, [MergeNext]_mergeVars
             PROVE  AmountsInv'
  OBVIOUS
<1>0. /\ job \in Jobs /\ onChain \in [MergeMarkets -> Nat] /\ mempool \subseteq Txs
      /\ \A tx \in mempool : tx.amount \in Nat /\ tx.market \in MergeMarkets
  BY DEF MergeTyped, Txs
<1>1. ASSUME NEW k \in MergeMarkets, MaybeMerge(k) PROVE AmountsInv'
  <2>1. lockQueue' = Append(lockQueue, k) /\ lockQueue \in Seq(MergeMarkets)
    BY <1>1 DEF MaybeMerge, MergeTyped
  <2>2. \A m \in MergeMarkets : Merging(m)' /\ lockQueue # << >> => Merging(m)
    BY <2>1 DEF Merging
  <2>3. lockQueue = << >> => job.at = "start"
    BY DEF MergeTyped
  <2>4. job' = job /\ excuse' = excuse /\ reverted' = reverted /\ onChain' = onChain /\ mempool' = mempool
    BY <1>1 DEF MaybeMerge, chainVars
  <2> QED
    BY <2>2, <2>3, <2>4 DEF AmountsInv
<1>2. ASSUME NEW k \in MergeMarkets, ReadBalances(k) PROVE AmountsInv'
  <2> DEFINE amount == MergeLeast(request[k], onChain[k])
             why == \E tx \in mempool : tx.market = k
  <2>1. amount \in Nat /\ amount <= onChain[k]
    BY <1>0, MergeLeastBounds DEF MergeTyped
  <2>2. Proceed(k, amount, why) /\ Merging(k)
    BY <1>2 DEF ReadBalances
  <2>3. onChain' = onChain /\ mempool' = mempool /\ reverted' = reverted
    BY <1>2 DEF ReadBalances, chainVars
  <2>4. why \in BOOLEAN
    OBVIOUS
  <2> HIDE DEF amount
  <2>5. \/ job'.at = "start"
        \/ job'.amount = amount /\ excuse' = why /\ lockQueue' = lockQueue
    BY <2>1, <2>2, <2>4, ProceedTyped
  <2> QED
    BY <2>1, <2>2, <2>3, <2>5 DEF AmountsInv, Merging
<1>3. ASSUME NEW k \in MergeMarkets, BalancesUnread(k) PROVE AmountsInv'
  <2>1. Proceed(k, request[k], TRUE) /\ Merging(k) /\ request[k] \in Nat
    BY <1>3 DEF BalancesUnread, MergeTyped
  <2>2. onChain' = onChain /\ mempool' = mempool /\ reverted' = reverted
    BY <1>3 DEF BalancesUnread, chainVars
  <2>3. job'.at = "start" \/ excuse'
    BY <2>1, ProceedTyped
  <2> QED
    BY <2>2, <2>3 DEF AmountsInv
<1>4. ASSUME NEW k \in MergeMarkets, ReadNonce(k) PROVE AmountsInv'
  <2>1. job'.amount = job.amount /\ job.at = "amount"
    BY <1>0, <1>4 DEF ReadNonce, Jobs
  <2>2. /\ onChain' = onChain /\ mempool' = mempool /\ reverted' = reverted /\ excuse' = excuse
        /\ lockQueue' = lockQueue
    BY <1>4 DEF ReadNonce, chainVars
  <2> QED
    BY <2>1, <2>2 DEF AmountsInv, Merging
<1>5. ASSUME NEW k \in MergeMarkets, Merging(k), job.at = "signed",
             mempool' \subseteq mempool \cup {Transaction(k)}, onChain' = onChain, reverted' = reverted,
             job'.at \in {"start", "receipt"}
      PROVE  AmountsInv'
  <2>1. ~Transaction(k).excused => Transaction(k).amount <= onChain[Transaction(k).market]
    BY <1>5, TransactionTyped DEF AmountsInv
  <2> QED
    BY <1>5, <2>1 DEF AmountsInv
<1>6. ASSUME NEW k \in MergeMarkets, SendTx(k) \/ SendUnanswered(k) \/ SendClashes(k) PROVE AmountsInv'
  <2>1. Merging(k) /\ job.at = "signed" /\ onChain' = onChain /\ reverted' = reverted
    BY <1>6 DEF SendTx, SendUnanswered, SendClashes
  <2>2. mempool' \subseteq mempool \cup {Transaction(k)}
    BY <1>6 DEF SendTx, SendUnanswered, SendClashes
  <2>3. job'.at \in {"start", "receipt"}
    BY <1>0, <1>6, NoJobTyped DEF SendTx, SendUnanswered, SendClashes, Release, Jobs
  <2> QED
    BY <1>5, <2>1, <2>2, <2>3
<1>7. ASSUME NEW k \in MergeMarkets, Receipt(k) \/ GiveUp(k) PROVE AmountsInv'
  <2>1. job'.at = "start"
    BY <1>7, NoJobTyped DEF Receipt, GiveUp, Release
  <2> QED
    BY <1>7, <2>1 DEF Receipt, GiveUp, chainVars, AmountsInv
<1>8. ASSUME NEW k \in MergeMarkets, Sync(k) PROVE AmountsInv'
  BY <1>8 DEF Sync, chainVars, AmountsInv, Merging
<1>9. ASSUME NEW k \in MergeMarkets, Complete(k) PROVE AmountsInv'
  <2>1. \A m \in MergeMarkets : onChain'[m] \in Nat /\ onChain'[m] >= onChain[m]
    BY <1>0, <1>9 DEF Complete
  <2>2. /\ job' = job /\ excuse' = excuse /\ reverted' = reverted /\ mempool' = mempool
        /\ lockQueue' = lockQueue
    BY <1>9 DEF Complete
  <2>3. \A tx \in mempool' : ~tx.excused => tx.amount <= onChain'[tx.market]
    BY <1>0, <2>1, <2>2 DEF AmountsInv
  <2>4. job.amount \in Nat
    BY <1>0 DEF Jobs
  <2> QED
    BY <1>0, <2>1, <2>2, <2>3, <2>4 DEF AmountsInv, Merging
<1>10. ASSUME NEW k \in MergeMarkets, Break(k) PROVE AmountsInv'
  <2>1. \A m \in MergeMarkets \ {k} : onChain'[m] = onChain[m]
    BY <1>0, <1>10 DEF Break
  <2>2. mempool' = {Excuse(k, tx) : tx \in mempool}
    BY <1>10 DEF Break, Excuse
  <2>3. job' = job /\ reverted' = reverted /\ lockQueue' = lockQueue
        /\ excuse' = (excuse \/ (Merging(k) /\ job.at # "start"))
    BY <1>10 DEF Break
  <2>4. \A tx \in mempool' : ~tx.excused => tx.amount <= onChain'[tx.market]
    <3>1. SUFFICES ASSUME NEW tx \in mempool, ~Excuse(k, tx).excused
                   PROVE  Excuse(k, tx).amount <= onChain'[Excuse(k, tx).market]
      BY <2>2
    <3>2. tx.market \in MergeMarkets \ {k} /\ ~tx.excused
      BY <1>0, <3>1, ExcuseTyped
    <3>3. Excuse(k, tx).amount = tx.amount /\ Excuse(k, tx).market = tx.market
      BY <1>0, ExcuseTyped
    <3> QED
      BY <2>1, <3>2, <3>3 DEF AmountsInv
  <2>5. ASSUME NEW m \in MergeMarkets, Merging(m)', job'.at \in {"amount", "signed"}, ~excuse'
        PROVE  job'.amount <= onChain'[m] /\ \A tx \in mempool' : tx.market # m
    <3>1. Merging(m) /\ m # k /\ ~excuse
      BY <2>3, <2>5 DEF Merging
    <3>2. job.amount <= onChain[m] /\ \A tx \in mempool : tx.market # m
      BY <2>3, <2>5, <3>1 DEF AmountsInv
    <3>3. \A tx \in mempool : Excuse(k, tx).market # m
      BY <1>0, <3>2, ExcuseTyped
    <3> QED
      BY <2>1, <2>2, <2>3, <3>1, <3>2, <3>3
  <2> QED
    BY <2>3, <2>4, <2>5 DEF AmountsInv
<1>11. CASE Mine
  <2>1. PICK tx \in mempool :
          /\ mempool' = mempool \ {tx}
          /\ IF tx.amount <= onChain[tx.market]
             THEN onChain' = [onChain EXCEPT ![tx.market] = @ - tx.amount] /\ UNCHANGED reverted
             ELSE reverted' = (reverted \/ ~tx.excused) /\ UNCHANGED onChain
    BY <1>11 DEF Mine
  <2>2. mempool' = {}
    BY <2>1 DEF PoolInv
  <2>3. ~reverted'
    BY <2>1 DEF AmountsInv
  <2>4. job' = job /\ excuse' = excuse /\ lockQueue' = lockQueue
    BY <1>11 DEF Mine
  <2>5. \A m \in MergeMarkets : m # tx.market => onChain'[m] = onChain[m]
    BY <1>0, <2>1
  <2> QED
    BY <2>2, <2>3, <2>4, <2>5 DEF AmountsInv, Merging
<1>12. CASE UNCHANGED mergeVars
  BY <1>12 DEF mergeVars, chainVars, AmountsInv, Merging
<1> QED
  BY <1>1, <1>2, <1>3, <1>4, <1>6, <1>7, <1>8, <1>9, <1>10, <1>11, <1>12 DEF MergeNext

\* No merge reverts that nothing excuses.
THEOREM NoneRevertsUnexcused == MergeSpec => []RevertsExcused
<1>1. MergeInit => PoolInv /\ AmountsInv
  BY NoJobTyped DEF MergeInit, PoolInv, AmountsInv, Merging
<1>2. AmountsInv => RevertsExcused
  BY DEF AmountsInv, RevertsExcused
<1> QED
  BY <1>1, <1>2, MergeInitTyped, MergeTypedStep, PoolStep, AmountsStep, PTL DEF MergeSpec

-----------------------------------------------------------------------------
(* The line of the lock, and the bounds.                                   *)

\* Every market in _merging is in the line of the lock, once.
LineOf(q, m) ==
    /\ q \in Seq(MergeMarkets) /\ m = ToSet(q)
    /\ \A i, j \in 1..Len(q) : q[i] = q[j] => i = j

\* A job within the bounds, its nonce under the last one once it has signed.
BoundedJobs ==
    {j \in Jobs : /\ j.amount <= MaxSets /\ j.nonce <= MaxNonce
                  /\ j.at \in {"signed", "receipt"} => j.nonce < MaxNonce}

\* A transaction within the bounds.
BoundedTxs ==
    [nonce : {n \in Nat : n < MaxNonce}, market : MergeMarkets, amount : 0..MaxSets, excused : BOOLEAN]

\* The tasks, the chain and what the positions say keep to their bounds.
TasksBounded ==
    /\ request \in [MergeMarkets -> 0..MaxSets] /\ job \in BoundedJobs
    /\ LineOf(lockQueue, merging) /\ gaveUp \in BOOLEAN

\* What is held is within the bounds.
HoldingsBounded ==
    onChain \in [MergeMarkets -> 0..MaxSets] /\ local \in [MergeMarkets -> 0..MaxSets]

\* So is what is under way.
PoolBounded ==
    mined \in 0..MaxNonce /\ mempool \subseteq BoundedTxs /\ clashed \in BOOLEAN

\* The bounds together.
MergeBounded == TasksBounded /\ HoldingsBounded /\ PoolBounded

\* A task goes to the end of the line.
LEMMA LineGrows ==
    ASSUME NEW q, NEW m, LineOf(q, m), NEW k \in MergeMarkets, k \notin m
    PROVE  LineOf(Append(q, k), m \cup {k})
<1> DEFINE all == Append(q, k)
<1>1. q \in Seq(MergeMarkets) /\ m = {q[i] : i \in 1..Len(q)} /\ Len(q) \in Nat
  BY DEF LineOf, ToSet
<1>2. /\ all \in Seq(MergeMarkets) /\ Len(all) = Len(q) + 1 /\ DOMAIN all = 1..(Len(q) + 1)
      /\ all[Len(q) + 1] = k /\ \A i \in 1..Len(q) : all[i] = q[i]
  BY <1>1
<1> HIDE DEF all
<1>3. \A i \in 1..(Len(q) + 1) : i = Len(q) + 1 \/ i \in 1..Len(q)
  BY <1>1
<1>4. \A i \in 1..Len(q) : i \in 1..(Len(q) + 1)
  BY <1>1
<1>5. ToSet(all) = m \cup {k}
  BY <1>1, <1>2, <1>3, <1>4 DEF ToSet
<1>6. ASSUME NEW i \in 1..Len(all), NEW j \in 1..Len(all), all[i] = all[j] PROVE i = j
  <2>1. i \in 1..(Len(q) + 1) /\ j \in 1..(Len(q) + 1)
    BY <1>2
  <2>2. \A n \in 1..Len(q) : q[n] \in m /\ q[n] # k
    BY <1>1
  <2>3. CASE i \in 1..Len(q) /\ j \in 1..Len(q)
    BY <1>2, <1>6, <2>3 DEF LineOf
  <2> QED
    BY <1>2, <1>3, <1>6, <2>1, <2>2, <2>3
<1> QED
  BY <1>2, <1>5, <1>6 DEF LineOf, all

\* The task at the head of the line leaves it.
LEMMA LineShrinks ==
    ASSUME NEW q, NEW m, LineOf(q, m), q # << >>
    PROVE  LineOf(Tail(q), m \ {q[1]})
<1> DEFINE rest == Tail(q)
<1>1. q \in Seq(MergeMarkets) /\ m = {q[i] : i \in 1..Len(q)} /\ Len(q) \in Nat \ {0}
  BY DEF LineOf, ToSet
<1>2. /\ rest \in Seq(MergeMarkets) /\ Len(rest) = Len(q) - 1 /\ DOMAIN rest = 1..(Len(q) - 1)
      /\ \A i \in 1..(Len(q) - 1) : rest[i] = q[i + 1] /\ i + 1 \in 1..Len(q)
  BY <1>1
<1> HIDE DEF rest
<1>3. \A i, j \in 1..Len(q) : q[i] = q[j] => i = j
  BY DEF LineOf
<1>4. ToSet(rest) = m \ {q[1]}
  <2>1. ASSUME NEW i \in 1..(Len(q) - 1) PROVE rest[i] \in m \ {q[1]}
    <3>1. rest[i] = q[i + 1] /\ i + 1 \in 1..Len(q) /\ 1 \in 1..Len(q) /\ i + 1 # 1
      BY <1>1, <1>2
    <3> QED
      BY <1>1, <1>3, <3>1
  <2>2. ASSUME NEW x \in m \ {q[1]} PROVE \E i \in 1..(Len(q) - 1) : rest[i] = x
    <3>1. PICK i \in 1..Len(q) : q[i] = x /\ i # 1
      BY <1>1
    <3>2. i - 1 \in 1..(Len(q) - 1) /\ (i - 1) + 1 = i
      BY <1>1, <3>1
    <3> QED
      BY <1>2, <3>1, <3>2
  <2>3. ToSet(rest) = {rest[i] : i \in 1..(Len(q) - 1)}
    BY <1>2 DEF ToSet
  <2>4. PICK U : U = m \ {q[1]}
    OBVIOUS
  <2>5. {rest[i] : i \in 1..(Len(q) - 1)} = U
    BY <2>1, <2>2, <2>4
  <2> QED
    BY <2>3, <2>4, <2>5
<1>5. ASSUME NEW i \in 1..Len(rest), NEW j \in 1..Len(rest), rest[i] = rest[j] PROVE i = j
  <2>1. i + 1 \in 1..Len(q) /\ j + 1 \in 1..Len(q) /\ q[i + 1] = q[j + 1]
    BY <1>2, <1>5
  <2>2. i + 1 = j + 1
    BY <1>3, <2>1
  <2> QED
    BY <1>2, <2>2
<1> QED
  BY <1>2, <1>4, <1>5 DEF LineOf, rest

\* There are as many markets in _merging as tasks.
LEMMA LineCounts ==
    ASSUME NEW q, NEW m, LineOf(q, m)
    PROVE  Cardinality(m) = Len(q)
<1> DEFINE S == 1..Len(q)
           f == [i \in S |-> q[i]]
<1>1. q \in Seq(MergeMarkets) /\ m = {q[i] : i \in S} /\ Len(q) \in Nat
  <2>1. q \in Seq(MergeMarkets) /\ m = {q[i] : i \in DOMAIN q}
    BY DEF LineOf, ToSet
  <2> QED
    BY <2>1
<1>2. IsFiniteSet(S) /\ Cardinality(S) = Len(q)
  <2>1. PICK n \in Nat : n = Len(q)
    BY <1>1
  <2>2. IsFiniteSet(1..n) /\ Cardinality(1..n) = n
    BY FS_Interval
  <2> QED
    BY <2>1, <2>2
<1>3. \A i, j \in S : f[i] = f[j] => i = j
  BY DEF LineOf
<1>4. f \in [S -> m] /\ \A x \in m : \E i \in S : f[i] = x
  BY <1>1
<1> HIDE DEF f, S
<1>5. f \in Bijection(S, m)
  BY <1>3, <1>4 DEF Bijection, Injection, Surjection, IsInjective
<1>6. ExistsBijection(S, m)
  BY <1>5 DEF ExistsBijection
<1>7. Cardinality(m) = Cardinality(S)
  BY <1>2, <1>6, FS_Bijection
<1> QED
  BY <1>2, <1>7

-----------------------------------------------------------------------------
\* No task holds the lock any more for this market.
LEMMA ReleaseBounded ==
    ASSUME MergeBounded, NEW k \in MergeMarkets, Merging(k), Release(k), gaveUp' \in BOOLEAN
    PROVE  TasksBounded'
<1>1. /\ request \in [MergeMarkets -> 0..MaxSets] /\ LineOf(lockQueue, merging)
      /\ lockQueue # << >> /\ lockQueue[1] = k
  BY DEF MergeBounded, TasksBounded, Merging
<1>2. /\ merging' = merging \ {k} /\ lockQueue' = Tail(lockQueue) /\ job' = NoJob
      /\ request' = [request EXCEPT ![k] = 0]
  BY DEF Release
<1>3. LineOf(Tail(lockQueue), merging \ {k})
  BY <1>1, LineShrinks
<1>4. LineOf(lockQueue, merging)'
  BY <1>2, <1>3 DEF LineOf
<1>5. request' \in [MergeMarkets -> 0..MaxSets]
  BY <1>1, <1>2, MergeAssumption
<1>6. NoJob \in BoundedJobs
  BY MergeAssumption DEF NoJob, BoundedJobs, Jobs
<1> QED
  BY <1>2, <1>4, <1>5, <1>6 DEF TasksBounded, BoundedJobs, Jobs

\* What it goes on with is no more than there was.
LEMMA ProceedBounded ==
    ASSUME MergeBounded, NEW k \in MergeMarkets, Merging(k), job.at = "start", NEW amount \in 0..MaxSets,
           NEW why, Proceed(k, amount, why), gaveUp' = gaveUp
    PROVE  TasksBounded'
<1>1. gaveUp \in BOOLEAN /\ job \in BoundedJobs /\ request \in [MergeMarkets -> 0..MaxSets]
      /\ LineOf(lockQueue, merging)
  BY DEF MergeBounded, TasksBounded
<1>2. CASE amount = 0
  BY <1>1, <1>2, ReleaseBounded DEF Proceed
<1>3. CASE amount # 0
  <2>1. job' = [job EXCEPT !.at = "amount", !.amount = amount] /\ UNCHANGED <<merging, request, lockQueue>>
    BY <1>3 DEF Proceed
  <2>2. job' \in BoundedJobs
    <3>1. job \in Jobs /\ job.nonce <= MaxNonce
      BY <1>1 DEF BoundedJobs
    <3>2. amount \in Nat /\ amount <= MaxSets
      BY MergeAssumption
    <3>3. job' \in Jobs /\ job'.amount = amount /\ job'.nonce = job.nonce /\ job'.at = "amount"
      BY <2>1, <3>1, <3>2 DEF Jobs
    <3> QED
      BY <3>1, <3>2, <3>3 DEF BoundedJobs
  <2>3. LineOf(lockQueue, merging)'
    BY <1>1, <2>1 DEF LineOf
  <2>4. request' \in [MergeMarkets -> 0..MaxSets] /\ gaveUp' \in BOOLEAN
    BY <1>1, <2>1
  <2> QED
    BY <2>2, <2>3, <2>4 DEF TasksBounded, BoundedJobs, Jobs
<1> QED
  BY <1>2, <1>3

\* A step that leaves a part alone leaves its bounds.
LEMMA TasksAsTheyWere ==
    ASSUME TasksBounded, UNCHANGED <<request, job, lockQueue, merging>>, gaveUp' \in BOOLEAN
    PROVE  TasksBounded'
BY DEF TasksBounded, LineOf, BoundedJobs, Jobs

\* A step that mines and sends nothing keeps to them.
LEMMA PoolAsItWas ==
    ASSUME PoolBounded, UNCHANGED <<mined, mempool>>, clashed' \in BOOLEAN PROVE PoolBounded'
BY DEF PoolBounded, BoundedTxs

\* The transaction of the lock holder keeps to the bounds.
LEMMA TransactionBounded ==
    ASSUME TasksBounded, NEW k \in MergeMarkets, job.at = "signed", excuse \in BOOLEAN
    PROVE  Transaction(k) \in BoundedTxs
<1>1. job.amount \in Nat /\ job.amount <= MaxSets /\ job.nonce \in Nat /\ job.nonce < MaxNonce
  BY DEF TasksBounded, BoundedJobs, Jobs
<1> QED
  BY <1>1, MergeAssumption DEF Transaction, BoundedTxs

-----------------------------------------------------------------------------
\* The tasks: whatever the lock holder learns, and whoever gets in line.
LEMMA TasksStayBounded ==
    ASSUME MergeTyped, MergeBounded, NEW k \in MergeMarkets,
           \/ MaybeMerge(k) \/ ReadBalances(k) \/ BalancesUnread(k) \/ ReadNonce(k)
           \/ Receipt(k) \/ GiveUp(k)
    PROVE  MergeBounded'
<1>0. /\ TasksBounded /\ HoldingsBounded /\ PoolBounded /\ job \in BoundedJobs
      /\ request \in [MergeMarkets -> 0..MaxSets] /\ LineOf(lockQueue, merging)
      /\ onChain \in [MergeMarkets -> 0..MaxSets] /\ local \in [MergeMarkets -> 0..MaxSets]
      /\ gaveUp \in BOOLEAN /\ mined \in 0..MaxNonce
  BY DEF MergeBounded, TasksBounded, HoldingsBounded, PoolBounded
<1>1. /\ UNCHANGED <<onChain, local, mined, mempool, clashed>> /\ gaveUp' \in BOOLEAN
  BY <1>0 DEF MaybeMerge, ReadBalances, BalancesUnread, ReadNonce, Receipt, GiveUp, chainVars
<1>2. HoldingsBounded' /\ PoolBounded'
  BY <1>0, <1>1 DEF HoldingsBounded, PoolBounded
<1>3. CASE MaybeMerge(k)
  <2>1. /\ k \notin merging /\ merging' = merging \cup {k} /\ lockQueue' = Append(lockQueue, k)
        /\ request' = [request EXCEPT ![k] = local[k]] /\ UNCHANGED <<job, gaveUp>>
    BY <1>3 DEF MaybeMerge, MayMerge
  <2>2. LineOf(Append(lockQueue, k), merging \cup {k})
    BY <1>0, <2>1, LineGrows
  <2>3. LineOf(lockQueue, merging)'
    BY <2>1, <2>2 DEF LineOf
  <2>4. request' \in [MergeMarkets -> 0..MaxSets]
    BY <1>0, <2>1
  <2>5. job' \in BoundedJobs'
    BY <1>0, <2>1 DEF BoundedJobs, Jobs
  <2> QED
    BY <1>1, <1>2, <2>3, <2>4, <2>5 DEF MergeBounded, TasksBounded
<1>4. CASE ReadBalances(k)
  <2>1. Merging(k) /\ job.at = "start" /\ gaveUp' = gaveUp
    BY <1>4 DEF ReadBalances
  <2>2. request[k] \in 0..MaxSets /\ onChain[k] \in 0..MaxSets /\ MaxSets \in Nat
    BY <1>0, MergeAssumption
  <2>3. PICK amount \in 0..MaxSets : amount = MergeLeast(request[k], onChain[k])
    BY <2>2 DEF MergeLeast
  <2>4. PICK why : Proceed(k, amount, why)
    BY <1>4, <2>3 DEF ReadBalances
  <2>5. TasksBounded'
    BY <2>1, <2>4, ProceedBounded
  <2> QED
    BY <1>2, <2>5 DEF MergeBounded
<1>5. CASE BalancesUnread(k)
  <2>1. Merging(k) /\ job.at = "start" /\ gaveUp' = gaveUp /\ Proceed(k, request[k], TRUE)
    BY <1>5 DEF BalancesUnread
  <2>2. request[k] \in 0..MaxSets
    BY <1>0
  <2>3. TasksBounded'
    BY <2>1, <2>2, ProceedBounded
  <2> QED
    BY <1>2, <2>3 DEF MergeBounded
<1>6. CASE ReadNonce(k)
  <2>1. /\ mined < MaxNonce /\ job' = [job EXCEPT !.at = "signed", !.nonce = mined]
        /\ UNCHANGED <<merging, request, lockQueue, gaveUp>>
    BY <1>6 DEF ReadNonce
  <2>2. job \in Jobs /\ job.amount <= MaxSets /\ mined \in Nat /\ MaxNonce \in Nat
    BY <1>0, MergeAssumption DEF BoundedJobs
  <2>3. job' \in Jobs /\ job'.amount = job.amount /\ job'.nonce = mined
    BY <2>1, <2>2 DEF Jobs
  <2>8. job'.amount <= MaxSets /\ job'.nonce < MaxNonce /\ job'.nonce <= MaxNonce
    <3>1. mined < MaxNonce
      BY <2>1
    <3> QED
      BY <2>2, <2>3, <3>1
  <2>4. job' \in BoundedJobs
    BY <2>3, <2>8 DEF BoundedJobs
  <2>5. LineOf(lockQueue, merging)' /\ request' \in [MergeMarkets -> 0..MaxSets]
    BY <1>0, <2>1 DEF LineOf
  <2>6. TasksBounded'
    BY <1>1, <2>4, <2>5 DEF TasksBounded, BoundedJobs, Jobs
  <2> QED
    BY <1>2, <2>6 DEF MergeBounded
<1>7. CASE Receipt(k) \/ GiveUp(k)
  <2>1. Merging(k) /\ Release(k)
    BY <1>7 DEF Receipt, GiveUp
  <2>2. TasksBounded'
    BY <1>1, <2>1, ReleaseBounded
  <2> QED
    BY <1>2, <2>2 DEF MergeBounded
<1> QED
  BY <1>3, <1>4, <1>5, <1>6, <1>7

\* A transaction is sent, and perhaps given up at once.
LEMMA SendsStayBounded ==
    ASSUME MergeTyped, MergeBounded, NEW k \in MergeMarkets,
           SendTx(k) \/ SendUnanswered(k) \/ SendClashes(k)
    PROVE  MergeBounded'
<1>0. /\ TasksBounded /\ HoldingsBounded /\ PoolBounded /\ job \in BoundedJobs
      /\ request \in [MergeMarkets -> 0..MaxSets] /\ LineOf(lockQueue, merging)
      /\ onChain \in [MergeMarkets -> 0..MaxSets] /\ local \in [MergeMarkets -> 0..MaxSets]
      /\ gaveUp \in BOOLEAN /\ clashed \in BOOLEAN /\ mined \in 0..MaxNonce
      /\ mempool \subseteq BoundedTxs /\ excuse \in BOOLEAN
  BY DEF MergeBounded, TasksBounded, HoldingsBounded, PoolBounded, MergeTyped
<1>1. /\ Merging(k) /\ job.at = "signed" /\ UNCHANGED <<onChain, local, mined>>
      /\ gaveUp' \in BOOLEAN /\ clashed' \in BOOLEAN
  BY <1>0 DEF SendTx, SendUnanswered, SendClashes
<1>2. Transaction(k) \in BoundedTxs
  BY <1>0, <1>1, TransactionBounded
<1>3. \/ mempool' = mempool \cup {Transaction(k)}
      \/ mempool' = mempool
      \/ mempool' = {tx \in mempool : tx.nonce # job.nonce} \cup {Transaction(k)}
  BY DEF SendTx, SendUnanswered, SendClashes
<1>4. HoldingsBounded' /\ PoolBounded'
  <2>1. mempool' \subseteq BoundedTxs
    BY <1>0, <1>2, <1>3
  <2> QED
    BY <1>0, <1>1, <2>1 DEF HoldingsBounded, PoolBounded, BoundedTxs
<1>5. TasksBounded'
  <2>1. CASE Release(k)
    BY <1>1, <2>1, ReleaseBounded
  <2>2. CASE job' = [job EXCEPT !.at = "receipt"] /\ UNCHANGED <<merging, request, lockQueue>>
    <3>1. job \in Jobs /\ job.amount <= MaxSets /\ job.nonce <= MaxNonce /\ job.nonce < MaxNonce
      BY <1>0, <1>1 DEF BoundedJobs
    <3>2. job' \in Jobs /\ job'.amount = job.amount /\ job'.nonce = job.nonce
      BY <2>2, <3>1 DEF Jobs
    <3>3. job' \in BoundedJobs
      BY <3>1, <3>2 DEF BoundedJobs
    <3>4. LineOf(lockQueue, merging)' /\ request' \in [MergeMarkets -> 0..MaxSets]
      BY <1>0, <2>2 DEF LineOf
    <3> QED
      BY <1>1, <3>3, <3>4 DEF TasksBounded, BoundedJobs, Jobs
  <2> QED
    BY <2>1, <2>2 DEF SendTx, SendUnanswered, SendClashes
<1> QED
  BY <1>4, <1>5 DEF MergeBounded

\* The chain and the positions.
LEMMA ChainStaysBounded ==
    ASSUME MergeTyped, MergeBounded,
           Mine \/ \E k \in MergeMarkets : Sync(k) \/ Complete(k) \/ Break(k)
    PROVE  MergeBounded'
<1>0. /\ TasksBounded /\ HoldingsBounded /\ PoolBounded
      /\ onChain \in [MergeMarkets -> 0..MaxSets] /\ local \in [MergeMarkets -> 0..MaxSets]
      /\ gaveUp \in BOOLEAN /\ clashed \in BOOLEAN /\ mined \in 0..MaxNonce
      /\ mempool \subseteq BoundedTxs /\ MaxSets \in Nat /\ MaxNonce \in Nat
  BY MergeAssumption DEF MergeBounded, TasksBounded, HoldingsBounded, PoolBounded
<1>1. UNCHANGED <<request, job, lockQueue, merging, gaveUp, clashed>>
  BY DEF Mine, Sync, Complete, Break
<1>2. TasksBounded'
  BY <1>0, <1>1, TasksAsTheyWere
<1>3. CASE Mine
  <2>1. PICK tx \in mempool :
           /\ tx.nonce = mined /\ mined' = mined + 1 /\ mempool' = mempool \ {tx} /\ local' = local
           /\ \/ tx.amount <= onChain[tx.market]
                 /\ onChain' = [onChain EXCEPT ![tx.market] = @ - tx.amount]
              \/ UNCHANGED onChain
    BY <1>3 DEF Mine
  <2>2. tx \in BoundedTxs
    BY <1>0, <2>1
  <2>3. tx.nonce \in Nat /\ tx.nonce < MaxNonce /\ tx.market \in MergeMarkets /\ tx.amount \in 0..MaxSets
    BY <2>2 DEF BoundedTxs
  <2>4. mined' \in 0..MaxNonce /\ mempool' \subseteq BoundedTxs
    BY <1>0, <2>1, <2>3
  <2>5. onChain' \in [MergeMarkets -> 0..MaxSets]
    <3>1. CASE tx.amount <= onChain[tx.market]
               /\ onChain' = [onChain EXCEPT ![tx.market] = @ - tx.amount]
      <4>1. onChain[tx.market] - tx.amount \in 0..MaxSets
        BY <1>0, <2>3, <3>1
      <4> QED
        BY <1>0, <3>1, <4>1
    <3> QED
      BY <1>0, <2>1, <3>1
  <2> QED
    BY <1>0, <1>1, <1>2, <2>1, <2>4, <2>5 DEF MergeBounded, HoldingsBounded, PoolBounded, BoundedTxs
<1>4. ASSUME NEW k \in MergeMarkets, Sync(k) \/ Complete(k) PROVE MergeBounded'
  <2>1. UNCHANGED <<mined, mempool>>
    BY <1>4 DEF Sync, Complete, chainVars
  <2>2. PoolBounded'
    BY <1>0, <1>1, <2>1, PoolAsItWas
  <2>3. onChain[k] \in 0..MaxSets /\ local[k] \in 0..MaxSets
    BY <1>0
  <2>4. CASE Sync(k)
    BY <1>0, <1>2, <2>2, <2>3, <2>4 DEF Sync, chainVars, MergeBounded, HoldingsBounded
  <2>5. CASE Complete(k)
    <3>1. onChain[k] + 1 \in 0..MaxSets /\ MergeLeast(local[k] + 1, MaxSets) \in 0..MaxSets
      BY <1>0, <2>3, <2>5 DEF Complete, MergeLeast
    <3>2. onChain' = [onChain EXCEPT ![k] = onChain[k] + 1]
          /\ local' = [local EXCEPT ![k] = MergeLeast(local[k] + 1, MaxSets)]
      BY <2>5 DEF Complete
    <3>3. HoldingsBounded'
      BY <1>0, <3>1, <3>2 DEF HoldingsBounded
    <3> QED
      BY <1>2, <2>2, <3>3 DEF MergeBounded
  <2> QED
    BY <1>4, <2>4, <2>5
<1>5. ASSUME NEW k \in MergeMarkets, Break(k) PROVE MergeBounded'
  <2>1. /\ onChain[k] > 0 /\ mined' = mined
        /\ onChain' = [onChain EXCEPT ![k] = onChain[k] - 1]
        /\ local' = [local EXCEPT ![k] = IF local[k] = 0 THEN 0 ELSE local[k] - 1]
        /\ mempool' = {IF tx.market = k THEN [tx EXCEPT !.excused = TRUE] ELSE tx : tx \in mempool}
    BY <1>5 DEF Break
  <2>2. onChain[k] \in 0..MaxSets /\ local[k] \in 0..MaxSets
    BY <1>0
  <2>3. onChain[k] - 1 \in 0..MaxSets /\ (IF local[k] = 0 THEN 0 ELSE local[k] - 1) \in 0..MaxSets
    BY <1>0, <2>1, <2>2
  <2>4. HoldingsBounded'
    BY <1>0, <2>1, <2>3 DEF HoldingsBounded
  <2>5. \A tx \in BoundedTxs : [tx EXCEPT !.excused = TRUE] \in BoundedTxs
    BY DEF BoundedTxs
  <2>6. mempool' \subseteq BoundedTxs
    BY <1>0, <2>1, <2>5
  <2>7. PoolBounded'
    BY <1>0, <1>1, <2>1, <2>6 DEF PoolBounded, BoundedTxs
  <2> QED
    BY <1>2, <2>4, <2>7 DEF MergeBounded
<1> QED
  BY <1>3, <1>4, <1>5

\* Every step keeps to the bounds.
LEMMA MergeStaysBounded ==
    MergeTyped /\ MergeBounded /\ [MergeNext]_mergeVars => MergeBounded'
<1> SUFFICES ASSUME MergeTyped, MergeBounded, [MergeNext]_mergeVars PROVE MergeBounded'
  OBVIOUS
<1>1. CASE UNCHANGED mergeVars
  BY <1>1 DEF mergeVars, chainVars, MergeBounded, TasksBounded, HoldingsBounded, PoolBounded, LineOf,
              BoundedJobs, Jobs, BoundedTxs
<1> QED
  BY <1>1, TasksStayBounded, SendsStayBounded, ChainStaysBounded DEF MergeNext

\* The initial states are within the bounds.
LEMMA MergeInitBounded == MergeInit => MergeBounded
<1> SUFFICES ASSUME MergeInit PROVE MergeBounded
  OBVIOUS
<1>1. MaxSets \in Nat /\ MaxNonce \in Nat
  BY MergeAssumption
<1>2. LineOf(<< >>, {})
  BY DEF LineOf, ToSet
<1>3. NoJob \in BoundedJobs
  BY <1>1 DEF NoJob, BoundedJobs, Jobs
<1>4. [k \in MergeMarkets |-> 0] \in [MergeMarkets -> 0..MaxSets]
  BY <1>1
<1>5. HoldingsBounded
  BY <1>4 DEF MergeInit, HoldingsBounded
<1>6. TasksBounded
  <2>1. /\ request = [k \in MergeMarkets |-> 0] /\ job = NoJob /\ lockQueue = << >>
        /\ merging = {} /\ gaveUp = FALSE
    BY DEF MergeInit
  <2>2. request \in [MergeMarkets -> 0..MaxSets]
    BY <1>4, <2>1
  <2>3. job \in BoundedJobs
    BY <1>3, <2>1
  <2>4. LineOf(lockQueue, merging)
    BY <1>2, <2>1
  <2>5. gaveUp \in BOOLEAN
    BY <2>1
  <2> QED
    BY <2>2, <2>3, <2>4, <2>5 DEF TasksBounded
<1>7. PoolBounded
  <2>1. mined = 0 /\ mempool = {} /\ clashed = FALSE
    BY DEF MergeInit
  <2>2. mined \in 0..MaxNonce
    BY <1>1, <2>1
  <2>3. mempool \subseteq BoundedTxs
    BY <2>1
  <2>4. clashed \in BOOLEAN
    BY <2>1
  <2> QED
    BY <2>2, <2>3, <2>4 DEF PoolBounded
<1> QED
  BY <1>5, <1>6, <1>7 DEF MergeBounded

\* What is well typed and within the bounds has the types that the runs check.
LEMMA MergeBoundedTyped == MergeTyped /\ MergeBounded => MergeTypeOK
<1> SUFFICES ASSUME MergeTyped, MergeBounded PROVE MergeTypeOK
  OBVIOUS
<1>1. LineOf(lockQueue, merging) /\ job \in BoundedJobs
  BY DEF MergeBounded, TasksBounded
<1>2. Cardinality(merging) = Len(lockQueue)
  BY <1>1, LineCounts
<1>3. merging = ToSet(lockQueue) /\ lockQueue \in Seq(MergeMarkets)
  BY <1>1 DEF LineOf
<1>4. job \in [at : {"start", "amount", "signed", "receipt"}, amount : 0..MaxSets, nonce : 0..MaxNonce]
  BY <1>1, MergeAssumption DEF BoundedJobs, Jobs
<1>5. BoundedTxs \subseteq [nonce : 0..MaxNonce, market : MergeMarkets, amount : 0..MaxSets,
                            excused : BOOLEAN]
  BY MergeAssumption DEF BoundedTxs
<1>6. mempool \subseteq BoundedTxs
  BY DEF MergeBounded, PoolBounded
<1>7. mempool \subseteq [nonce : 0..MaxNonce, market : MergeMarkets, amount : 0..MaxSets,
                         excused : BOOLEAN]
  BY <1>5, <1>6
<1> QED
  BY <1>2, <1>3, <1>4, <1>7
  DEF MergeBounded, TasksBounded, HoldingsBounded, PoolBounded, MergeTyped, MergeTypeOK

\* Every reachable state is well typed, and a market in _merging is in the line
\* of the lock once (engine.py, _maybe_merge).
THEOREM MergeTypeCorrect == MergeSpec => []MergeTypeOK
BY MergeInitTyped, MergeInitBounded, MergeTypedStep, MergeStaysBounded, MergeBoundedTyped, PTL DEF MergeSpec

-----------------------------------------------------------------------------
(* Supervision and startup (Supervisor).                                   *)

\* The initial states are well typed.
LEMMA LifeInitTyped == LifeInit => LifeTypeOK
BY DEF LifeInit, LifeTypeOK, Stages, NoTask, Running

\* Every step keeps the types.
LEMMA LifeTypedStep == LifeTypeOK /\ [LifeNext]_lifeVars => LifeTypeOK'
<1> SUFFICES ASSUME LifeTypeOK, [LifeNext]_lifeVars PROVE LifeTypeOK'
  OBVIOUS
<1> USE DEF LifeTypeOK, Running
<1>1. ASSUME NEW ok \in BOOLEAN,
             \/ OpenGateway(ok) \/ StartupCancel(ok) \/ FindLeftovers(ok) \/ Arm(ok) \/ Shutdown(ok)
      PROVE  LifeTypeOK'
  BY <1>1 DEF OpenGateway, StartupCancel, FindLeftovers, Arm, Shutdown, exchangeSide, history, Stages
<1>2. ASSUME NEW ok \in BOOLEAN, NEW canceled \in BOOLEAN, Clear(canceled, ok) PROVE LifeTypeOK'
  BY <1>2 DEF Clear, Stages
<1>3. CASE Spawn
  BY <1>3 DEF Spawn, Stages, exchangeSide
<1>4. ASSUME NEW t \in Tasks, SubmitOrder(t) PROVE LifeTypeOK'
  BY <1>4 DEF SubmitOrder, history
<1>5. ASSUME NEW ok \in BOOLEAN, Beat(ok) PROVE LifeTypeOK'
  BY <1>5 DEF Beat, history
<1>6. ASSUME NEW t \in Tasks, Die(t) PROVE LifeTypeOK'
  BY <1>6 DEF Die, exchangeSide, history
<1>7. ASSUME NEW t \in Tasks, Supervise(t) PROVE LifeTypeOK'
  BY <1>7 DEF Supervise, exchangeSide, history
<1>8. ASSUME NEW t \in Tasks, GatherRaises(t) PROVE LifeTypeOK'
  BY <1>8 DEF GatherRaises, exchangeSide, history, NoTask, Stages
<1>9. CASE Interrupt \/ Crash
  BY <1>9 DEF Interrupt, Crash, exchangeSide, history, NoTask, Stages
<1>10. CASE StartAgain
  BY <1>10 DEF StartAgain, Stages
<1>11. ASSUME NEW who \in {"own", "old"}, Land(who) \/ Lose(who) PROVE LifeTypeOK'
  BY <1>11 DEF Land, Lose, history
<1>12. CASE DeadMan
  BY <1>12 DEF DeadMan
<1>13. CASE UNCHANGED lifeVars
  BY <1>13 DEF lifeVars, exchangeSide, history
<1> QED
  BY <1>1, <1>2, <1>3, <1>4, <1>5, <1>6, <1>7, <1>8, <1>9, <1>10, <1>11, <1>12, <1>13 DEF LifeNext

\* Every reachable state is well typed, and no task outlives the run.
THEOREM LifeTypeCorrect == LifeSpec => []LifeTypeOK
BY LifeInitTyped, LifeTypedStep, PTL DEF LifeSpec

-----------------------------------------------------------------------------
\* From the first heartbeat on the switch runs, or the heartbeat failed, or it
\* has fired.
ArmedWhenUp == stage \in {"spawning", "gathering"} => armed \/ unarmed

\* No order of this life is posted before.
THEOREM ArmedBeforeOrders == LifeSpec => []ArmedFirst
<1>1. LifeInit => ArmedWhenUp
  BY DEF LifeInit, ArmedWhenUp
<1>2. ArmedWhenUp /\ [LifeNext]_lifeVars => ArmedWhenUp'
  <2> SUFFICES ASSUME ArmedWhenUp, [LifeNext]_lifeVars PROVE ArmedWhenUp'
    OBVIOUS
  <2> USE DEF ArmedWhenUp
  <2>1. ASSUME NEW ok \in BOOLEAN, Arm(ok) PROVE ArmedWhenUp'
    BY <2>1 DEF Arm
  <2>2. ASSUME NEW ok \in BOOLEAN,
               OpenGateway(ok) \/ StartupCancel(ok) \/ FindLeftovers(ok) \/ Shutdown(ok)
        PROVE  ArmedWhenUp'
    BY <2>2 DEF OpenGateway, StartupCancel, FindLeftovers, Shutdown
  <2>3. ASSUME NEW ok \in BOOLEAN, NEW canceled \in BOOLEAN, Clear(canceled, ok) PROVE ArmedWhenUp'
    BY <2>3 DEF Clear
  <2>4. CASE Spawn
    BY <2>4 DEF Spawn, exchangeSide
  <2>5. ASSUME NEW ok \in BOOLEAN, Beat(ok) PROVE ArmedWhenUp'
    BY <2>5 DEF Beat, history
  <2>6. ASSUME NEW t \in Tasks, SubmitOrder(t) \/ Die(t) \/ Supervise(t) \/ GatherRaises(t)
        PROVE  ArmedWhenUp'
    BY <2>6 DEF SubmitOrder, Die, Supervise, GatherRaises, exchangeSide, history
  <2>7. CASE Interrupt \/ Crash \/ StartAgain
    BY <2>7 DEF Interrupt, Crash, StartAgain
  <2>8. ASSUME NEW who \in {"own", "old"}, Land(who) \/ Lose(who) PROVE ArmedWhenUp'
    BY <2>8 DEF Land, Lose, history
  <2>9. CASE DeadMan
    BY <2>9 DEF DeadMan
  <2>10. CASE UNCHANGED lifeVars
    BY <2>10 DEF lifeVars, exchangeSide, history
  <2> QED
    BY <2>1, <2>2, <2>3, <2>4, <2>5, <2>6, <2>7, <2>8, <2>9, <2>10 DEF LifeNext
<1>3. ArmedWhenUp => ArmedFirst
  BY DEF ArmedWhenUp, ArmedFirst, Running
<1> QED
  BY <1>1, <1>2, <1>3, PTL DEF LifeSpec

-----------------------------------------------------------------------------
\* Once the startup has looked, an old order that rests is known, or a look
\* failed, or the order landed later.
OldAccounted ==
    stage \in {"arming", "spawning", "gathering"} /\ "old" \in rests => known \/ slipped

\* So it is when the engine begins to quote.
THEOREM OldOrdersAccounted == LifeSpec => []OldOrdersKnown
<1>1. LifeInit => OldAccounted
  BY DEF LifeInit, OldAccounted
<1>2. OldAccounted /\ [LifeNext]_lifeVars => OldAccounted'
  <2> SUFFICES ASSUME OldAccounted, [LifeNext]_lifeVars PROVE OldAccounted'
    OBVIOUS
  <2> USE DEF OldAccounted
  <2>1. ASSUME NEW ok \in BOOLEAN, FindLeftovers(ok) PROVE OldAccounted'
    BY <2>1 DEF FindLeftovers, exchangeSide
  <2>2. ASSUME NEW ok \in BOOLEAN, NEW canceled \in BOOLEAN, Clear(canceled, ok) PROVE OldAccounted'
    BY <2>2 DEF Clear
  <2>3. ASSUME NEW ok \in BOOLEAN, OpenGateway(ok) \/ StartupCancel(ok) \/ Shutdown(ok)
        PROVE  OldAccounted'
    BY <2>3 DEF OpenGateway, StartupCancel, Shutdown
  <2>4. ASSUME NEW ok \in BOOLEAN, Arm(ok) PROVE OldAccounted'
    BY <2>4 DEF Arm
  <2>5. CASE Spawn
    BY <2>5 DEF Spawn, exchangeSide
  <2>6. ASSUME NEW ok \in BOOLEAN, Beat(ok) PROVE OldAccounted'
    BY <2>6 DEF Beat, history
  <2>7. ASSUME NEW t \in Tasks, SubmitOrder(t) \/ Die(t) \/ Supervise(t) \/ GatherRaises(t)
        PROVE  OldAccounted'
    BY <2>7 DEF SubmitOrder, Die, Supervise, GatherRaises, exchangeSide, history
  <2>8. CASE Interrupt \/ Crash \/ StartAgain
    BY <2>8 DEF Interrupt, Crash, StartAgain
  <2>9. ASSUME NEW who \in {"own", "old"}, Land(who) PROVE OldAccounted'
    BY <2>9 DEF Land
  <2>10. ASSUME NEW who \in {"own", "old"}, Lose(who) PROVE OldAccounted'
    BY <2>10 DEF Lose, history
  <2>11. CASE DeadMan
    BY <2>11 DEF DeadMan
  <2>12. CASE UNCHANGED lifeVars
    BY <2>12 DEF lifeVars, exchangeSide, history
  <2> QED
    BY <2>1, <2>2, <2>3, <2>4, <2>5, <2>6, <2>7, <2>8, <2>9, <2>10, <2>11, <2>12 DEF LifeNext
<1>3. OldAccounted => OldOrdersKnown
  BY DEF OldAccounted, OldOrdersKnown
<1> QED
  BY <1>1, <1>2, <1>3, PTL DEF LifeSpec

-----------------------------------------------------------------------------
(* The machines side by side (MCEngine).                                   *)

\* What each machine keeps to, whichever of them runs.
MachinesTyped == FeedTyped /\ MergeTyped /\ MergeBounded /\ LifeTypeOK

\* A step of the engine is one of each machine, or leaves the machine alone.
LEMMA StepsApart ==
    [Next]_engineVars => [FeedNext]_feedVars /\ [MergeNext]_mergeVars /\ [LifeNext]_lifeVars
BY DEF Next, engineVars

\* In every reachable state of the engine each machine's variables have their
\* types: the market data (engine.py:893-918), the merging (engine.py:691-714)
\* and the life of the process (engine.py:117-199).
THEOREM EngineTypeCorrect == Spec => []EngineTypeOK
<1>1. Init => MachinesTyped
  BY FeedInitTyped, MergeInitTyped, MergeInitBounded, LifeInitTyped DEF Init, MachinesTyped
<1>2. MachinesTyped /\ [Next]_engineVars => MachinesTyped'
  BY StepsApart, FeedTypedStep, MergeTypedStep, MergeStaysBounded, LifeTypedStep DEF MachinesTyped
<1>3. MachinesTyped => EngineTypeOK
  BY MergeBoundedTyped DEF MachinesTyped, EngineTypeOK, FeedTyped
<1> QED
  BY <1>1, <1>2, <1>3, PTL DEF Spec
=============================================================================
