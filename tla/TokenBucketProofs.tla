------------------------- MODULE TokenBucketProofs -------------------------
(***************************************************************************)
(* The token bucket keeps its budget, for every rate, capacity, set of     *)
(* callers and schedule.                                                   *)
(***************************************************************************)
EXTENDS TokenBucket, SequenceTheorems, TLAPS

\* What _refill leaves in the bucket is between empty and full.
LEMMA RefilledType ==
    ASSUME TypeOK
    PROVE  Refilled \in 0..Capacity
<1>1. Rate * since \in Nat
  BY BucketAssumption DEF TypeOK
<1>2. QED
  BY <1>1, BucketAssumption DEF TypeOK, Refilled, Least

\* The length of a sleep: as many whole ticks as the deficit covers.
LEMMA Division ==
    ASSUME NEW n \in Nat, NEW d \in Nat \ {0}
    PROVE  /\ n \div d \in Nat
           /\ d * (n \div d) <= n
           /\ n < d * (n \div d) + d
BY SMTT(20)

\* The lock has a holder when there is a line.
LEMMA HolderType ==
    ASSUME TypeOK, queue # << >>
    PROVE  Holder \in Callers /\ wants[Holder] \in Nat /\ Tail(queue) \in Seq(Callers)
BY DEF TypeOK, Holder

\* A caller that gives up leaves the line, and the holder where it is.
LEMMA CancelType ==
    ASSUME queue \in Seq(Callers), NEW i \in DOMAIN queue
    PROVE  /\ RemoveAt(queue, i) \in Seq(Callers)
           /\ i # 1 => RemoveAt(queue, i) # << >> /\ RemoveAt(queue, i)[1] = queue[1]
<1> DEFINE front == SubSeq(queue, 1, i - 1)
           back  == SubSeq(queue, i + 1, Len(queue))
<1>1. i \in 1..Len(queue) /\ Len(queue) \in Nat
  OBVIOUS
<1>2. /\ front \in Seq(Callers) /\ Len(front) = (IF 1 <= i - 1 THEN i - 1 ELSE 0)
      /\ \A j \in 1..(i - 1) : front[j] = queue[j]
  <2>1. \A j \in 1..(i - 1) : queue[j] \in Callers
    BY <1>1
  <2>2. front \in Seq(Callers)
        /\ Len(front) = (IF 1 <= i - 1 THEN (i - 1) - 1 + 1 ELSE 0)
        /\ \A j \in 1..((i - 1) - 1 + 1) : front[j] = queue[1 + j - 1]
    BY <1>1, <2>1, SubSeqProperties, i - 1 \in Int
  <2>3. QED
    BY <1>1, <2>2
<1>3. back \in Seq(Callers)
  <2>1. \A j \in (i + 1)..Len(queue) : queue[j] \in Callers
    BY <1>1
  <2>2. QED
    BY <1>1, <2>1, SubSeqProperties, i + 1 \in Int, Len(queue) \in Int
<1>4. RemoveAt(queue, i) = front \o back
  BY DEF RemoveAt
<1>5. /\ front \o back \in Seq(Callers)
      /\ Len(front \o back) = Len(front) + Len(back)
      /\ \A j \in 1..(Len(front) + Len(back)) :
            (front \o back)[j] = IF j <= Len(front) THEN front[j] ELSE back[j - Len(front)]
  BY <1>2, <1>3, ConcatProperties
<1>6. i # 1 => front \o back # << >> /\ (front \o back)[1] = queue[1]
  <2>1. SUFFICES ASSUME i # 1
                 PROVE  front \o back # << >> /\ (front \o back)[1] = queue[1]
    OBVIOUS
  <2>2. Len(front) = i - 1 /\ i - 1 >= 1 /\ Len(back) \in Nat /\ front[1] = queue[1]
    BY <1>1, <1>2, <1>3, <2>1
  <2>3. Len(front \o back) >= 1 /\ (front \o back)[1] = front[1]
    BY <1>5, <2>2
  <2>4. QED
    BY <1>5, <2>2, <2>3
<1>7. QED
  BY <1>4, <1>5, <1>6

-----------------------------------------------------------------------------
(* Type correctness.                                                       *)

\* The initial states are well typed.
LEMMA TypeInit == Init => TypeOK
BY BucketAssumption DEF Init, TypeOK

\* Every step keeps the types.
LEMMA TypeNext == TypeOK /\ [Next]_vars => TypeOK'
<1> SUFFICES ASSUME TypeOK, [Next]_vars
             PROVE  TypeOK'
  OBVIOUS
<1> USE DEF callVars, window
<1>0. Refilled \in 0..Capacity /\ Capacity \in Nat
  BY RefilledType, BucketAssumption
<1>1. ASSUME NEW c \in Callers, NEW n \in Wants, Call(c, n)
      PROVE  TypeOK'
  BY <1>1, BucketAssumption DEF Call, TypeOK
<1>2. CASE Grant
  <2>1. Refilled >= wants[Holder] /\ wants[Holder] \in Nat /\ Tail(queue) \in Seq(Callers)
    BY <1>2, HolderType DEF Grant
  <2>2. tokens' \in 0..Capacity
    BY <1>0, <1>2, <2>1 DEF Grant
  <2>3. since' \in 0..Saturated
    BY <1>2, BucketAssumption DEF Grant
  <2>4. winGranted' \in Nat
    BY <1>2, <2>1 DEF Grant, TypeOK
  <2>5. QED
    BY <1>2, <2>1, <2>2, <2>3, <2>4 DEF Grant, TypeOK
<1>3. CASE Sleep
  <2>1. Deficit \in Nat
    BY <1>0, <1>3, HolderType DEF Sleep, Deficit
  <2>2. left' \in Nat
    BY <1>3, <2>1, Division, BucketAssumption DEF Sleep
  <2>3. QED
    BY <1>0, <1>3, <2>2, BucketAssumption DEF Sleep, Refill, TypeOK
<1>4. ASSUME NEW i \in DOMAIN queue, Cancel(i)
      PROVE  TypeOK'
  BY <1>4, CancelType DEF Cancel, TypeOK
<1>5. CASE Pressure
  BY <1>0, <1>5, BucketAssumption DEF Pressure, Refill, TypeOK
<1>6. CASE Tick
  BY <1>6, BucketAssumption DEF Tick, TypeOK, Least
<1>7. CASE OpenWindow
  BY <1>7, BucketAssumption DEF OpenWindow, TypeOK
<1>8. CASE UNCHANGED vars
  BY <1>8 DEF vars, TypeOK
<1>9. QED
  BY <1>1, <1>2, <1>3, <1>4, <1>5, <1>6, <1>7, <1>8 DEF Next

\* Type correctness: the bucket is never overdrawn and never overflows.
THEOREM TypeCorrect == Spec => []TypeOK
<1>1. QED
  BY TypeInit, TypeNext, PTL DEF Spec

-----------------------------------------------------------------------------
(* The budget.                                                             *)

\* What a window may still be granted covers what is in the bucket, with
\* what the rate has brought since the last refill.
BudgetInv == winGranted + Refilled <= Capacity + Rate * winAge

\* Every step keeps the budget.
LEMMA BudgetNext == TypeOK /\ BudgetInv /\ [Next]_vars => BudgetInv'
<1> SUFFICES ASSUME TypeOK, BudgetInv, [Next]_vars
             PROVE  BudgetInv'
  OBVIOUS
<1> USE DEF callVars, window
<1>0. /\ Refilled \in 0..Capacity /\ Capacity \in Nat /\ Rate \in Nat /\ Saturated \in Nat
      /\ winGranted \in Nat /\ winAge \in Nat /\ since \in 0..Saturated /\ tokens \in 0..Capacity
      /\ Rate * since \in Nat /\ Rate * winAge \in Nat /\ Rate * Saturated >= Capacity
  BY RefilledType, BucketAssumption DEF TypeOK
<1>1. CASE Sleep \/ Pressure
  <2>1. tokens' = Refilled /\ since' = 0 /\ UNCHANGED window
    BY <1>1 DEF Sleep, Pressure, Refill
  <2>2. Refilled' = Refilled
    BY <1>0, <2>1 DEF Refilled, Least
  <2>3. QED
    BY <2>1, <2>2 DEF BudgetInv
<1>2. CASE Grant
  <2>1. wants[Holder] \in Nat /\ Refilled >= wants[Holder]
    BY <1>2, HolderType DEF Grant
  <2>2. Refilled' = Refilled - wants[Holder]
    BY <1>0, <1>2, <2>1 DEF Grant, Refilled, Least
  <2>3. winGranted' = winGranted + wants[Holder] /\ winAge' = winAge
    BY <1>2 DEF Grant
  <2>4. QED
    BY <1>0, <2>1, <2>2, <2>3 DEF BudgetInv
<1>3. CASE Tick
  <2>1. tokens' = tokens /\ since' \in {since + 1, Saturated}
    BY <1>0, <1>3 DEF Tick, Least
  <2>2. Rate * (since + 1) = Rate * since + Rate /\ Rate * (winAge + 1) = Rate * winAge + Rate
    BY <1>0
  <2>3. since' = Saturated => since + 1 >= Saturated
    BY <1>0, <1>3 DEF Tick, Least
  <2>4. Refilled' = Least(Capacity, tokens + Rate * since')
    BY <2>1 DEF Refilled
  <2>5. Refilled' \in Nat /\ Refilled' <= Capacity /\ Refilled' <= Refilled + Rate
    <3>1. CASE since' = since + 1
      BY <1>0, <2>2, <2>4, <3>1 DEF Refilled, Least
    <3>2. CASE since' = Saturated
      <4>1. Refilled' = Capacity
        BY <1>0, <2>4, <3>2 DEF Least
      <4>2. CASE since = Saturated
        BY <1>0, <4>1, <4>2 DEF Refilled, Least
      <4>3. CASE since + 1 = Saturated
        BY <1>0, <2>2, <4>1, <4>3 DEF Refilled, Least
      <4>4. QED
        BY <1>0, <2>3, <3>2, <4>2, <4>3
    <3>3. QED
      BY <2>1, <3>1, <3>2
  <2>6. CASE winAge = MaxWindow
    <3>1. winGranted' = 0 /\ winAge' = 0
      BY <1>3, <2>6 DEF Tick
    <3>2. Rate * winAge' = 0
      BY <1>0, <3>1
    <3>3. winGranted' + Refilled' <= Capacity + Rate * winAge'
      <4>1. PICK r \in Nat : r = Refilled'
        BY <2>5
      <4>2. r <= Capacity /\ Capacity \in Nat
        BY <2>5, <4>1, <1>0
      <4>3. 0 + r <= Capacity + 0
        BY <4>2
      <4>4. QED
        BY <3>1, <3>2, <4>1, <4>3
    <3>4. QED
      BY <3>3 DEF BudgetInv
  <2>7. CASE winAge # MaxWindow
    <3>1. winGranted' = winGranted /\ winAge' = winAge + 1
      BY <1>3, <2>7 DEF Tick
    <3>2. Rate * winAge' = Rate * winAge + Rate
      BY <2>2, <3>1
    <3>3. winGranted + Refilled <= Capacity + Rate * winAge
      BY DEF BudgetInv
    <3>4. winGranted' + Refilled' <= Capacity + Rate * winAge'
      <4>1. PICK r \in Nat : r = Refilled'
        BY <2>5
      <4>2. PICK q \in Nat : q = Refilled
        BY <1>0
      <4>3. PICK w \in Nat : w = Rate * winAge
        BY <1>0
      <4>4. r <= q + Rate /\ winGranted + q <= Capacity + w
        BY <2>5, <3>3, <4>1, <4>2, <4>3
      <4>5. winGranted + r <= Capacity + (w + Rate)
        BY <1>0, <4>4
      <4>6. QED
        BY <3>1, <3>2, <4>1, <4>3, <4>5
    <3>5. QED
      BY <3>4 DEF BudgetInv
  <2>8. QED
    BY <2>6, <2>7
<1>4. CASE OpenWindow
  <2>1. winGranted' = 0 /\ winAge' = 0 /\ Refilled' = Refilled
    BY <1>4 DEF OpenWindow, Refilled
  <2>2. QED
    BY <1>0, <2>1 DEF BudgetInv
<1>5. CASE \/ \E c \in Callers, n \in Wants : Call(c, n)
           \/ \E i \in DOMAIN queue : Cancel(i)
           \/ UNCHANGED vars
  <2>1. UNCHANGED <<tokens, since, winAge, winGranted>>
    BY <1>5 DEF Call, Cancel, vars
  <2>2. QED
    BY <2>1 DEF BudgetInv, Refilled
<1>6. QED
  BY <1>1, <1>2, <1>3, <1>4, <1>5 DEF Next

\* In every window of time the bucket grants at most its capacity and what
\* the rate brings in that time.
THEOREM BudgetKept == Spec => []WithinBudget
<1>1. Init => BudgetInv
  BY BucketAssumption DEF Init, BudgetInv, Refilled, Least
<1>2. TypeOK /\ BudgetInv => WithinBudget
  <2>1. SUFFICES ASSUME TypeOK, BudgetInv PROVE WithinBudget
    OBVIOUS
  <2>2. Refilled >= 0 /\ Refilled \in Int /\ Rate * winAge \in Int /\ winGranted \in Int
    BY <2>1, RefilledType, BucketAssumption DEF TypeOK
  <2>3. QED
    BY <2>1, <2>2, BucketAssumption DEF BudgetInv, WithinBudget
<1>3. QED
  BY <1>1, <1>2, TypeCorrect, BudgetNext, PTL DEF Spec

-----------------------------------------------------------------------------
(* The sleep.                                                              *)

\* Only a holder sleeps.
NobodySleepsAlone == left > 0 => queue # << >>

\* Only the holder sleeps, for as long as it must.
SleepInv == NobodySleepsAlone /\ SleepsJustEnough

\* Every step keeps this.
LEMMA SleepNext == TypeOK /\ SleepInv /\ [Next]_vars => SleepInv'
<1> SUFFICES ASSUME TypeOK, SleepInv, [Next]_vars
             PROVE  SleepInv'
  OBVIOUS
<1> USE DEF callVars, SleepInv, NobodySleepsAlone
<1>0. /\ Refilled \in 0..Capacity /\ Capacity \in Nat /\ Rate \in Nat \ {0} /\ Saturated \in Nat
      /\ since \in 0..Saturated /\ tokens \in 0..Capacity /\ left \in Nat
      /\ Rate * since \in Nat /\ Rate * left \in Nat /\ Rate * Saturated \in Nat
      /\ Rate * Saturated >= Capacity
  BY RefilledType, BucketAssumption DEF TypeOK
<1>1. Rate * (since + left) = Rate * since + Rate * left
  BY <1>0
\* A sleeper that the capacity can serve finds no full bucket.
<1>2. ASSUME left > 0, queue # << >>, wants[Holder] <= Capacity
      PROVE  /\ tokens + Rate * since + Rate * left <= wants[Holder]
             /\ wants[Holder] < tokens + Rate * since + Rate * left + Rate
             /\ tokens + Rate * since < Capacity /\ since # Saturated
             /\ Refilled = tokens + Rate * since
  <2>1. wants[Holder] \in Nat
    BY <1>2, HolderType
  <2>2. /\ tokens + (Rate * since + Rate * left) <= wants[Holder]
        /\ wants[Holder] < tokens + (Rate * since + Rate * left) + Rate
    BY <1>1, <1>2 DEF SleepsJustEnough
  <2>3. Rate * left >= 1
    BY <1>0, <1>2
  <2>4. tokens + Rate * since < Capacity
    <3>1. PICK a \in Nat : a = Rate * since
      BY <1>0
    <3>2. PICK b \in Nat : b = Rate * left
      BY <1>0
    <3>3. tokens + (a + b) <= wants[Holder] /\ b >= 1
      BY <2>2, <2>3, <3>1, <3>2
    <3>4. tokens + a < Capacity
      BY <1>0, <1>2, <2>1, <3>3
    <3>5. QED
      BY <3>1, <3>4
  <2>5. since # Saturated
    BY <1>0, <2>4
  <2>6. Refilled = tokens + Rate * since
    BY <1>0, <2>4 DEF Refilled, Least
  <2>7. QED
    BY <1>0, <2>1, <2>2, <2>4, <2>5, <2>6
<1>3. ASSUME left' > 0, queue # << >>, queue' # << >>, queue'[1] = queue[1], left' = left,
             wants'[Holder] = wants[Holder], UNCHANGED <<tokens, since>>
      PROVE  SleepInv'
  BY <1>3 DEF SleepsJustEnough, Holder
<1>4. ASSUME NEW c \in Callers, NEW n \in Wants, Call(c, n)
      PROVE  SleepInv'
  <2>1. CASE left = 0
    BY <1>4, <2>1 DEF Call, SleepsJustEnough
  <2>2. CASE left > 0
    <3>1. queue # << >> /\ queue \in Seq(Callers)
      BY <2>2 DEF TypeOK
    <3>2. Holder \in Waiting
      BY <3>1 DEF Holder, Waiting, ToSet
    <3>3. queue' # << >> /\ queue'[1] = queue[1]
      BY <1>4, <3>1 DEF Call
    <3>4. wants'[Holder] = wants[Holder]
      BY <1>4, <3>2, HolderType, <3>1 DEF Call, TypeOK
    <3>5. QED
      BY <1>3, <1>4, <2>2, <3>1, <3>3, <3>4 DEF Call
  <2>3. QED
    BY <1>0, <2>1, <2>2
<1>5. CASE Grant
  BY <1>5 DEF Grant, SleepsJustEnough
<1>6. CASE Sleep
  <2>1. /\ queue' = queue /\ wants' = wants /\ tokens' = Refilled /\ since' = 0
        /\ left' = Deficit \div Rate /\ queue # << >> /\ Refilled < wants[Holder]
    BY <1>6 DEF Sleep, Refill
  <2>2. wants[Holder] \in Nat /\ Deficit \in Nat /\ Deficit = wants[Holder] - Refilled
    BY <1>0, <2>1, HolderType DEF Deficit
  <2>3. PICK d \in Nat : d = Deficit \div Rate
    BY <1>0, <2>2, Division
  <2>4. Rate * d <= Deficit /\ Deficit < Rate * d + Rate
    BY <1>0, <2>2, <2>3, Division
  <2>5. PICK e \in Nat : e = Rate * d
    BY <1>0
  <2>6. Refilled + e <= wants[Holder] /\ wants[Holder] < (Refilled + e) + Rate
    BY <1>0, <2>2, <2>4, <2>5
  <2>7. Rate * (0 + d) = e
    BY <2>5
  <2>8. QED
    BY <2>1, <2>3, <2>6, <2>7 DEF SleepsJustEnough, Holder
<1>7. ASSUME NEW i \in DOMAIN queue, Cancel(i)
      PROVE  SleepInv'
  <2>1. CASE i = 1
    BY <1>7, <2>1 DEF Cancel, SleepsJustEnough
  <2>2. CASE i # 1 /\ left > 0
    <3>1. queue' # << >> /\ queue'[1] = queue[1]
      BY <1>7, <2>2, CancelType DEF Cancel, TypeOK
    <3>2. QED
      BY <1>3, <1>7, <2>2, <3>1 DEF Cancel
  <2>3. CASE i # 1 /\ left = 0
    BY <1>7, <2>3 DEF Cancel, SleepsJustEnough
  <2>4. QED
    BY <1>0, <2>1, <2>2, <2>3
<1>8. CASE Pressure
  <2>1. tokens' = Refilled /\ since' = 0 /\ queue' = queue /\ wants' = wants /\ left' = left
    BY <1>8 DEF Pressure, Refill
  <2>2. SUFFICES ASSUME queue # << >>, left > 0, wants[Holder] <= Capacity
                 PROVE  /\ Refilled + Rate * (0 + left) <= wants[Holder]
                        /\ wants[Holder] < Refilled + Rate * (0 + left) + Rate
    BY <2>1 DEF SleepsJustEnough, Holder
  <2>3. QED
    BY <1>0, <1>2, <2>2
<1>9. CASE Tick
  <2>1. CASE left = 0
    BY <1>9, <2>1 DEF Tick, SleepsJustEnough
  <2>2. CASE left > 0
    <3>1. left' = left - 1 /\ tokens' = tokens /\ queue' = queue /\ wants' = wants
      BY <1>9, <2>2 DEF Tick
    <3>2. SUFFICES ASSUME wants[Holder] <= Capacity
                   PROVE  /\ tokens + Rate * (since' + (left - 1)) <= wants[Holder]
                          /\ wants[Holder] < tokens + Rate * (since' + (left - 1)) + Rate
      BY <2>2, <3>1 DEF SleepsJustEnough, Holder
    <3>3. since # Saturated
      BY <1>2, <2>2, <3>2
    <3>4. since' = since + 1
      BY <1>0, <1>9, <3>3 DEF Tick, Least
    <3>5. since' + (left - 1) = since + left
      BY <1>0, <3>4
    <3>6. QED
      BY <2>2, <3>2, <3>5 DEF SleepsJustEnough
  <2>3. QED
    BY <1>0, <2>1, <2>2
<1>10. CASE OpenWindow
  BY <1>10 DEF OpenWindow, SleepsJustEnough, Holder
<1>11. CASE UNCHANGED vars
  BY <1>11 DEF vars, SleepsJustEnough, Holder
<1>12. QED
  BY <1>4, <1>5, <1>6, <1>7, <1>8, <1>9, <1>10, <1>11 DEF Next

\* A sleep ends when the refill covers the demand, less than a tick early and
\* no later, whoever refills in between.
THEOREM SleepIsExact == Spec => []SleepsJustEnough
<1>1. Init => SleepInv
  BY DEF Init, SleepInv, NobodySleepsAlone, SleepsJustEnough
<1>2. QED
  BY <1>1, TypeCorrect, SleepNext, PTL DEF Spec, SleepInv
=============================================================================
