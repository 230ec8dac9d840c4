---------------------------- MODULE SchedulerProofs ----------------------------
(***************************************************************************)
(* Proofs about Scheduler, for any resolution of time, any delay of a tick *)
(* below a second, and any duration.                                       *)
(***************************************************************************)
EXTENDS Scheduler, TLAPS

USE ClockAssumption

\* Multiplication by a number of units is monotonic.
LEMMA Monotonic ==
  ASSUME NEW a \in Nat, NEW b \in Nat
  PROVE  /\ a * Units \in Nat
         /\ (a + 1) * Units = a * Units + Units
         /\ a <= b => a * Units <= b * Units
OBVIOUS

\* The second of a time is the number of whole seconds in it.
LEMMA SecondOf ==
  ASSUME NEW n \in Nat, NEW s \in Nat, s * Units <= n, n < (s + 1) * Units
  PROVE  n \div Units = s
<1>1. n \div Units \in Nat
  OBVIOUS
<1>2. (n \div Units) * Units <= n /\ n < (n \div Units + 1) * Units
  OBVIOUS
<1>3. ~ n \div Units >= s + 1
  BY <1>1, <1>2, Monotonic
<1>4. ~ n \div Units + 1 <= s
  BY <1>1, <1>2, Monotonic
<1>5. QED
  BY <1>1, <1>3, <1>4

-----------------------------------------------------------------------------
LEMMA InitIInv == Init => IInv
<1> SUFFICES ASSUME Init PROVE IInv
  OBVIOUS
<1>1. TypeOK
  <2>1. 1 * Units <= MaxSeconds * Units /\ MaxSeconds * Units \in Nat
    BY Monotonic
  <2>2. phase \in Nat /\ phase < Units
    BY DEF Init
  <2>3. now \in 0..(MaxSeconds * Units) /\ next \in now..(now + 2 * Units)
    BY <2>1, <2>2 DEF Init
  <2>4. {isReload, disturbed} \subseteq BOOLEAN
    BY DEF Init
  <2>5. QED
    BY <2>3, <2>4 DEF Init, TypeOK, Second
<1>2. ClockInv
  BY DEF Init, ClockInv
<1>3. CheckInv
  BY DEF Init, CheckInv, Count, Done, Second
<1>4. QED
  BY <1>1, <1>2, <1>3 DEF IInv

-----------------------------------------------------------------------------
\* Time passes within the second of the timer.
LEMMA AdvanceStep == IInv /\ Advance => IInv'
<1> SUFFICES ASSUME IInv, Advance PROVE IInv'
  OBVIOUS
<1> USE DEF IInv
<1>1. TypeOK'
  <2>1. MaxSeconds * Units \in Nat
    BY Monotonic
  <2>2. QED
    BY <2>1 DEF TypeOK, Advance, ClockInv
<1>2. ClockInv'
  BY DEF Advance, ClockInv, TypeOK
<1>3. CheckInv'
  BY DEF Advance, CheckInv, Count, Done
<1>4. QED
  BY <1>1, <1>2, <1>3

\* What the clock says when the timer expires: the tick before is over, and
\* the seconds are not yet used up.
LEMMA ExpireFacts ==
  ASSUME IInv, Expire
  PROVE  at = "idle" /\ ticks + 1 \in Second
<1> USE DEF IInv
<1>1. /\ ticks \in Nat /\ now \in Nat /\ phase \in Nat /\ next = now
      /\ now = phase + (ticks + 1) * Units /\ now <= MaxSeconds * Units
  BY DEF Expire, ClockInv, TypeOK, Second
<1>2. at = "idle"
  BY <1>1 DEF ClockInv, TypeOK
<1>3. ~ MaxSeconds + 1 <= ticks + 1
  <2>1. SUFFICES ASSUME MaxSeconds + 1 <= ticks + 1 PROVE FALSE
    OBVIOUS
  <2>2. (MaxSeconds + 1) * Units <= (ticks + 1) * Units
    BY <1>1, <2>1, Monotonic
  <2>3. (MaxSeconds + 1) * Units = MaxSeconds * Units + Units
    BY Monotonic
  <2>4. (ticks + 1) * Units \in Nat /\ MaxSeconds * Units \in Nat
    BY <1>1, Monotonic
  <2>5. QED
    BY <1>1, <2>2, <2>3, <2>4
<1>4. QED
  BY <1>1, <1>2, <1>3 DEF Second

LEMMA ExpireStep == IInv /\ Expire => IInv'
<1> SUFFICES ASSUME IInv, Expire PROVE IInv'
  OBVIOUS
<1> USE DEF IInv
<1>1. at = "idle" /\ at' = "start" /\ ticks' = ticks + 1
      /\ ticks \in Nat /\ ticks + 1 \in Second
  BY ExpireFacts DEF Expire, TypeOK, Second
<1>2. TypeOK'
  BY <1>1 DEF TypeOK, Expire
<1>3. ClockInv'
  <2>1. (ticks + 1 + 1) * Units = (ticks + 1) * Units + Units
    BY <1>1, Monotonic
  <2>2. (ticks + 1) * Units \in Nat
    BY <1>1, Monotonic
  <2>3. QED
    BY <1>1, <2>1, <2>2 DEF ClockInv, Expire, TypeOK
<1>4. CheckInv'
  <2>1. skipped' = skipped /\ skipped \subseteq 1..ticks /\ checked' = checked
        /\ disturbed' = disturbed /\ phase' = phase
    BY DEF Expire, CheckInv
  <2>2. \A t \in Nat : Done(t)' <=> Done(t)
    BY <1>1, <2>1 DEF Done
  <2>3. \A s \in Second : /\ Count(s)' = Count(s)
                          /\ s > 0 => Count(s - 1)' = Count(s - 1)
    BY <2>2 DEF Count, Second
  <2>4. \A s \in Second : checked[s] <= ticks /\ checked[s] \in Nat
    BY DEF CheckInv, TypeOK
  <2>5. QED
    BY <1>1, <2>1, <2>2, <2>3, <2>4 DEF CheckInv, Second
<1>5. QED
  BY <1>2, <1>3, <1>4

-----------------------------------------------------------------------------
\* A tick that meets a reload checks nothing, and leaves the seconds of the
\* others as they were.
LEMMA SkipStep == IInv /\ TickSkip => IInv'
<1> SUFFICES ASSUME IInv, TickSkip PROVE IInv'
  OBVIOUS
<1> USE DEF IInv
<1>1. ticks \in 1..MaxSeconds /\ at = "start" /\ at' = "idle"
      /\ skipped' = skipped \cup {ticks}
  BY DEF TickSkip, TypeOK, ClockInv, Second
<1>2. TypeOK'
  BY <1>1 DEF TypeOK, TickSkip
<1>3. ClockInv'
  BY <1>1 DEF ClockInv, TickSkip
<1>4. CheckInv'
  <2>1. \A t \in Nat : Done(t)' <=> Done(t)
    BY <1>1 DEF Done, TickSkip
  <2>2. \A s \in Second : /\ Count(s)' = Count(s)
                          /\ s > 0 => Count(s - 1)' = Count(s - 1)
    BY <2>1 DEF Count, Second
  <2>3. skipped' \subseteq 1..ticks' /\ (at' # "idle" => ticks' \notin skipped')
    BY <1>1 DEF CheckInv, TickSkip
  <2>4. QED
    BY <1>1, <2>1, <2>2, <2>3 DEF CheckInv, Second, TickSkip
<1>5. QED
  BY <1>2, <1>3, <1>4

\* A tick breaks down the second it was due in or, when it is late and the
\* timer was armed late in a second, the next.
LEMMA LocaltimeReads ==
  ASSUME IInv, TickLocaltime
  PROVE  /\ buffer' \in Second
         /\ buffer' \in {ticks, ticks + 1}
         /\ phase + MaxDelay < Units => buffer' = ticks
<1> USE DEF IInv
<1>1. /\ ticks \in Nat /\ now \in Nat /\ phase \in Nat /\ phase < Units
      /\ next \in Nat /\ at = "start" /\ now <= MaxSeconds * Units
      /\ buffer' = now \div Units
  BY DEF TickLocaltime, TypeOK, Second
<1>2. /\ ticks * Units \in Nat
      /\ (ticks + 1) * Units = ticks * Units + Units
      /\ (ticks + 1 + 1) * Units = (ticks + 1) * Units + Units
  BY <1>1, Monotonic
<1>3. ticks * Units + phase <= now /\ now <= ticks * Units + phase + MaxDelay
  BY <1>1, <1>2 DEF ClockInv
<1>4. CASE now < (ticks + 1) * Units
  <2>1. now \div Units = ticks
    BY <1>1, <1>2, <1>3, <1>4, SecondOf
  <2>2. QED
    BY <1>1, <2>1 DEF TypeOK
<1>5. CASE (ticks + 1) * Units <= now
  <2>1. now < (ticks + 1 + 1) * Units /\ ~(phase + MaxDelay < Units)
    BY <1>1, <1>2, <1>3, <1>5
  <2>2. now \div Units = ticks + 1
    BY <1>1, <1>5, <2>1, SecondOf
  <2>3. ~ MaxSeconds + 1 <= ticks + 1
    <3>1. SUFFICES ASSUME MaxSeconds + 1 <= ticks + 1 PROVE FALSE
      OBVIOUS
    <3>2. (MaxSeconds + 1) * Units <= (ticks + 1) * Units
      BY <1>1, <3>1, Monotonic
    <3>3. /\ (MaxSeconds + 1) * Units = MaxSeconds * Units + Units
          /\ MaxSeconds * Units \in Nat /\ (ticks + 1) * Units \in Nat
      BY <1>1, Monotonic
    <3>4. QED
      BY <1>1, <1>5, <3>2, <3>3
  <2>4. QED
    BY <1>1, <2>1, <2>2, <2>3 DEF Second
<1>6. QED
  BY <1>1, <1>2, <1>4, <1>5

LEMMA LocaltimeStep == IInv /\ TickLocaltime => IInv'
<1> SUFFICES ASSUME IInv, TickLocaltime PROVE IInv'
  OBVIOUS
<1> USE DEF IInv
<1>1. TypeOK'
  BY LocaltimeReads DEF TypeOK, TickLocaltime
<1>2. ClockInv'
  BY LocaltimeReads DEF ClockInv, TickLocaltime
<1>3. CheckInv'
  <2>1. at = "start" /\ at' = "copy" /\ UNCHANGED <<ticks, skipped, checked, disturbed, phase>>
    BY DEF TickLocaltime
  <2>2. \A t \in Nat : Done(t)' <=> Done(t)
    BY <2>1 DEF Done
  <2>3. \A s \in Second : /\ Count(s)' = Count(s)
                          /\ s > 0 => Count(s - 1)' = Count(s - 1)
    BY <2>2 DEF Count, Second
  <2>4. QED
    BY <2>1, <2>2, <2>3 DEF CheckInv, Second
<1>4. QED
  BY <1>1, <1>2, <1>3

\* The check of a tick counts for the second it read.
LEMMA CheckStep == IInv /\ TickCheck => IInv'
<1> SUFFICES ASSUME IInv, TickCheck PROVE IInv'
  OBVIOUS
<1> USE DEF IInv
<1>1. /\ ticks \in 1..MaxSeconds /\ at = "copy" /\ at' = "idle"
      /\ ticks \notin skipped /\ buffer \in Second
      /\ checked' = [checked EXCEPT ![buffer] = @ + 1]
      /\ UNCHANGED <<phase, now, next, ticks, skipped, disturbed, isReload, buffer>>
  BY DEF TickCheck, TypeOK, ClockInv, CheckInv, Second
<1>2. checked \in [Second -> Nat] /\ checked[buffer] < ticks
  BY <1>1 DEF CheckInv, TypeOK
<1>3. TypeOK'
  <2>1. checked' \in [Second -> 0..2 * MaxSeconds]
    BY <1>1, <1>2 DEF TypeOK
  <2>2. QED
    BY <1>1, <2>1 DEF TypeOK
<1>4. ClockInv'
  BY <1>1 DEF ClockInv
<1>5. \A s \in Second : checked'[s] = IF s = buffer THEN checked[s] + 1 ELSE checked[s]
  BY <1>1, <1>2
<1>6. \A t \in Nat : Done(t)' <=> Done(t) \/ t = ticks
  BY <1>1 DEF Done
<1>7. \A t \in Nat : Count(t)' = (IF t = ticks THEN 1 ELSE Count(t)) /\ Count(ticks) = 0
  BY <1>1, <1>6 DEF Count, Done
<1>8. CheckInv'
  <2>1. \A s \in Second : checked'[s] <= ticks
    BY <1>1, <1>2, <1>5 DEF CheckInv
  <2>2. ASSUME ~disturbed, NEW s \in Second
        PROVE  /\ checked'[s] <= Count(s)' + (IF s > 0 THEN Count(s - 1)' ELSE 0)
               /\ s < MaxSeconds /\ Done(s)' => checked'[s] + checked'[s + 1] >= 1
               /\ phase + MaxDelay < Units => checked'[s] = Count(s)'
    <3>1. /\ buffer \in {ticks, ticks + 1}
          /\ phase + MaxDelay < Units => buffer = ticks
      BY <1>1, <2>2 DEF ClockInv
    <3>2. /\ checked[s] <= Count(s) + (IF s > 0 THEN Count(s - 1) ELSE 0)
          /\ s < MaxSeconds /\ Done(s) => checked[s] + checked[s + 1] >= 1
          /\ phase + MaxDelay < Units => checked[s] = Count(s)
      BY <2>2 DEF CheckInv
    <3>3. /\ s \in Nat /\ checked[s] \in Nat /\ Count(s) \in {0, 1}
          /\ s > 0 => s - 1 \in Nat /\ Count(s - 1) \in {0, 1}
          /\ s < MaxSeconds => s + 1 \in Second /\ checked[s + 1] \in Nat
      BY <1>2 DEF Second, Count
    <3>4. checked'[s] <= Count(s)' + (IF s > 0 THEN Count(s - 1)' ELSE 0)
      BY <1>1, <1>5, <1>7, <3>1, <3>2, <3>3
    <3>5. s < MaxSeconds /\ Done(s)' => checked'[s] + checked'[s + 1] >= 1
      BY <1>1, <1>5, <1>6, <3>1, <3>2, <3>3
    <3>6. phase + MaxDelay < Units => checked'[s] = Count(s)'
      BY <1>1, <1>5, <1>7, <3>1, <3>2, <3>3
    <3>7. QED
      BY <3>4, <3>5, <3>6
  <2>3. skipped' \subseteq 1..ticks'
    BY <1>1 DEF CheckInv
  <2>4. QED
    BY <1>1, <2>1, <2>2, <2>3 DEF CheckInv
<1>9. QED
  BY <1>3, <1>4, <1>8

\* Another thread that writes the buffer is noticed.
LEMMA OtherStep == \A s \in Second : IInv /\ OtherLocaltime(s) => IInv'
<1> SUFFICES ASSUME NEW s \in Second, IInv, OtherLocaltime(s) PROVE IInv'
  OBVIOUS
<1> USE DEF IInv
<1>1. TypeOK'
  BY DEF TypeOK, OtherLocaltime
<1>2. ClockInv'
  BY DEF ClockInv, OtherLocaltime
<1>3. CheckInv'
  <2>1. /\ UNCHANGED <<ticks, skipped, checked, phase, at>>
        /\ disturbed => disturbed'
    BY DEF OtherLocaltime
  <2>2. QED
    BY <2>1 DEF CheckInv, Count, Done
<1>4. QED
  BY <1>1, <1>2, <1>3

LEMMA ReloadStep == IInv /\ Reload => IInv'
<1> SUFFICES ASSUME IInv, Reload PROVE IInv'
  OBVIOUS
<1>1. TypeOK'
  BY DEF IInv, TypeOK, Reload
<1>2. ClockInv' /\ CheckInv'
  BY DEF IInv, ClockInv, CheckInv, Count, Done, Reload
<1>3. QED
  BY <1>1, <1>2 DEF IInv

-----------------------------------------------------------------------------
\* The inductive invariant holds in every state.
THEOREM Invariance == Spec => []IInv
<1>1. IInv /\ [Next]_vars => IInv'
  <2>1. CASE UNCHANGED vars
    BY <2>1 DEF vars, IInv, TypeOK, ClockInv, CheckInv, Count, Done
  <2>2. QED
    BY <2>1, AdvanceStep, ExpireStep, SkipStep, LocaltimeStep, CheckStep, OtherStep,
       ReloadStep DEF Next
<1>2. QED
  BY InitIInv, <1>1, PTL DEF Spec

\* The variables have their types, and the timer (main.cpp:82) never expires in
\* the past or more than two seconds ahead.
THEOREM TypeCorrect == Spec => []TypeOK
BY Invariance, PTL DEF IInv

\* A second that is over is one whose tick has been handled.
LEMMA OverIsDone ==
  ASSUME IInv, NEW s \in Second, s > 0, s \notin skipped, Over(s)
  PROVE  Done(s)
<1>1. /\ ticks \in Nat /\ now \in Nat /\ phase \in Nat /\ s \in Nat /\ next \in Nat
      /\ next = phase + (ticks + 1) * Units /\ now <= next
      /\ at # "idle" => now + Units <= next + MaxDelay
      /\ s * Units + phase + MaxDelay < now
  BY DEF IInv, TypeOK, ClockInv, Over, Second
<1>2. /\ (ticks + 1) * Units = ticks * Units + Units
      /\ ticks * Units \in Nat /\ s * Units \in Nat
  BY <1>1, Monotonic
<1>3. ~ ticks + 1 <= s
  <2>1. ticks + 1 <= s => (ticks + 1) * Units <= s * Units
    BY <1>1, Monotonic
  <2>2. QED
    BY <1>1, <1>2, <2>1
<1>4. s = ticks => at = "idle"
  BY <1>1, <1>2
<1>5. QED
  BY <1>1, <1>3, <1>4 DEF Done

\* With a timer armed early enough in a second for its ticks to end in it,
\* every second is checked once, but for those of a reload and for a buffer
\* overwritten by another thread (main.cpp:62-84).
THEOREM CheckedOnce == Spec => []OncePerSecond
<1>1. IInv => OncePerSecond
  <2> SUFFICES ASSUME IInv, phase + MaxDelay < Units, ~disturbed, NEW s \in Second
               PROVE  /\ checked[s] <= 1
                      /\ s > 0 /\ s \notin skipped /\ Over(s) => checked[s] = 1
    BY DEF OncePerSecond
  <2>1. checked[s] = Count(s)
    BY DEF IInv, CheckInv
  <2>2. QED
    BY <2>1, OverIsDone DEF Count
<1>2. QED
  BY Invariance, <1>1, PTL

\* Whenever the timer was armed, of two seconds in a row one is checked, and
\* none more than twice (main.cpp:65, 79-84).
THEOREM NeverTwoInARow == Spec => []NeverTwoMissed
<1>1. IInv => NeverTwoMissed
  <2> SUFFICES ASSUME IInv, ~disturbed, NEW s \in Second
               PROVE  /\ checked[s] <= 2
                      /\ s > 0 /\ s < MaxSeconds /\ s \notin skipped /\ Over(s) =>
                           checked[s] + checked[s + 1] >= 1
    BY DEF NeverTwoMissed
  <2>1. /\ checked[s] <= Count(s) + (IF s > 0 THEN Count(s - 1) ELSE 0)
        /\ s < MaxSeconds /\ Done(s) => checked[s] + checked[s + 1] >= 1
        /\ checked[s] \in Nat
    BY DEF IInv, CheckInv, TypeOK
  <2>2. QED
    BY <2>1, OverIsDone DEF Count
<1>2. QED
  BY Invariance, <1>1, PTL

=============================================================================
