------------------------------- MODULE Scheduler -------------------------------
(***************************************************************************)
(* The clock of the service: the interval timer that main() arms           *)
(* (src/main.cpp) and the second of local time that each tick reads        *)
(* (src/src/util.cpp) and compares with the tasks' expressions.            *)
(*                                                                         *)
(* Time passes in 1/Units of a second.  localtime() returns a pointer into *)
(* one static buffer; the tick copies it under timeMutex, but the threads  *)
(* of runs call localtime() without the mutex.  A broken-down time stands  *)
(* for its second, counted from the one the service started in.            *)
(***************************************************************************)
EXTENDS Naturals

CONSTANTS
  Units,       \* bound: the resolution of time
  MaxDelay,    \* bound: from the expiry of the timer to the end of the tick
  MaxSeconds   \* bound: time

ASSUME ClockAssumption ==
  /\ Units \in Nat \ {0} /\ MaxSeconds \in Nat \ {0}
  /\ MaxDelay \in Nat /\ MaxDelay < Units

Second == 0..MaxSeconds

VARIABLES
  phase,      \* when, within a second, the timer was armed
  now,
  next,       \* when the timer expires next
  ticks,      \* history: its expirations
  at,         \* where the tick is
  buffer,     \* localtime()'s
  isReload,
  checked,    \* per second, how many ticks checked the tasks for it
  skipped,    \* history: the ticks that met a reload
  disturbed   \* history: the buffer was overwritten before a tick copied it

vars == <<phase, now, next, ticks, at, buffer, isReload, checked, skipped, disturbed>>

Init ==
  /\ phase \in 0..(Units - 1)
  /\ now = phase /\ next = phase + Units
  /\ ticks = 0
  /\ at = "idle"
  /\ buffer = 0
  /\ isReload = FALSE
  /\ checked = [s \in Second |-> 0]
  /\ skipped = {}
  /\ disturbed = FALSE

\* A tick that expired is handled within MaxDelay.
Advance ==
  /\ now < MaxSeconds * Units /\ now < next
  /\ at # "idle" => now + Units < next + MaxDelay
  /\ now' = now + 1
  /\ UNCHANGED <<phase, next, ticks, at, buffer, isReload, checked, skipped, disturbed>>

\* Variant of Expire: it_interval is two seconds.
ExpireEveryOther ==
  /\ now = next /\ next' = now + 2 * Units
  /\ ticks' = ticks + 1 /\ at' = "start"
  /\ UNCHANGED <<phase, now, buffer, isReload, checked, skipped, disturbed>>

Expire ==
  /\ now = next /\ next' = now + Units
  /\ ticks' = ticks + 1 /\ at' = "start"
  /\ UNCHANGED <<phase, now, buffer, isReload, checked, skipped, disturbed>>

TickSkip ==
  /\ at = "start" /\ isReload
  /\ at' = "idle"
  /\ skipped' = skipped \cup {ticks}
  /\ UNCHANGED <<phase, now, next, ticks, buffer, isReload, checked, disturbed>>

\* Variant of TickLocaltime: the time is not broken down.
TickTime ==
  /\ at = "start" /\ ~isReload
  /\ at' = "copy"
  /\ buffer' = now
  /\ UNCHANGED <<phase, now, next, ticks, isReload, checked, skipped, disturbed>>

\* time(0) and localtime() ...
TickLocaltime ==
  /\ at = "start" /\ ~isReload
  /\ at' = "copy"
  /\ buffer' = now \div Units
  /\ UNCHANGED <<phase, now, next, ticks, isReload, checked, skipped, disturbed>>

\* Variant of TickCheck: the timer fires once, and the tick arms it again.
TickRearm ==
  /\ at = "copy"
  /\ at' = "idle" /\ next' = now + Units
  /\ checked' = [checked EXCEPT ![buffer] = @ + 1]
  /\ UNCHANGED <<phase, now, ticks, buffer, isReload, skipped, disturbed>>

\* ... and the copy of the buffer, with which checkRunTime() is called.
TickCheck ==
  /\ at = "copy"
  /\ at' = "idle"
  /\ checked' = [checked EXCEPT ![buffer] = @ + 1]
  /\ UNCHANGED <<phase, now, next, ticks, buffer, isReload, skipped, disturbed>>

\* A run's thread, or a notification's, breaks down some time of its own.
OtherLocaltime(s) ==
  /\ buffer' = s
  /\ disturbed' = (disturbed \/ (at = "copy" /\ buffer # s))
  /\ UNCHANGED <<phase, now, next, ticks, at, isReload, checked, skipped>>

\* The reload handler sets isReload, and resets it; a tick may come in between.
Reload ==
  /\ isReload' = ~isReload
  /\ UNCHANGED <<phase, now, next, ticks, at, buffer, checked, skipped, disturbed>>

Next ==
  \/ Advance \/ Expire \/ TickSkip \/ TickLocaltime \/ TickCheck \/ Reload
  \/ \E s \in Second : OtherLocaltime(s)

Spec == Init /\ [][Next]_vars

-----------------------------------------------------------------------------
(* Properties.                                                             *)

\* The values of the variables; the buffer always holds a second that can be
\* checked.
TypeOK ==
  /\ phase \in 0..(Units - 1)
  /\ now \in 0..(MaxSeconds * Units) /\ next \in now..(now + 2 * Units)
  /\ ticks \in Second
  /\ at \in {"idle", "start", "copy"}
  /\ buffer \in Second
  /\ checked \in [Second -> 0..2 * MaxSeconds]
  /\ skipped \subseteq 1..MaxSeconds
  /\ {isReload, disturbed} \subseteq BOOLEAN

\* The tick of second s is over.
Over(s) == s * Units + phase + MaxDelay < now

(***************************************************************************)
(* With a timer armed early enough in a second for its ticks to end in the *)
(* one they began in, every second is checked once, but for those of a     *)
(* reload (main.cpp:62-84): no expression that matches it is missed, none  *)
(* is run twice.                                                           *)
(***************************************************************************)
OncePerSecond ==
  phase + MaxDelay < Units /\ ~disturbed =>
    \A s \in Second : /\ checked[s] <= 1
                      /\ s > 0 /\ s \notin skipped /\ Over(s) => checked[s] = 1

\* Whenever it was armed, a delayed tick loses a second to the next one, and no
\* more: of two seconds in a row one is checked, and none more than twice
\* (main.cpp:65, 79-84).
NeverTwoMissed ==
  ~disturbed =>
    \A s \in Second :
      /\ checked[s] <= 2
      /\ s > 0 /\ s < MaxSeconds /\ s \notin skipped /\ Over(s) =>
           checked[s] + checked[s + 1] >= 1

-----------------------------------------------------------------------------
(* The inductive invariant behind them.                                    *)

\* The timer expires every second from when it was armed, and a tick is over
\* before the next one; it breaks down the second it was due in, or the next.
ClockInv ==
  /\ next = phase + (ticks + 1) * Units
  /\ now <= next /\ next <= now + Units
  /\ at # "idle" => ticks >= 1 /\ now + Units <= next + MaxDelay
  /\ at = "copy" /\ ~disturbed =>
       /\ buffer \in {ticks, ticks + 1}
       /\ phase + MaxDelay < Units => buffer = ticks

\* Tick t has checked the tasks.
Done(t) == t \in (1..ticks) \ skipped /\ (t = ticks => at = "idle")

Count(t) == IF Done(t) THEN 1 ELSE 0

\* A second is checked by its own tick, or by the one before.
CheckInv ==
  /\ skipped \subseteq 1..ticks
  /\ at # "idle" => ticks \notin skipped
  /\ \A s \in Second : checked[s] <= ticks /\ (at # "idle" => checked[s] < ticks)
  /\ ~disturbed => \A s \in Second :
       /\ checked[s] <= Count(s) + (IF s > 0 THEN Count(s - 1) ELSE 0)
       /\ s < MaxSeconds /\ Done(s) => checked[s] + checked[s + 1] >= 1
       /\ phase + MaxDelay < Units => checked[s] = Count(s)

IInv == TypeOK /\ ClockInv /\ CheckInv

=============================================================================
