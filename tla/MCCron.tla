-------------------------------- MODULE MCCron --------------------------------
(***************************************************************************)
(* Instances of Cron for TLC: expressions put together from items of every *)
(* form, and calls made at the edges of minutes, hours, days and years.    *)
(***************************************************************************)
EXTENDS Cron

Star(n) == [star |-> TRUE, from |-> 0, to |-> 0, step |-> n]
Range(a, b, n) == [star |-> FALSE, from |-> a, to |-> b, step |-> n]
One(a) == Range(a, a, 1)

Expression(s, mi, h, d, mo, w) ==
  [second |-> s, minute |-> mi, hour |-> h, day |-> d, month |-> mo,
   week |-> w]

All == {Star(1)}

\* Any second and minute fields, the others "*".
MCHourly ==
  { Expression(s, mi, All, All, All, All) :
      s \in {All, {One(0)}, {Range(10, 45, 7)}, {One(58), One(59)}},
      mi \in {All, {One(0)}, {One(0), One(59)}, {Star(20)}, {Range(30, 70, 13)}} }

\* One restricted field after another: hours, days, months, weekdays; fields
\* that are clipped to nothing.
MCOther ==
  { Expression({One(0)}, {One(0), One(30)}, h, d, mo, w) :
      h \in {All, {One(8)}, {One(0), One(12)}},
      d \in {All, {One(1), One(31)}, {Range(0, 20, 5)}},
      mo \in {All, {One(2)}, {One(6), One(12)}},
      w \in {All, {One(1)}, {Range(5, 7, 1)}, {One(7)}} }

\* "*/0", alone and beside a field without a value.
MCEndless ==
  { Expression({One(0)}, {Star(0)}, h, All, All, All) : h \in {All, {One(24)}} }

MCExpressions == MCHourly \cup MCOther \cup MCEndless

\* Expressions that are checked against what the documentation says.
MCDaily == { Expression({One(0)}, {One(0)}, {One(8)}, All, All, All) }
MCLast == { Expression({One(0)}, {One(59)}, All, All, All, All) }

At(day, h, m, s) == [day |-> day, sec |-> 3600 * h + 60 * m + s]

\* 2024-02-28, in a leap year; 2024-06-15; 2024-12-31.
MCStarts ==
  { At(d, h, m, s) : d \in {19781, 19889, 20088}, h \in {0, 10, 23},
                     m \in {0, 29, 59}, s \in {0, 20, 59} }

\* 2024-06-15 at 10:30:00 and at 10:59:00.
MCFewStarts == { At(19889, 10, 30, 0), At(19889, 10, 59, 0) }

=============================================================================
