--------------------------------- MODULE Cron ---------------------------------
(***************************************************************************)
(* class Cron (src/cron.cpp): what parse() makes of an expression, when    *)
(* checkRunTime() lets the scheduler start the task, and the search of     *)
(* getNextRunTime() for the time that the start notification announces.    *)
(*                                                                         *)
(* A field is the set of the bits of its mask.  The calculateNextRun...()  *)
(* functions call each other in tail position only: the state machine has  *)
(* one action per function, `level` is the function about to run and       *)
(* `time` is its argument.                                                 *)
(*                                                                         *)
(* Times are local times in a zone at a fixed offset from UTC (no daylight *)
(* saving).  The calendar is external: localtime(), and date.h, which maps *)
(* a year, month and day that is no date to a day number all the same.     *)
(***************************************************************************)
EXTENDS Integers

CONSTANTS
  Expressions,  \* parsed texts: the items of each of the six fields
  Starts,       \* the times getNextRunTime() is called at
  Offset,       \* minutes from UTC to local time
  FirstDay,     \* bound: the search is followed from this day ...
  LastDay       \* ... to this one

Field == {"second", "minute", "hour", "day", "month", "week"}

Low(f) == IF f \in {"day", "month"} THEN 1 ELSE 0

High(f) == [second |-> 59, minute |-> 59, hour |-> 23,
            day |-> 31, month |-> 12, week |-> 6][f]

DaySecond == {s \in Nat : s < 86400}

(***************************************************************************)
(* An item of a field: "*" and "?" (star), with a step or without; "a-b",  *)
(* with a step or without; a number is the range from it to itself.        *)
(***************************************************************************)
Item == [star : BOOLEAN, from : 0..99, to : 0..99, step : 0..99]

ASSUME ConstantsAssumption ==
  /\ Expressions \subseteq [Field -> SUBSET Item]
  /\ Starts \subseteq [day : FirstDay..LastDay, sec : DaySecond]
  /\ Offset \in Int /\ -720 <= Offset /\ Offset <= 840
  /\ FirstDay \in Int /\ LastDay \in Int

VARIABLES
  expr,   \* the expression of the task
  cron,   \* the six masks parse() made of it
  now,    \* the argument of getNextRunTime()
  time,   \* the time the search is at
  level   \* the function about to run, or how the call ended

vars == <<expr, cron, now, time, level>>

Level == {"parse", "invalid", "month", "day", "week", "hour", "minute",
          "second", "done"}

-----------------------------------------------------------------------------
(* The calendar.                                                           *)

Add(t, s) == LET x == t.sec + s IN
  [day |-> t.day + x \div 86400, sec |-> x % 86400]

Before(s, t) == s.day < t.day \/ (s.day = t.day /\ s.sec < t.sec)

Second(t) == t.sec % 60
Minute(t) == (t.sec \div 60) % 60
Hour(t) == t.sec \div 3600
Weekday(t) == (t.day + 4) % 7

\* date::year_month_day to sys_days: days since 1970-01-01, for any m and d
Days(y, m, d) ==
  LET yy  == IF m <= 2 THEN y - 1 ELSE y
      yoe == yy % 400
      doy == (153 * (IF m > 2 THEN m - 3 ELSE m + 9) + 2) \div 5 + d - 1
  IN (yy \div 400) * 146097 + yoe * 365 + yoe \div 4 - yoe \div 100 + doy
     - 719468

\* localtime(): the year, month and day of the day numbers that are followed,
\* by way of the day in an era of 400 years and the day and month in a year
\* that starts in March
DayOfEra(n) == (n + 719468) % 146097
YearOfEra(doe) == (doe - doe \div 1460 + doe \div 36524 - doe \div 146096) \div 365
DayOfYear(doe) == LET yoe == YearOfEra(doe) IN
  doe - (365 * yoe + yoe \div 4 - yoe \div 100)
MonthOfYear(doy) == (5 * doy + 2) \div 153

Date == [n \in FirstDay..(LastDay + 1) |->
  LET doe == DayOfEra(n)
      doy == DayOfYear(doe)
      mp  == MonthOfYear(doy)
      m   == IF mp < 10 THEN mp + 3 ELSE mp - 9
  IN [year  |-> YearOfEra(doe) + ((n + 719468) \div 146097) * 400
                + (IF m <= 2 THEN 1 ELSE 0),
      month |-> m,
      day   |-> doy - (153 * mp + 2) \div 5 + 1]]

\* The idiom `time = ymd; tm = getLocaltime(&time); time -= hours{tm.tm_hour}`:
\* UTC midnight of the day, less the hours that local clocks show then.
StartOfDay(n) == LET utc == Add([day |-> n, sec |-> 0], Offset * 60) IN
  Add(utc, - 3600 * Hour(utc))

-----------------------------------------------------------------------------
(* parse() and checkRunTime().                                             *)

Begin(f, i) == IF i.star \/ i.from < Low(f) THEN Low(f) ELSE i.from
\* Variant of End: `if (end > max) end = max` is missing.
EndUnclipped(f, i) == IF i.star THEN High(f) ELSE i.to

End(f, i) == IF i.star \/ i.to > High(f) THEN High(f) ELSE i.to

\* The loop `for (i = begin; i <= end; i += step)` does not end.
Endless(f, i) == i.step = 0 /\ Begin(f, i) <= End(f, i)

\* The values that loop inserts, for one item.
Values(f, i) ==
  {x \in Begin(f, i)..End(f, i) : (x - Begin(f, i)) % i.step = 0}

ParseItem(f, items) == UNION {Values(f, i) : i \in items}

CheckRunTime(c, t) ==
  LET date == Date[t.day] IN
  /\ Second(t) \in c.second /\ Minute(t) \in c.minute /\ Hour(t) \in c.hour
  /\ date.day \in c.day /\ date.month \in c.month /\ Weekday(t) \in c.week

NoCron == [f \in Field |-> {}]

Init ==
  /\ expr \in Expressions
  /\ cron = NoCron
  /\ now \in Starts
  /\ time = now
  /\ level = "parse"

Stops(f) == \A i \in expr[f] : ~Endless(f, i)

\* Every field has values: the Cron is made, and getNextRunTime() starts from
\* the next second.
Parse ==
  /\ level = "parse"
  /\ \A f \in Field : Stops(f) /\ ParseItem(f, expr[f]) # {}
  /\ cron' = [f \in Field |-> ParseItem(f, expr[f])]
  /\ time' = Add(now, 1)
  /\ level' = "month"
  /\ UNCHANGED <<expr, now>>

\* A field without a value throws.  The six arguments of the constructor are
\* evaluated in any order: another field may be one that does not end.
ParseFails ==
  /\ level = "parse"
  /\ \E f \in Field : Stops(f) /\ ParseItem(f, expr[f]) = {}
  /\ level' = "invalid"
  /\ UNCHANGED <<expr, cron, now, time>>

-----------------------------------------------------------------------------
(* getNextRunTime().                                                       *)

\* `field & (range << current)`: the ranges are 2^59 - 1 for seconds and
\* minutes, 2^23 - 1 for hours, and wide enough for days, months and weeks.
Width(f) == [second |-> 59, minute |-> 59, hour |-> 23,
             day |-> 32, month |-> 13, week |-> 7][f]

From(f, current) == cron[f] \cap (current..(current + Width(f) - 1))

\* The loop that looks for the lowest bit left: the field's next value.
Upcoming(f, current) ==
  CHOOSE x \in From(f, current) : \A y \in current..(x - 1) : y \notin cron[f]

\* Calls function l with time t.
Call(l, t) == level' = l /\ time' = t

Followed == FirstDay <= time.day /\ time.day <= LastDay

\* A later month keeps the day and the hour.
CalculateNextRunMonth ==
  LET date == Date[time.day]
      result == From("month", date.month)
      next == Upcoming("month", date.month)
  IN /\ level = "month"
     /\ IF result = {}
          THEN Call("month", StartOfDay(Days(date.year + 1, 1, 1)))
          ELSE Call(IF cron.week = 0..6 THEN "day" ELSE "week",
                    IF next = date.month THEN time
                    ELSE Add(StartOfDay(Days(date.year, next, date.day)),
                             3600 * Hour(time)))

\* date::month{12} + date::months{1} is January of the same year.
CalculateNextRunDay ==
  LET date == Date[time.day]
      result == From("day", date.day)
      next == Upcoming("day", date.day)
  IN /\ level = "day"
     /\ IF result = {}
          THEN Call("month",
                    StartOfDay(Days(date.year, (date.month % 12) + 1, 1)))
          ELSE Call("hour",
                    IF next = date.day THEN time
                    ELSE Add(StartOfDay(Days(date.year, date.month, next)),
                             3600 * Hour(time)))

CalculateNextRunWeek ==
  LET result == From("week", Weekday(time))
      next == Upcoming("week", Weekday(time))
  IN /\ level = "week"
     /\ IF result = {}
          THEN Call("month", [day |-> time.day + 7 - Weekday(time), sec |-> 0])
          ELSE Call("hour", [time EXCEPT !.day = @ + next - Weekday(time)])

\* date::month{tm_mon} counts from 0: the month before.
CalculateNextRunHour ==
  LET date == Date[time.day]
      result == From("hour", Hour(time))
      next == Upcoming("hour", Hour(time))
  IN /\ level = "hour"
     /\ IF result = {}
          THEN Call("day",
                    StartOfDay(Days(date.year, date.month - 1, date.day + 1)))
          ELSE Call("minute",
                    IF next = Hour(time) THEN time
                    ELSE [time EXCEPT !.sec = 3600 * next])

\* Variant of CalculateNextRunMinute: a later minute keeps the seconds.
MinuteKeepsSeconds ==
  LET result == From("minute", Minute(time))
      hour == [time EXCEPT !.sec = 3600 * Hour(time)]
  IN /\ level = "minute"
     /\ IF result = {}
          THEN Call("hour", Add(hour, 3600))
          ELSE Call("second", Add(hour, 60 * Upcoming("minute", Minute(time))
                                          + Second(time)))

\* Variant of CalculateNextRunMinute: the carry to the hour is lost.
MinuteCarryLost ==
  LET result == From("minute", Minute(time))
      next == Upcoming("minute", Minute(time))
      hour == [time EXCEPT !.sec = 3600 * Hour(time)]
  IN /\ level = "minute"
     /\ IF result = {}
          THEN Call("hour", time)
          ELSE Call("second",
                    IF next = Minute(time) THEN time ELSE Add(hour, 60 * next))

CalculateNextRunMinute ==
  LET result == From("minute", Minute(time))
      next == Upcoming("minute", Minute(time))
      hour == [time EXCEPT !.sec = 3600 * Hour(time)]
  IN /\ level = "minute"
     /\ IF result = {}
          THEN Call("hour", Add(hour, 3600))
          ELSE Call("second",
                    IF next = Minute(time) THEN time ELSE Add(hour, 60 * next))

\* Variant of CalculateNextRunSecond: the next minute is not checked.
SecondReturns ==
  LET result == From("second", Second(time))
      next == Upcoming("second", Second(time))
      minute == [time EXCEPT !.sec = @ - Second(time)]
  IN /\ level = "second"
     /\ Call("done", Add(minute, IF result = {} THEN 60 ELSE next))

CalculateNextRunSecond ==
  LET result == From("second", Second(time))
      minute == [time EXCEPT !.sec = @ - Second(time)]
  IN /\ level = "second"
     /\ IF result = {}
          THEN Call("minute", Add(minute, 60))
          ELSE Call("done", Add(minute, Upcoming("second", Second(time))))

Search ==
  /\ Followed
  /\ \/ CalculateNextRunMonth \/ CalculateNextRunDay \/ CalculateNextRunWeek
     \/ CalculateNextRunHour \/ CalculateNextRunMinute \/ CalculateNextRunSecond
  /\ UNCHANGED <<expr, cron, now>>

\* The call is over, is stuck in parseItem(), or has left the days followed.
Stop ==
  /\ \/ level \in {"done", "invalid"}
     \/ level = "parse" /\ \E f \in Field : ~Stops(f)
     \/ ~Followed
  /\ UNCHANGED vars

Next == Parse \/ ParseFails \/ Search \/ Stop

Spec == Init /\ [][Next]_vars

\* Sequential code: the thread that runs it goes on.
FairSpec == Spec /\ WF_vars(Parse \/ ParseFails \/ Search)

-----------------------------------------------------------------------------
(* Properties.                                                             *)

TypeOK ==
  /\ expr \in [Field -> SUBSET Item]
  /\ \A f \in Field : cron[f] \subseteq Low(f)..High(f)
  /\ now \in Starts
  /\ time \in [day : Int, sec : DaySecond]
  /\ level \in Level

\* Restricted to seconds and minutes, with a value below 59 in both.
Hourly ==
  /\ \A f \in {"hour", "day", "month", "week"} : cron[f] = Low(f)..High(f)
  /\ \A f \in {"second", "minute"} : \E x \in cron[f] : x < 59

\* The time announced for any expression is one at whose minute and second
\* the scheduler starts tasks of it.
NextMatchesClock ==
  level = "done" => Minute(time) \in cron.minute /\ Second(time) \in cron.second

\* The seconds from 1970-01-01 to t
Instant(t) == 86400 * t.day + t.sec

\* In seconds
WithinHour == {x \in Int : 1 <= x /\ x <= 3600}

\* The first second after now at which checkRunTime() lets the task start is
\* wait seconds away, within the hour.
FirstRun(wait) ==
  /\ wait \in WithinHour
  /\ \A x \in 1..wait : CheckRunTime(cron, Add(now, x)) <=> x = wait

(***************************************************************************)
(* For an hourly expression the time announced is the one the scheduler    *)
(* acts on: after now, accepted by checkRunTime(), and no earlier one is.  *)
(***************************************************************************)
NextIsEarliest ==
  level = "done" /\ Hourly => FirstRun(Instant(time) - Instant(now))

\* The search for an hourly expression ends.
HourlyEnds == level = "month" /\ Hourly ~> level = "done"

\* cron.hpp:80, README.md:188: it is the next run, so it is not in the past.
NextIsLater == level = "done" => Before(now, time)

\* getNextRunTime() returns for every expression parse() accepts.
NextIsFound == level = "month" ~> level = "done"

=============================================================================
