------------------------------ MODULE CronProofs ------------------------------
(***************************************************************************)
(* Proofs about Cron, for any expressions, any times at which it is asked  *)
(* and any offset of the zone.                                             *)
(***************************************************************************)
EXTENDS Cron, WellFoundedInduction, TLAPS

USE ConstantsAssumption

Below == {ss \in Nat \X Nat : ss[1] < ss[2]}

LEMMA BelowWellFounded == IsWellFoundedOn(Below, Nat)
BY NatLessThanWellFounded, Zenon DEF OpToRel, Below

\* A set of numbers that is not empty has a least one.
LEMMA Least ==
  ASSUME NEW T, T \subseteq Nat, T # {}
  PROVE  \E x \in T : \A y \in T : x <= y
<1>1. PICK x \in T : \A y \in T : ~ (<<y, x>> \in Below)
  BY BelowWellFounded, WFMin, Zenon
<1>2. \A y \in T : ~ y < x
  BY <1>1 DEF Below
<1>3. QED
  BY <1>1, <1>2

\* The loop over the bits finds the lowest one that is left in the range.
LEMMA UpcomingIsNext ==
  ASSUME NEW f \in Field, NEW current \in Int, cron[f] \subseteq Nat,
         From(f, current) # {}
  PROVE  /\ Upcoming(f, current) \in cron[f]
         /\ Upcoming(f, current) >= current
         /\ \A y \in current..(Upcoming(f, current) - 1) : y \notin cron[f]
<1>1. From(f, current) \subseteq cron[f] /\ From(f, current) \subseteq Nat
      /\ \A x \in From(f, current) : x >= current
  BY DEF From
<1>2. PICK x \in From(f, current) : \A y \in From(f, current) : x <= y
  BY <1>1, Least
<1>3. \A y \in current..(x - 1) : y \notin cron[f]
  BY <1>1, <1>2 DEF From, Width, Field
<1>4. /\ Upcoming(f, current) \in From(f, current)
      /\ \A y \in current..(Upcoming(f, current) - 1) : y \notin cron[f]
  BY <1>3 DEF Upcoming
<1>5. QED
  BY <1>1, <1>4

-----------------------------------------------------------------------------
(* The calendar: months and days of the month are what they should be.     *)

\* q is n / d, rounded down.
Floor(q, n, d) == q \in Int /\ d * q <= n /\ n < d * q + d

LEMMA DivFloor ==
  ASSUME NEW n \in Int, NEW d \in Nat, d > 0
  PROVE  Floor(n \div d, n, d)
BY DEF Floor

\* The quotients in Date: of the day A of an era of 400 years, its year y.
Quotients(A, a, b, c, y, q, e) ==
  /\ Floor(a, A, 1460) /\ Floor(b, A, 36524) /\ Floor(c, A, 146096)
  /\ Floor(y, A - a + b - c, 365) /\ Floor(q, y, 4) /\ Floor(e, y, 100)

\* A day of an era, a year of an era, and a day of a year, each from 0
IsEraDay(x) == x \in Int /\ 0 <= x /\ x <= 146096
IsEraYear(x) == x \in Int /\ 0 <= x /\ x <= 399
IsYearDay(x) == x \in Int /\ 0 <= x /\ x <= 365

\* The day of its year that day A of an era is
DayLeft(A, y, q, e) == A - (365 * y + q - e)

\* A day of an era is the 366th of its year, or one before it.
LEMMA DayLeftRange ==
  ASSUME NEW A, IsEraDay(A),
         NEW a, NEW b, NEW c, NEW y, NEW q, NEW e, Quotients(A, a, b, c, y, q, e)
  PROVE  IsYearDay(DayLeft(A, y, q, e)) /\ IsEraYear(y)
<1> USE DEF Floor, Quotients, DayLeft, IsEraDay, IsEraYear, IsYearDay
<1>1. CASE A = 146096
  BY <1>1, SMTT(30)
<1>2. CASE A < 146096
  <2>1. /\ b >= 0 /\ b <= 3 /\ c = 0
        /\ a \in Int /\ b \in Int /\ y \in Int /\ q \in Int /\ e \in Int
    BY <1>2, SMTT(30)
  <2>2. IsEraYear(y)
    BY <1>2, <2>1, SMTT(30)
  <2>3. e = b
    BY <1>2, <2>1, SMTT(30)
  <2>4. a - q >= 0 /\ a - q <= 1
    BY <1>2, <2>1, <2>3, SMTT(60)
  <2>5. QED
    BY <1>2, <2>1, <2>2, <2>3, <2>4, SMTT(30)
<1>3. QED
  BY <1>1, <1>2, SMT

\* The year in its era, and the day in its year
LEMMA YearAndDay ==
  ASSUME NEW A, IsEraDay(A)
  PROVE  IsEraYear(YearOfEra(A)) /\ IsYearDay(DayOfYear(A))
<1>1. A \in Int /\ 0 <= A /\ A <= 146096
  BY SMT DEF IsEraDay
<1>2. PICK a, b, c : a = A \div 1460 /\ b = A \div 36524 /\ c = A \div 146096
  BY SMT
<1>3. PICK y : y = (A - a + b - c) \div 365
  BY SMT
<1>4. PICK q, e : q = y \div 4 /\ e = y \div 100
  BY SMT
<1>5. /\ Floor(a, A, 1460) /\ Floor(b, A, 36524) /\ Floor(c, A, 146096)
      /\ A - a + b - c \in Int
  BY <1>1, <1>2, DivFloor, SMT DEF Floor
<1>6. Floor(y, A - a + b - c, 365) /\ y \in Int
  BY <1>3, <1>5, DivFloor, SMT DEF Floor
<1>7. Floor(q, y, 4) /\ Floor(e, y, 100)
  BY <1>4, <1>6, DivFloor, SMT
<1>8. Quotients(A, a, b, c, y, q, e)
  BY <1>5, <1>6, <1>7, SMT DEF Quotients
<1>9. IsYearDay(DayLeft(A, y, q, e)) /\ IsEraYear(y)
  BY <1>8, DayLeftRange, SMT
<1>10. YearOfEra(A) = y
  BY <1>2, <1>3, SMT DEF YearOfEra
<1>11. DayOfYear(A) = DayLeft(A, y, q, e)
  BY <1>4, <1>10, SMT DEF DayOfYear, DayLeft
<1>12. QED
  BY <1>9, <1>10, <1>11, SMT

\* What the date of day n is made of
Era(n) == (n + 719468) \div 146097
Year(n) == YearOfEra(DayOfEra(n))
YearDay(n) == DayOfYear(DayOfEra(n))
Month(n) == MonthOfYear(YearDay(n))
MonthDay(doy) == doy - (153 * MonthOfYear(doy) + 2) \div 5 + 1

\* The month from March, and the day in it
LEMMA MonthAndDay ==
  ASSUME NEW doy, IsYearDay(doy)
  PROVE  MonthOfYear(doy) \in 0..11 /\ MonthDay(doy) \in 1..31
BY SMT DEF MonthOfYear, MonthDay, IsYearDay

LEMMA EraParts ==
  ASSUME NEW n \in Int
  PROVE  Era(n) \in Int /\ IsEraDay(DayOfEra(n))
BY SMT DEF DayOfEra, Era, IsEraDay

LEMMA DatePartsRange ==
  ASSUME NEW n \in Int
  PROVE  /\ IsEraYear(Year(n)) /\ IsYearDay(YearDay(n)) /\ Month(n) \in 0..11
         /\ MonthDay(YearDay(n)) \in 1..31
<1>1. IsEraYear(Year(n)) /\ IsYearDay(YearDay(n))
  BY EraParts, YearAndDay, Zenon DEF Year, YearDay
<1>2. QED
  BY <1>1, MonthAndDay, Zenon DEF Month

LEMMA DateParts ==
  ASSUME NEW n \in FirstDay..(LastDay + 1)
  PROVE  /\ Date[n].month = IF Month(n) < 10 THEN Month(n) + 3 ELSE Month(n) - 9
         /\ Date[n].year = Year(n) + Era(n) * 400
                           + (IF Date[n].month <= 2 THEN 1 ELSE 0)
         /\ Date[n].day = MonthDay(YearDay(n))
BY SMT DEF Date, Year, YearDay, Month, MonthDay, Era

LEMMA DateRange ==
  ASSUME NEW n \in FirstDay..(LastDay + 1)
  PROVE  Date[n].month \in 1..12 /\ Date[n].day \in 1..31
<1>1. n \in Int
  BY ConstantsAssumption, SMT
<1>2. Date[n].month \in 1..12
  BY <1>1, DateParts, DatePartsRange, SMT
<1>3. Date[n].day \in 1..31
  BY <1>1, DateParts, DatePartsRange, SMT
<1>4. QED
  BY <1>2, <1>3

LEMMA DateInt ==
  ASSUME NEW n \in FirstDay..(LastDay + 1)
  PROVE  Date[n].year \in Int /\ Date[n].month \in Int /\ Date[n].day \in Int
<1>1. n \in Int
  BY ConstantsAssumption, SMT
<1>2. Date[n].year \in Int
  BY <1>1, DateParts, DatePartsRange, EraParts, SMT DEF IsEraYear
<1>3. QED
  BY <1>2, DateRange, SMT

(***************************************************************************)
(* The two conversions of the search agree: the day number that date.h     *)
(* makes of the year, month and day that localtime() shows for a day is    *)
(* that day, so that `time = ymd` (cron.cpp:177) moves nothing when it     *)
(* names the date it was read from, leap years and centuries included.     *)
(***************************************************************************)
THEOREM DaysInvertsDate ==
  ASSUME NEW n \in FirstDay..(LastDay + 1)
  PROVE  Days(Date[n].year, Date[n].month, Date[n].day) = n
<1>1. n \in Int
  BY ConstantsAssumption, SMT
<1>2. /\ IsEraYear(Year(n)) /\ IsYearDay(YearDay(n)) /\ Month(n) \in 0..11
      /\ Era(n) \in Int /\ IsEraDay(DayOfEra(n))
  BY <1>1, DatePartsRange, EraParts, Zenon
<1>3. PICK yoe, doy, doe, era, mp \in Int :
        /\ yoe = Year(n) /\ doy = YearDay(n) /\ doe = DayOfEra(n)
        /\ era = Era(n) /\ mp = Month(n)
  BY <1>2, SMT DEF IsEraYear, IsYearDay, IsEraDay
<1>4. PICK w, q, e \in Int : w = yoe + era * 400 /\ q = yoe \div 4 /\ e = yoe \div 100
  BY SMT
<1>5. PICK y, m, d \in Int : y = Date[n].year /\ m = Date[n].month /\ d = Date[n].day
  BY DateInt, SMT
<1>6. /\ m = IF mp < 10 THEN mp + 3 ELSE mp - 9
      /\ y = w + (IF m <= 2 THEN 1 ELSE 0)
      /\ d = MonthDay(doy)
  BY <1>3, <1>4, <1>5, DateParts, SMT
<1>7. (IF m > 2 THEN m - 3 ELSE m + 9) = mp /\ (IF m <= 2 THEN y - 1 ELSE y) = w
  BY <1>2, <1>3, <1>6, SMT
<1>8. w % 400 = yoe /\ w \div 400 = era
  BY <1>2, <1>3, <1>4, SMT DEF IsEraYear
<1>9. (153 * mp + 2) \div 5 + d - 1 = doy
  BY <1>3, <1>6, SMT DEF MonthDay, Month
<1>10. Days(y, m, d) = era * 146097 + yoe * 365 + q - e + doy - 719468
  <2>1. Days(y, m, d) = (w \div 400) * 146097 + (w % 400) * 365 + (w % 400) \div 4
          - (w % 400) \div 100 + ((153 * mp + 2) \div 5 + d - 1) - 719468
    BY <1>7, SMT DEF Days
  <2>2. Days(y, m, d) = era * 146097 + yoe * 365 + yoe \div 4
          - yoe \div 100 + doy - 719468
    BY <2>1, <1>8, <1>9, SMT
  <2>3. QED
    BY <2>2, <1>4, SMT
<1>11. yoe * 365 + q - e + doy = doe
  BY <1>3, <1>4, SMT DEF Year, YearDay, DayOfYear
<1>12. n + 719468 = 146097 * era + doe
  BY <1>1, <1>3, SMT DEF DayOfEra, Era
<1>13. Days(y, m, d) = n
  BY <1>1, <1>10, <1>11, <1>12, SMT
<1>14. QED
  BY <1>5, <1>13, Zenon

-----------------------------------------------------------------------------
(* Times.                                                                  *)

Time == [day : Int, sec : DaySecond]

LEMMA AddTime ==
  ASSUME NEW t, t.day \in Int, t.sec \in Int, NEW s \in Int
  PROVE  Add(t, s) \in Time
BY DEF Add, Time, DaySecond

LEMMA TimeParts ==
  ASSUME NEW t \in Time
  PROVE  /\ Second(t) \in 0..59 /\ Minute(t) \in 0..59 /\ Hour(t) \in 0..23
         /\ Weekday(t) \in 0..6
         /\ t.sec = 3600 * Hour(t) + 60 * Minute(t) + Second(t)
BY DEF Time, DaySecond, Second, Minute, Hour, Weekday

LEMMA DaysInt ==
  ASSUME NEW y \in Int, NEW m \in Int, NEW d \in Int
  PROVE  Days(y, m, d) \in Int
BY DEF Days

LEMMA StartOfDayTime ==
  ASSUME NEW n \in Int
  PROVE  StartOfDay(n) \in Time
<1>1. Add([day |-> n, sec |-> 0], Offset * 60) \in Time
  BY AddTime
<1>2. ASSUME NEW utc \in Time PROVE Add(utc, - 3600 * Hour(utc)) \in Time
  <2>1. Hour(utc) \in Int /\ - 3600 * Hour(utc) \in Int
    BY TimeParts
  <2>2. utc.day \in Int /\ utc.sec \in Int
    BY DEF Time, DaySecond
  <2>3. QED
    BY <2>1, <2>2, AddTime
<1>3. QED
  BY <1>1, <1>2 DEF StartOfDay

-----------------------------------------------------------------------------
\* The masks hold values of their fields only.
LEMMA ParsedValues ==
  ASSUME NEW f \in Field, NEW items \in SUBSET Item
  PROVE  ParseItem(f, items) \subseteq Low(f)..High(f)
<1>1. Low(f) \in Nat /\ High(f) \in Nat
  BY DEF Field, Low, High
<1>2. ASSUME NEW i \in Item PROVE Values(f, i) \subseteq Low(f)..High(f)
  <2>1. i.from \in Int /\ i.to \in Int
    BY DEF Item
  <2>2. Begin(f, i) \in Int /\ Begin(f, i) >= Low(f)
    BY <1>1, <2>1 DEF Begin
  <2>3. End(f, i) \in Int /\ End(f, i) <= High(f)
    BY <1>1, <2>1 DEF End
  <2>4. QED
    BY <1>1, <2>2, <2>3 DEF Values
<1>3. QED
  BY <1>2 DEF ParseItem

Masks == \A f \in Field : cron[f] \subseteq Low(f)..High(f)

\* What each function passes to the next: a time, whose minute is right when
\* the function for the seconds is called, and whose second is right at the end.
MatchInv ==
  /\ level = "second" => Minute(time) \in cron["minute"]
  /\ level = "done" => Minute(time) \in cron["minute"] /\ Second(time) \in cron["second"]

Typed ==
  /\ expr \in [Field -> SUBSET Item]
  /\ Masks
  /\ now \in Starts
  /\ time \in Time
  /\ level \in Level

LEMMA MaskFacts ==
  ASSUME Masks
  PROVE  /\ \A f \in Field : cron[f] \subseteq Nat
         /\ cron["second"] \subseteq 0..59 /\ cron["minute"] \subseteq 0..59
         /\ cron["hour"] \subseteq 0..23
<1>1. \A f \in Field : Low(f) \in Nat /\ High(f) \in Nat
  BY DEF Field, Low, High
<1>2. \A f \in Field : cron[f] \subseteq Nat
  BY <1>1 DEF Masks
<1>3. /\ "second" \in Field /\ Low("second") = 0 /\ High("second") = 59
      /\ "minute" \in Field /\ Low("minute") = 0 /\ High("minute") = 59
      /\ "hour" \in Field /\ Low("hour") = 0 /\ High("hour") = 23
  BY DEF Field, Low, High
<1>4. QED
  BY <1>2, <1>3 DEF Masks

LEMMA InitTyped == Init => Typed /\ MatchInv
<1> SUFFICES ASSUME Init PROVE Typed /\ MatchInv
  OBVIOUS
<1>1. time \in Time
  BY DEF Init, Time
<1>2. Masks
  BY DEF Init, NoCron, Masks
<1>3. QED
  BY <1>1, <1>2 DEF Init, Typed, MatchInv, Level

LEMMA ParseStep == Typed /\ Parse => Typed' /\ MatchInv'
<1> SUFFICES ASSUME Typed, Parse PROVE Typed' /\ MatchInv'
  OBVIOUS
<1>1. Masks'
  BY ParsedValues DEF Typed, Parse, Masks
<1>2. now.day \in Int /\ now.sec \in Int
  BY DEF Typed, DaySecond
<1>3. time' \in Time
  BY <1>2, AddTime DEF Parse
<1>4. QED
  BY <1>1, <1>3 DEF Parse, Typed, MatchInv, Level

-----------------------------------------------------------------------------
(* The search: each function is called with a time, and calls with one.    *)

\* What a function may hand on, whichever it calls.
LEMMA Called ==
  ASSUME Typed, UNCHANGED <<expr, cron, now>>, time' \in Time, level' \in Level,
         level' \notin {"second", "done"}
  PROVE  Typed' /\ MatchInv'
BY DEF Typed, MatchInv, Masks

LEMMA DateOfTime ==
  ASSUME Typed, Followed
  PROVE  /\ Date[time.day].year \in Int /\ Date[time.day].month \in Int
         /\ Date[time.day].day \in Int
<1>1. time.day \in Int
  BY DEF Typed, Time
<1>2. time.day \in FirstDay..(LastDay + 1)
  BY <1>1 DEF Followed
<1>3. QED
  BY <1>2, DateInt

\* The start of any date ...
LEMMA AtStart ==
  ASSUME NEW y \in Int, NEW m \in Int, NEW d \in Int
  PROVE  StartOfDay(Days(y, m, d)) \in Time
BY DaysInt, StartOfDayTime

\* ... and the same day at the hour of any time.
LEMMA AtHour ==
  ASSUME NEW y \in Int, NEW m \in Int, NEW d \in Int, NEW t \in Time
  PROVE  Add(StartOfDay(Days(y, m, d)), 3600 * Hour(t)) \in Time
<1>1. StartOfDay(Days(y, m, d)) \in Time
  BY AtStart
<1>2. 3600 * Hour(t) \in Int
  BY TimeParts
<1>3. ASSUME NEW u \in Time PROVE Add(u, 3600 * Hour(t)) \in Time
  BY <1>2, AddTime DEF Time, DaySecond
<1>4. QED
  BY <1>1, <1>3

LEMMA NextInt ==
  ASSUME Masks, NEW f \in Field, NEW current \in Int, From(f, current) # {}
  PROVE  /\ Upcoming(f, current) \in cron[f] /\ Upcoming(f, current) \in Int
         /\ Upcoming(f, current) >= current
BY MaskFacts, UpcomingIsNext

LEMMA MonthStep ==
  ASSUME Typed, Followed, UNCHANGED <<expr, cron, now>>, CalculateNextRunMonth
  PROVE  Typed' /\ MatchInv'
<1> DEFINE date == Date[time.day]
           next == Upcoming("month", date.month)
<1>1. date.year \in Int /\ date.month \in Int /\ date.day \in Int
  BY DateOfTime
<1>2. time \in Time /\ Masks
  BY DEF Typed
<1>3. CASE From("month", date.month) = {}
  <2>1. StartOfDay(Days(date.year + 1, 1, 1)) \in Time
    BY <1>1, AtStart
  <2>2. level' = "month" /\ time' = StartOfDay(Days(date.year + 1, 1, 1))
    BY <1>3 DEF CalculateNextRunMonth, Call
  <2>3. QED
    BY <2>1, <2>2, Called DEF Level
<1>4. CASE From("month", date.month) # {}
  <2>1. next \in Int
    BY <1>1, <1>2, <1>4, NextInt DEF Field
  <2>2. Add(StartOfDay(Days(date.year, next, date.day)), 3600 * Hour(time)) \in Time
    BY <1>1, <1>2, <2>1, AtHour
  <2>3. /\ level' \in {"day", "week"}
        /\ time' \in {time, Add(StartOfDay(Days(date.year, next, date.day)),
                                3600 * Hour(time))}
    BY <1>4 DEF CalculateNextRunMonth, Call
  <2>4. time' \in Time
    BY <1>2, <2>2, <2>3
  <2>5. QED
    BY <2>3, <2>4, Called DEF Level
<1>5. QED
  BY <1>3, <1>4

LEMMA DayStep ==
  ASSUME Typed, Followed, UNCHANGED <<expr, cron, now>>, CalculateNextRunDay
  PROVE  Typed' /\ MatchInv'
<1> DEFINE date == Date[time.day]
           next == Upcoming("day", date.day)
<1>1. date.year \in Int /\ date.month \in Int /\ date.day \in Int
      /\ (date.month % 12) + 1 \in Int
  BY DateOfTime
<1>2. time \in Time /\ Masks
  BY DEF Typed
<1>3. CASE From("day", date.day) = {}
  <2>1. StartOfDay(Days(date.year, (date.month % 12) + 1, 1)) \in Time
    BY <1>1, AtStart
  <2>2. /\ level' = "month"
        /\ time' = StartOfDay(Days(date.year, (date.month % 12) + 1, 1))
    BY <1>3 DEF CalculateNextRunDay, Call
  <2>3. QED
    BY <2>1, <2>2, Called DEF Level
<1>4. CASE From("day", date.day) # {}
  <2>1. next \in Int
    BY <1>1, <1>2, <1>4, NextInt DEF Field
  <2>2. Add(StartOfDay(Days(date.year, date.month, next)), 3600 * Hour(time)) \in Time
    BY <1>1, <1>2, <2>1, AtHour
  <2>3. /\ level' = "hour"
        /\ time' \in {time, Add(StartOfDay(Days(date.year, date.month, next)),
                                3600 * Hour(time))}
    BY <1>4 DEF CalculateNextRunDay, Call
  <2>4. time' \in Time
    BY <1>2, <2>2, <2>3
  <2>5. QED
    BY <2>3, <2>4, Called DEF Level
<1>5. QED
  BY <1>3, <1>4

LEMMA WeekStep ==
  ASSUME Typed, Followed, UNCHANGED <<expr, cron, now>>, CalculateNextRunWeek
  PROVE  Typed' /\ MatchInv'
<1> DEFINE next == Upcoming("week", Weekday(time))
<1>1. time \in Time /\ Masks /\ time.day \in Int /\ Weekday(time) \in Int
  BY TimeParts DEF Typed, Time
<1>2. CASE From("week", Weekday(time)) = {}
  <2>1. /\ level' = "month"
        /\ time' = [day |-> time.day + 7 - Weekday(time), sec |-> 0]
    BY <1>2 DEF CalculateNextRunWeek, Call
  <2>2. time' \in Time
    BY <1>1, <2>1 DEF Time, DaySecond
  <2>3. QED
    BY <2>1, <2>2, Called DEF Level
<1>3. CASE From("week", Weekday(time)) # {}
  <2>1. next \in Int
    BY <1>1, <1>3, NextInt DEF Field
  <2>2. /\ level' = "hour"
        /\ time' = [time EXCEPT !.day = @ + next - Weekday(time)]
    BY <1>3 DEF CalculateNextRunWeek, Call
  <2>3. time' \in Time
    BY <1>1, <2>1, <2>2 DEF Time
  <2>4. QED
    BY <2>2, <2>3, Called DEF Level
<1>4. QED
  BY <1>2, <1>3

LEMMA HourStep ==
  ASSUME Typed, Followed, UNCHANGED <<expr, cron, now>>, CalculateNextRunHour
  PROVE  Typed' /\ MatchInv'
<1> DEFINE date == Date[time.day]
           next == Upcoming("hour", Hour(time))
<1>1. date.year \in Int /\ date.month - 1 \in Int /\ date.day + 1 \in Int
  BY DateOfTime
<1>2. time \in Time /\ Masks /\ Hour(time) \in Int /\ cron["hour"] \subseteq 0..23
  BY TimeParts, MaskFacts DEF Typed
<1>3. CASE From("hour", Hour(time)) = {}
  <2>1. StartOfDay(Days(date.year, date.month - 1, date.day + 1)) \in Time
    BY <1>1, AtStart
  <2>2. /\ level' = "day"
        /\ time' = StartOfDay(Days(date.year, date.month - 1, date.day + 1))
    BY <1>3 DEF CalculateNextRunHour, Call
  <2>3. QED
    BY <2>1, <2>2, Called DEF Level
<1>4. CASE From("hour", Hour(time)) # {}
  <2>1. next \in 0..23
    BY <1>2, <1>4, NextInt DEF Field
  <2>2. /\ level' = "minute"
        /\ time' \in {time, [time EXCEPT !.sec = 3600 * next]}
    BY <1>4 DEF CalculateNextRunHour, Call
  <2>3. [time EXCEPT !.sec = 3600 * next] \in Time
    BY <1>2, <2>1 DEF Time, DaySecond
  <2>4. time' \in Time
    BY <1>2, <2>2, <2>3
  <2>5. QED
    BY <2>2, <2>4, Called DEF Level
<1>5. QED
  BY <1>3, <1>4

LEMMA MinuteStep ==
  ASSUME Typed, UNCHANGED <<expr, cron, now>>, CalculateNextRunMinute
  PROVE  Typed' /\ MatchInv'
<1> DEFINE next == Upcoming("minute", Minute(time))
           hour == [time EXCEPT !.sec = 3600 * Hour(time)]
           later == Add(hour, 60 * next)
<1>1. /\ time \in Time /\ Masks /\ Minute(time) \in Int /\ Hour(time) \in 0..23
      /\ cron["minute"] \subseteq 0..59
  BY TimeParts, MaskFacts DEF Typed
<1>2. hour.day \in Int /\ hour.sec \in Int /\ hour.sec = 3600 * Hour(time)
  BY <1>1 DEF Time
<1>3. \/ /\ From("minute", Minute(time)) = {}
         /\ level' = "hour" /\ time' = Add(hour, 3600)
      \/ /\ From("minute", Minute(time)) # {}
         /\ level' = "second" /\ time' = IF next = Minute(time) THEN time ELSE later
  BY DEF CalculateNextRunMinute, Call
<1> HIDE DEF hour, later
<1>4. CASE From("minute", Minute(time)) = {}
  <2>1. Add(hour, 3600) \in Time
    BY <1>2, AddTime
  <2>2. QED
    BY <1>3, <1>4, <2>1, Called DEF Level
<1>5. CASE From("minute", Minute(time)) # {}
  <2>1. next \in cron["minute"] /\ next \in 0..59
    BY <1>1, <1>5, NextInt DEF Field
  <2> HIDE DEF next
  <2>2. 60 * next \in Int /\ 0 <= hour.sec + 60 * next
        /\ hour.sec + 60 * next < 86400
    BY <1>1, <1>2, <2>1
  <2>3. later \in Time
    BY <1>2, <2>2, AddTime DEF later
  <2>4. later.sec = 60 * (60 * Hour(time) + next)
    <3>1. later.sec = (hour.sec + 60 * next) % 86400
      BY DEF later, Add
    <3>2. QED
      BY <1>1, <1>2, <2>1, <2>2, <3>1
  <2>5. Minute(later) = next
    <3>1. later.sec \div 60 = 60 * Hour(time) + next
      BY <1>1, <2>1, <2>4
    <3>2. (60 * Hour(time) + next) % 60 = next
      BY <1>1, <2>1
    <3>3. QED
      BY <3>1, <3>2 DEF Minute
  <2>6. level' = "second" /\ time' \in Time /\ Minute(time') = next
    BY <1>1, <1>3, <1>5, <2>3, <2>5
  <2>7. Typed'
    BY <2>6 DEF Typed, Masks, Level
  <2>8. MatchInv'
    BY <2>1, <2>6 DEF MatchInv, Minute
  <2>9. QED
    BY <2>7, <2>8
<1>6. QED
  BY <1>4, <1>5

LEMMA SecondStep ==
  ASSUME Typed, MatchInv, UNCHANGED <<expr, cron, now>>, CalculateNextRunSecond
  PROVE  Typed' /\ MatchInv'
<1> DEFINE next == Upcoming("second", Second(time))
           minute == [time EXCEPT !.sec = @ - Second(time)]
           later == Add(minute, next)
<1>1. /\ time \in Time /\ Masks /\ Second(time) \in Int
      /\ Minute(time) \in 0..59 /\ Hour(time) \in 0..23
      /\ time.sec = 3600 * Hour(time) + 60 * Minute(time) + Second(time)
      /\ cron["second"] \subseteq 0..59
  BY TimeParts, MaskFacts DEF Typed
<1>2. /\ minute.day \in Int /\ minute.sec \in Int
      /\ minute.sec = 3600 * Hour(time) + 60 * Minute(time)
  BY <1>1 DEF Time, DaySecond
<1>3. level = "second" /\ Minute(time) \in cron["minute"]
  BY DEF CalculateNextRunSecond, MatchInv
<1>4. \/ /\ From("second", Second(time)) = {}
         /\ level' = "minute" /\ time' = Add(minute, 60)
      \/ /\ From("second", Second(time)) # {}
         /\ level' = "done" /\ time' = later
  BY DEF CalculateNextRunSecond, Call
<1> HIDE DEF minute, later
<1>5. CASE From("second", Second(time)) = {}
  <2>1. Add(minute, 60) \in Time
    BY <1>2, AddTime
  <2>2. QED
    BY <1>4, <1>5, <2>1, Called DEF Level
<1>6. CASE From("second", Second(time)) # {}
  <2>1. next \in cron["second"] /\ next \in 0..59
    BY <1>1, <1>6, NextInt DEF Field
  <2> HIDE DEF next
  <2>2. next \in Int /\ 0 <= minute.sec + next /\ minute.sec + next < 86400
    BY <1>1, <1>2, <2>1
  <2>3. later \in Time
    BY <1>2, <2>2, AddTime DEF later
  <2>4. later.sec = 60 * (60 * Hour(time) + Minute(time)) + next
    <3>1. later.sec = (minute.sec + next) % 86400
      BY DEF later, Add
    <3>2. (minute.sec + next) % 86400 = minute.sec + next
      BY <1>2, <2>2
    <3>3. minute.sec = 60 * (60 * Hour(time) + Minute(time))
      BY <1>1, <1>2
    <3>4. QED
      BY <3>1, <3>2, <3>3
  <2>5. Minute(later) = Minute(time) /\ Second(later) = next
    <3>1. /\ later.sec \div 60 = 60 * Hour(time) + Minute(time)
          /\ later.sec % 60 = next
      BY <1>1, <2>1, <2>4
    <3>2. (60 * Hour(time) + Minute(time)) % 60 = Minute(time)
      BY <1>1
    <3>3. QED
      BY <3>1, <3>2 DEF Minute, Second
  <2>6. level' = "done" /\ time' = later
    BY <1>4, <1>6
  <2>7. Typed'
    BY <2>3, <2>6 DEF Typed, Masks, Level
  <2>8. MatchInv'
    BY <1>3, <2>1, <2>5, <2>6 DEF MatchInv, Minute, Second
  <2>9. QED
    BY <2>7, <2>8
<1>7. QED
  BY <1>5, <1>6

-----------------------------------------------------------------------------
\* The search keeps types and the match of the fields it has settled.
LEMMA NextStep == Typed /\ MatchInv /\ [Next]_vars => Typed' /\ MatchInv'
<1> SUFFICES ASSUME Typed, MatchInv, [Next]_vars PROVE Typed' /\ MatchInv'
  OBVIOUS
<1>1. CASE Parse
  BY <1>1, ParseStep
<1>2. CASE ParseFails
  BY <1>2 DEF ParseFails, Typed, MatchInv, Masks, Level
<1>3. CASE Search
  BY <1>3, MonthStep, DayStep, WeekStep, HourStep, MinuteStep, SecondStep
  DEF Search
<1>4. CASE UNCHANGED vars
  BY <1>4 DEF vars, Typed, MatchInv, Masks, Minute, Second
<1>5. QED
  BY <1>1, <1>2, <1>3, <1>4 DEF Next, Stop

(***************************************************************************)
(* The inductive invariant: what parse() and the six functions hand on.    *)
(***************************************************************************)
THEOREM Invariance == Spec => [](Typed /\ MatchInv)
<1>1. Init => Typed /\ MatchInv
  BY InitTyped
<1>2. Typed /\ MatchInv /\ [Next]_vars => Typed' /\ MatchInv'
  BY NextStep
<1>3. QED
  BY <1>1, <1>2, PTL DEF Spec

(***************************************************************************)
(* The masks parse() makes hold values of their fields only, whatever the  *)
(* expression, and no function is ever called with a time of day outside   *)
(* the day, in any zone.                                                   *)
(***************************************************************************)
THEOREM TypeCorrect == Spec => []TypeOK
<1>1. Typed => TypeOK
  BY DEF Typed, TypeOK, Masks, Time
<1>2. QED
  BY <1>1, Invariance, PTL

(***************************************************************************)
(* For every expression, whenever getNextRunTime() returns, it returns a   *)
(* time at whose minute and second checkRunTime() lets the task start.     *)
(***************************************************************************)
THEOREM AnnouncedMatches == Spec => []NextMatchesClock
<1>1. MatchInv => NextMatchesClock
  BY DEF MatchInv, NextMatchesClock
<1>2. QED
  BY <1>1, Invariance, PTL

-----------------------------------------------------------------------------
(* The search of an hourly expression.                                     *)

\* The seconds since 1970-01-01 whose minute and second fit
Fits(n) == (n \div 60) % 60 \in cron["minute"] /\ n % 60 \in cron["second"]

(***************************************************************************)
(* The inductive invariant behind NextIsEarliest: of the seconds that the  *)
(* search has passed, none fits.                                           *)
(***************************************************************************)
EarliestInv ==
  Hourly /\ level \notin {"parse", "invalid"} =>
    /\ level # "week"
    /\ Instant(now) < Instant(time)
    /\ \A n \in (Instant(now) + 1)..(Instant(time) - 1) : ~Fits(n)

\* A day is a whole number of minutes, and of hours.
LEMMA DayIsWhole ==
  ASSUME NEW d \in Int, NEW s \in Nat
  PROVE  /\ (86400 * d + s) % 60 = s % 60
         /\ ((86400 * d + s) \div 60) % 60 = (s \div 60) % 60
<1>1. (86400 * d + s) % 60 = s % 60
  BY SMT
<1>2. (86400 * d + s) \div 60 = 1440 * d + s \div 60
  BY SMT
<1>3. (1440 * d + s \div 60) % 60 = (s \div 60) % 60
  BY SMT
<1>4. QED
  BY <1>1, <1>2, <1>3, SMT

LEMMA InstantParts ==
  ASSUME NEW t \in Time
  PROVE  /\ Instant(t) \in Int /\ t.day \in Int /\ t.sec \in Nat
         /\ Minute(t) = (Instant(t) \div 60) % 60 /\ Second(t) = Instant(t) % 60
         /\ Instant(t) = 3600 * (24 * t.day + Hour(t)) + 60 * Minute(t) + Second(t)
<1>1. t.day \in Int /\ t.sec \in Nat
  BY SMT DEF Time, DaySecond
<1>2. Instant(t) \in Int
  BY <1>1, SMT DEF Instant
<1>3. Minute(t) = (Instant(t) \div 60) % 60
  BY <1>1, DayIsWhole, SMT DEF Minute, Instant
<1>4. Second(t) = Instant(t) % 60
  BY <1>1, DayIsWhole, SMT DEF Second, Instant
<1>5. Instant(t) = 3600 * (24 * t.day + Hour(t)) + 60 * Minute(t) + Second(t)
  <2>1. /\ t.sec = 3600 * Hour(t) + 60 * Minute(t) + Second(t)
        /\ Hour(t) \in Int /\ Minute(t) \in Int /\ Second(t) \in Int
    BY TimeParts
  <2>2. Instant(t) = 86400 * t.day + t.sec
    BY DEF Instant
  <2>3. QED
    BY <1>1, <2>1, <2>2, SMT
<1>6. QED
  BY <1>1, <1>2, <1>3, <1>4, <1>5, SMT

LEMMA InstantAdd ==
  ASSUME NEW t, t.day \in Int, t.sec \in Int, NEW s \in Int
  PROVE  Instant(Add(t, s)) = Instant(t) + s
<1>1. PICK x : x = t.sec + s
  BY SMT
<1>2. x \in Int /\ 86400 * (x \div 86400) + (x % 86400) = x
  BY <1>1, SMT
<1>3. Add(t, s).day = t.day + (x \div 86400) /\ Add(t, s).sec = x % 86400
  BY <1>1, SMT DEF Add
<1>4. PICK q \in Int, r \in Int : q = x \div 86400 /\ r = x % 86400
  BY <1>2, SMT
<1>5. /\ Instant(Add(t, s)) = 86400 * (t.day + q) + r /\ Instant(t) = 86400 * t.day + t.sec
      /\ 86400 * q + r = x
  BY <1>2, <1>3, <1>4, SMT DEF Instant
<1>6. QED
  BY <1>1, <1>5, SMT

\* Second n is in hour h, from minute a to before b; it is in minute m, from
\* second a to before b.
InMinutes(n, h, a, b) == 3600 * h + 60 * a <= n /\ n < 3600 * h + 60 * b
InSeconds(n, m, a, b) == 60 * m + a <= n /\ n < 60 * m + b

\* Nothing fits where the mask has none of these minutes ...
LEMMA NoMinuteFits ==
  ASSUME NEW n \in Int, NEW h \in Int, NEW a \in 0..59, NEW b \in 0..60,
         InMinutes(n, h, a, b), \A y \in a..(b - 1) : y \notin cron["minute"]
  PROVE  ~Fits(n)
<1>1. PICK m \in Int : m = n \div 60 - 60 * h
  OBVIOUS
<1>2. a <= m /\ m < b
  BY <1>1 DEF InMinutes
<1>3. n \div 60 = 60 * h + m
  BY <1>1
<1>4. (60 * h + m) % 60 = m
  BY <1>2
<1>5. (n \div 60) % 60 = m /\ m \in a..(b - 1)
  BY <1>2, <1>3, <1>4
<1>6. QED
  BY <1>5 DEF Fits

\* ... or none of these seconds.
LEMMA NoSecondFits ==
  ASSUME NEW n \in Int, NEW m \in Int, NEW a \in 0..59, NEW b \in 0..60,
         InSeconds(n, m, a, b), \A y \in a..(b - 1) : y \notin cron["second"]
  PROVE  ~Fits(n)
<1>1. PICK x \in Int : x = n - 60 * m
  OBVIOUS
<1>2. n % 60 = x /\ x \in a..(b - 1)
  BY <1>1 DEF InSeconds
<1>3. QED
  BY <1>2 DEF Fits

\* A mask with every value of a field holds the time as it is.
LEMMA FullMask ==
  ASSUME Masks, NEW f \in Field, NEW current \in Int, current \in cron[f]
  PROVE  From(f, current) # {} /\ Upcoming(f, current) = current
<1>1. current \in From(f, current)
  BY DEF From, Width, Field
<1>2. /\ \A y \in current..(Upcoming(f, current) - 1) : y \notin cron[f]
      /\ Upcoming(f, current) >= current /\ Upcoming(f, current) \in Int
  BY <1>1, MaskFacts, UpcomingIsNext, NextInt
<1>3. QED
  BY <1>1, <1>2, SMT

\* An empty range of minutes or seconds: there is none to come.  The range does
\* not have 59 when it begins at 0, but has another value then.
LEMMA NoneToCome ==
  ASSUME Masks, Hourly, NEW f \in {"second", "minute"}, NEW current \in 0..59,
         From(f, current) = {}
  PROVE  \A y \in current..59 : y \notin cron[f]
<1>1. cron[f] \subseteq 0..59 /\ Width(f) = 59
  BY MaskFacts DEF Width
<1>2. PICK x \in cron[f] : x < 59
  BY DEF Hourly
<1>3. current # 0
  BY <1>1, <1>2 DEF From
<1>4. QED
  BY <1>1, <1>3 DEF From

-----------------------------------------------------------------------------
\* A function that passes no second that fits keeps the invariant.
LEMMA Passed ==
  ASSUME Typed, EarliestInv, UNCHANGED <<expr, cron, now>>,
         level \notin {"parse", "invalid"}, time' \in Time,
         Hourly => /\ level' # "week" /\ Instant(time) <= Instant(time')
                   /\ \A n \in Instant(time)..(Instant(time') - 1) : ~Fits(n)
  PROVE  EarliestInv'
<1> SUFFICES ASSUME Hourly, level' \notin {"parse", "invalid"}
             PROVE  /\ level' # "week"
                    /\ Instant(now) < Instant(time')
                    /\ \A n \in (Instant(now) + 1)..(Instant(time') - 1) : ~Fits(n)
  BY DEF EarliestInv, Hourly, Fits
<1>1. Instant(time) \in Int /\ Instant(time') \in Int
  BY InstantParts DEF Typed
<1>2. now.day \in Int /\ now.sec \in Int
  BY DEF Typed, DaySecond
<1>3. Instant(now) \in Int
  BY <1>2 DEF Instant
<1>4. /\ Instant(now) < Instant(time)
      /\ \A n \in (Instant(now) + 1)..(Instant(time) - 1) : ~Fits(n)
  BY DEF EarliestInv
<1>5. ASSUME NEW n \in (Instant(now) + 1)..(Instant(time') - 1) PROVE ~Fits(n)
  <2>1. n \in (Instant(now) + 1)..(Instant(time) - 1)
        \/ n \in Instant(time)..(Instant(time') - 1)
    BY <1>1, <1>3
  <2>2. QED
    BY <1>4, <2>1
<1>6. QED
  BY <1>1, <1>3, <1>4, <1>5

\* Months, days and hours: an hourly expression allows all.
LEMMA EarliestSame ==
  ASSUME Typed, EarliestInv, UNCHANGED <<expr, cron, now>>,
         level \notin {"parse", "invalid"}, time' \in Time,
         Hourly => level' # "week" /\ time' = time
  PROVE  EarliestInv'
<1>1. Instant(time) \in Int
  BY InstantParts DEF Typed
<1>2. Hourly => /\ level' # "week" /\ Instant(time) <= Instant(time')
                /\ \A n \in Instant(time)..(Instant(time') - 1) : ~Fits(n)
  BY <1>1
<1>3. QED
  BY <1>2, Passed

LEMMA FollowedDate ==
  ASSUME Typed, Followed
  PROVE  Date[time.day].month \in 1..12 /\ Date[time.day].day \in 1..31
<1>1. time.day \in FirstDay..(LastDay + 1)
  BY DEF Typed, Time, Followed
<1>2. QED
  BY <1>1, DateRange

LEMMA EarliestMonth ==
  ASSUME Typed, EarliestInv, Followed, UNCHANGED <<expr, cron, now>>, time' \in Time,
         CalculateNextRunMonth
  PROVE  EarliestInv'
<1>1. ASSUME Hourly PROVE level' # "week" /\ time' = time
  <2>1. cron["month"] = 1..12 /\ cron["week"] = 0..6
    BY <1>1 DEF Hourly, Low, High
  <2>2. Date[time.day].month \in cron["month"] /\ Date[time.day].month \in Int
    BY <2>1, FollowedDate
  <2>3. /\ From("month", Date[time.day].month) # {}
        /\ Upcoming("month", Date[time.day].month) = Date[time.day].month
    BY <2>2, FullMask DEF Typed, Field
  <2>4. QED
    BY <2>1, <2>3 DEF CalculateNextRunMonth, Call
<1>2. level \notin {"parse", "invalid"}
  BY DEF CalculateNextRunMonth
<1>3. QED
  BY <1>1, <1>2, EarliestSame

LEMMA EarliestDay ==
  ASSUME Typed, EarliestInv, Followed, UNCHANGED <<expr, cron, now>>, time' \in Time,
         CalculateNextRunDay
  PROVE  EarliestInv'
<1>1. ASSUME Hourly PROVE level' # "week" /\ time' = time
  <2>1. cron["day"] = 1..31
    BY <1>1 DEF Hourly, Low, High
  <2>2. Date[time.day].day \in cron["day"] /\ Date[time.day].day \in Int
    BY <2>1, FollowedDate
  <2>3. /\ From("day", Date[time.day].day) # {}
        /\ Upcoming("day", Date[time.day].day) = Date[time.day].day
    BY <2>2, FullMask DEF Typed, Field
  <2>4. QED
    BY <2>3 DEF CalculateNextRunDay, Call
<1>2. level \notin {"parse", "invalid"}
  BY DEF CalculateNextRunDay
<1>3. QED
  BY <1>1, <1>2, EarliestSame

LEMMA EarliestWeek ==
  ASSUME Typed, EarliestInv, UNCHANGED <<expr, cron, now>>, CalculateNextRunWeek
  PROVE  EarliestInv'
BY DEF EarliestInv, CalculateNextRunWeek, Hourly

LEMMA EarliestHour ==
  ASSUME Typed, EarliestInv, UNCHANGED <<expr, cron, now>>, time' \in Time,
         CalculateNextRunHour
  PROVE  EarliestInv'
<1>1. ASSUME Hourly PROVE level' # "week" /\ time' = time
  <2>1. cron["hour"] = 0..23
    BY <1>1 DEF Hourly, Low, High
  <2>2. Hour(time) \in cron["hour"] /\ Hour(time) \in Int
    BY <2>1, TimeParts DEF Typed
  <2>3. From("hour", Hour(time)) # {} /\ Upcoming("hour", Hour(time)) = Hour(time)
    BY <2>2, FullMask DEF Typed, Field
  <2>4. QED
    BY <2>3 DEF CalculateNextRunHour, Call
<1>2. level \notin {"parse", "invalid"}
  BY DEF CalculateNextRunHour
<1>3. QED
  BY <1>1, <1>2, EarliestSame

\* The carry to the hour, and a later minute.
LEMMA EarliestMinute ==
  ASSUME Typed, EarliestInv, UNCHANGED <<expr, cron, now>>, time' \in Time,
         CalculateNextRunMinute
  PROVE  EarliestInv'
<1> DEFINE m == Minute(time)
           next == Upcoming("minute", m)
           hour == [time EXCEPT !.sec = 3600 * Hour(time)]
<1>1. /\ m \in 0..59 /\ Second(time) \in 0..59 /\ Hour(time) \in Int
      /\ Masks /\ cron["minute"] \subseteq 0..59 /\ "minute" \in Field
  BY TimeParts, MaskFacts DEF Typed, Field
<1>2. PICK h \in Int : h = 24 * time.day + Hour(time)
  BY <1>1, InstantParts, SMT DEF Typed
<1>3. Instant(time) \in Int /\ Instant(time) = 3600 * h + 60 * m + Second(time)
  BY <1>2, InstantParts DEF Typed
<1>4. hour.day \in Int /\ hour.sec \in Int /\ Instant(hour) = 3600 * h
  <2>1. hour.day = time.day /\ hour.sec = 3600 * Hour(time) /\ time.day \in Int
    BY SMT DEF Typed, Time
  <2>2. Instant(hour) = 86400 * time.day + 3600 * Hour(time)
    BY <2>1, SMT DEF Instant
  <2>3. QED
    BY <1>1, <1>2, <2>1, <2>2, SMT
<1>5. \/ From("minute", m) = {} /\ level' = "hour" /\ time' = Add(hour, 3600)
      \/ /\ From("minute", m) # {} /\ level' = "second"
         /\ time' = IF next = m THEN time ELSE Add(hour, 60 * next)
  BY DEF CalculateNextRunMinute, Call
<1> HIDE DEF m, hour
\* Up to minute b of the hour, if none from m to before b is in the mask.
<1>6. ASSUME NEW b \in 1..60, m < b, Instant(time') = 3600 * h + 60 * b,
             \A y \in m..(b - 1) : y \notin cron["minute"]
      PROVE  /\ Instant(time) <= Instant(time')
             /\ \A n \in Instant(time)..(Instant(time') - 1) : ~Fits(n)
  <2>1. Instant(time) <= Instant(time')
    BY <1>1, <1>3, <1>6, SMT
  <2>2. ASSUME NEW n \in Int, InMinutes(n, h, m, b) PROVE ~Fits(n)
    <3>1. m \in 0..59 /\ b \in 0..60
      BY <1>1
    <3>2. \A y \in m..(b - 1) : y \notin cron["minute"]
      BY <1>6
    <3>3. QED
      BY <2>2, <3>1, <3>2, NoMinuteFits, Zenon
  <2>3. \A n \in Instant(time)..(Instant(time') - 1) : n \in Int /\ InMinutes(n, h, m, b)
    BY <1>1, <1>3, <1>6, SMT DEF InMinutes
  <2>4. QED
    BY <2>1, <2>2, <2>3
<1>7. ASSUME Hourly
      PROVE  /\ level' # "week" /\ Instant(time) <= Instant(time')
             /\ \A n \in Instant(time)..(Instant(time') - 1) : ~Fits(n)
  <2>1. CASE From("minute", m) = {}
    <3>1. Instant(time') = 3600 * h + 60 * 60 /\ level' = "hour"
      BY <1>4, <1>5, <2>1, InstantAdd, SMTT(60)
    <3>2. \A y \in m..(60 - 1) : y \notin cron["minute"]
      BY <1>1, <1>7, <2>1, NoneToCome
    <3>3. 60 \in 1..60 /\ m < 60
      BY <1>1
    <3>4. QED
      BY <1>6, <3>1, <3>2, <3>3
  <2>2. CASE From("minute", m) # {}
    <3>1. /\ next \in cron["minute"] /\ next \in 0..59 /\ next >= m
          /\ \A y \in m..(next - 1) : y \notin cron["minute"]
      BY <1>1, <2>2, UpcomingIsNext, SMT
    <3> HIDE DEF next
    <3>2. CASE next = m
      BY <1>3, <1>5, <2>2, <3>2
    <3>3. CASE next # m
      <4>1. time' = Add(hour, 60 * next) /\ level' = "second"
        BY <1>5, <2>2, <3>3
      <4>2. 60 * next \in Int
        BY <3>1
      <4>3. Instant(time') = 3600 * h + 60 * next
        BY <1>4, <4>1, <4>2, InstantAdd
      <4>4. next \in 1..60 /\ m < next
        BY <1>1, <3>1, <3>3
      <4>5. QED
        BY <1>6, <3>1, <4>1, <4>3, <4>4
    <3>4. QED
      BY <3>2, <3>3
  <2>3. QED
    BY <2>1, <2>2
<1>8. level \notin {"parse", "invalid"}
  BY DEF CalculateNextRunMinute
<1>9. QED
  BY <1>7, <1>8, Passed

\* The carry to the minute, and a later second.
LEMMA EarliestSecond ==
  ASSUME Typed, EarliestInv, UNCHANGED <<expr, cron, now>>, time' \in Time,
         CalculateNextRunSecond
  PROVE  EarliestInv'
<1> DEFINE c == Second(time)
           next == Upcoming("second", c)
           minute == [time EXCEPT !.sec = @ - c]
<1>1. /\ c \in 0..59 /\ Minute(time) \in Int /\ Hour(time) \in Int
      /\ Masks /\ cron["second"] \subseteq 0..59 /\ "second" \in Field
  BY TimeParts, MaskFacts DEF Typed, Field
<1>2. PICK m \in Int : m = 60 * (24 * time.day + Hour(time)) + Minute(time)
  BY <1>1, InstantParts, SMT DEF Typed
<1>3. Instant(time) \in Int /\ Instant(time) = 60 * m + c
  <2>1. /\ Instant(time) = 3600 * (24 * time.day + Hour(time)) + 60 * Minute(time) + c
        /\ time.day \in Int
    BY InstantParts DEF Typed
  <2>2. QED
    BY <1>1, <1>2, <2>1, SMT
<1>4. minute.day \in Int /\ minute.sec \in Int /\ Instant(minute) = 60 * m
  <2>1. minute.day = time.day /\ minute.sec = time.sec - c
    BY SMT DEF Typed, Time
  <2>2. time.day \in Int /\ time.sec \in Int /\ Instant(time) = 86400 * time.day + time.sec
    BY InstantParts DEF Typed, Instant
  <2>3. Instant(minute) = 86400 * time.day + (time.sec - c)
    BY <2>1, SMT DEF Instant
  <2> HIDE DEF minute
  <2>4. QED
    BY <1>1, <1>3, <2>1, <2>2, <2>3, SMTT(60)
<1>5. \/ From("second", c) = {} /\ level' = "minute" /\ time' = Add(minute, 60)
      \/ From("second", c) # {} /\ level' = "done" /\ time' = Add(minute, next)
  BY DEF CalculateNextRunSecond, Call
<1> HIDE DEF c, minute
\* Up to second b of the minute, if none from c to before b is in the mask.
<1>6. ASSUME NEW b \in 0..60, c <= b, Instant(time') = 60 * m + b,
             \A y \in c..(b - 1) : y \notin cron["second"]
      PROVE  /\ Instant(time) <= Instant(time')
             /\ \A n \in Instant(time)..(Instant(time') - 1) : ~Fits(n)
  <2>1. Instant(time) <= Instant(time')
    BY <1>1, <1>3, <1>6, SMT
  <2>2. ASSUME NEW n \in Int, InSeconds(n, m, c, b) PROVE ~Fits(n)
    <3>1. c \in 0..59 /\ b \in 0..60
      BY <1>1
    <3>2. \A y \in c..(b - 1) : y \notin cron["second"]
      BY <1>6
    <3>3. QED
      BY <2>2, <3>1, <3>2, NoSecondFits, Zenon
  <2>3. \A n \in Instant(time)..(Instant(time') - 1) : n \in Int /\ InSeconds(n, m, c, b)
    BY <1>1, <1>3, <1>6, SMT DEF InSeconds
  <2>4. QED
    BY <2>1, <2>2, <2>3
<1>7. ASSUME Hourly
      PROVE  /\ level' # "week" /\ Instant(time) <= Instant(time')
             /\ \A n \in Instant(time)..(Instant(time') - 1) : ~Fits(n)
  <2>1. CASE From("second", c) = {}
    <3>1. Instant(time') = 60 * m + 60 /\ level' = "minute"
      BY <1>4, <1>5, <2>1, InstantAdd, SMTT(60)
    <3>2. \A y \in c..(60 - 1) : y \notin cron["second"]
      BY <1>1, <1>7, <2>1, NoneToCome
    <3>3. 60 \in 0..60 /\ c <= 60
      BY <1>1
    <3>4. QED
      BY <1>6, <3>1, <3>2, <3>3
  <2>2. CASE From("second", c) # {}
    <3>1. /\ next \in cron["second"] /\ next \in 0..59 /\ next >= c
          /\ \A y \in c..(next - 1) : y \notin cron["second"]
      BY <1>1, <2>2, UpcomingIsNext, SMT
    <3> HIDE DEF next
    <3>2. Instant(time') = 60 * m + next /\ level' = "done"
      BY <1>4, <1>5, <2>2, <3>1, InstantAdd, SMT
    <3>3. next \in 0..60 /\ c <= next
      BY <1>1, <3>1
    <3>4. QED
      BY <1>6, <3>1, <3>2, <3>3
  <2>3. QED
    BY <2>1, <2>2
<1>8. level \notin {"parse", "invalid"}
  BY DEF CalculateNextRunSecond
<1>9. QED
  BY <1>7, <1>8, Passed

-----------------------------------------------------------------------------
\* The search starts at the second after now.
LEMMA EarliestParse == Typed /\ Parse => EarliestInv'
<1> SUFFICES ASSUME Typed, Parse PROVE EarliestInv'
  OBVIOUS
<1>1. now.day \in Int /\ now.sec \in Int
  BY DEF Typed, DaySecond
<1>2. Instant(time') = Instant(now) + 1 /\ Instant(now) \in Int
  BY <1>1, InstantAdd DEF Parse, Instant
<1>3. now' = now /\ level' = "month" /\ Instant(now)' = Instant(now)
      /\ Instant(time)' = Instant(time')
  BY DEF Parse, Instant
<1>4. QED
  BY <1>2, <1>3 DEF EarliestInv

LEMMA EarliestStep == Typed /\ MatchInv /\ EarliestInv /\ [Next]_vars => EarliestInv'
<1> SUFFICES ASSUME Typed, MatchInv, EarliestInv, [Next]_vars PROVE EarliestInv'
  OBVIOUS
<1>1. CASE Parse
  BY <1>1, EarliestParse
<1>2. CASE ParseFails
  BY <1>2 DEF ParseFails, EarliestInv
<1>3. CASE Search
  <2>1. time' \in Time /\ Followed /\ UNCHANGED <<expr, cron, now>>
    BY <1>3, NextStep DEF Typed, Search, Next
  <2>2. QED
    BY <1>3, <2>1, EarliestMonth, EarliestDay, EarliestWeek, EarliestHour,
       EarliestMinute, EarliestSecond DEF Search
<1>4. CASE UNCHANGED vars
  <2>1. level' = level /\ (Hourly' <=> Hourly)
    BY <1>4, SMT DEF vars, Hourly
  <2>2. Instant(now)' = Instant(now) /\ Instant(time)' = Instant(time)
    BY <1>4, SMT DEF vars, Instant
  <2>3. ASSUME NEW n PROVE Fits(n)' <=> Fits(n)
    BY <1>4, SMT DEF vars, Fits
  <2>4. QED
    BY <2>1, <2>2, <2>3, SMT DEF EarliestInv
<1>5. QED
  BY <1>1, <1>2, <1>3, <1>4 DEF Next, Stop

\* Second s of an hour k comes x after n, within an hour.
Comes(n, s, x, k) == 1 <= x /\ x <= 3600 /\ n + x = 3600 * k + s

\* It is in this hour or in the next.
LEMMA HourHasSecond ==
  ASSUME NEW n \in Int, NEW s \in Nat, s < 3600
  PROVE  \E x, k \in Int : Comes(n, s, x, k)
<1>1. PICK h \in Int, r \in Int : n = 3600 * h + r /\ 0 <= r /\ r < 3600
  <2>1. n = 3600 * (n \div 3600) + (n % 3600)
    BY SMT
  <2>2. n \div 3600 \in Int /\ n % 3600 \in Int /\ 0 <= n % 3600 /\ n % 3600 < 3600
    BY SMT
  <2>3. QED
    BY <2>1, <2>2, SMT
<1>2. CASE s > r
  <2>1. s - r \in Int /\ Comes(n, s, s - r, h)
    BY <1>1, <1>2, SMT DEF Comes
  <2>2. QED
    BY <2>1, SMT
<1>3. CASE s <= r
  <2>1. s - r + 3600 \in Int /\ h + 1 \in Int /\ Comes(n, s, s - r + 3600, h + 1)
    BY <1>1, <1>3, SMT DEF Comes
  <2>2. QED
    BY <2>1, SMT
<1>4. QED
  BY <1>1, <1>2, <1>3, SMT

\* Within an hour from any second there is one that fits.
LEMMA FitsWithinHour ==
  ASSUME Masks, Hourly, NEW n \in Int
  PROVE  \E x \in WithinHour : Fits(n + x)
<1>1. PICK m \in cron["minute"], c \in cron["second"] : m < 59 /\ c < 59
  BY DEF Hourly
<1>2. m \in Int /\ c \in Int /\ 0 <= m /\ 0 <= c
  BY <1>1, MaskFacts
<1>3. PICK s \in Nat : s = 60 * m + c /\ s < 3600
  BY <1>1, <1>2, SMT
<1>4. PICK x \in Int, k \in Int : Comes(n, s, x, k)
  BY <1>3, HourHasSecond, SMTT(60)
<1>5. n + x = 3600 * k + 60 * m + c /\ 1 <= x /\ x <= 3600
  BY <1>2, <1>3, <1>4, SMT DEF Comes
<1>6. (3600 * k + 60 * m + c) % 60 = c
  BY <1>1, <1>2, SMT
<1>7. ((3600 * k + 60 * m + c) \div 60) % 60 = m
  <2>1. (3600 * k + 60 * m + c) \div 60 = 60 * k + m
    BY <1>1, <1>2, SMT
  <2>2. (60 * k + m) % 60 = m
    BY <1>1, <1>2, SMT
  <2>3. QED
    BY <2>1, <2>2, SMT
<1>8. Fits(n + x)
  BY <1>1, <1>5, <1>6, <1>7, SMT DEF Fits
<1>9. x \in WithinHour
  BY <1>5, SMT DEF WithinHour
<1>10. QED
  BY <1>8, <1>9, Zenon

\* An hour ahead is on this day or the next.
LEMMA DayCarry ==
  ASSUME NEW s \in Nat, s < 86400, NEW x \in WithinHour
  PROVE  (s + x) \div 86400 \in 0..1
<1>1. PICK z : z = s + x
  BY SMT
<1>2. z \in Int /\ 0 <= z /\ z < 90000
  BY <1>1, SMT DEF WithinHour
<1>3. PICK q : q = z \div 86400
  BY SMT
<1>4. q \in 0..1
  BY <1>2, <1>3, SMT
<1>5. QED
  BY <1>1, <1>3, <1>4, SMT

\* Within the hour, checkRunTime() of an hourly expression is about the minute
\* and the second.
LEMMA CheckIsFit ==
  ASSUME Typed, Hourly, NEW x \in WithinHour
  PROVE  CheckRunTime(cron, Add(now, x)) <=> Fits(Instant(now) + x)
<1>1. /\ now.day \in FirstDay..LastDay /\ now.day \in Int /\ now.sec \in Nat
      /\ now.sec < 86400
  BY DEF Typed, DaySecond
<1>2. PICK t : t = Add(now, x)
  OBVIOUS
<1>3. t \in Time /\ Instant(t) = Instant(now) + x
  BY <1>1, <1>2, AddTime, InstantAdd, SMT DEF WithinHour
<1>4. t.day \in FirstDay..(LastDay + 1)
  <2>1. PICK q : q = (now.sec + x) \div 86400
    BY SMT
  <2>2. q \in 0..1
    BY <1>1, <2>1, DayCarry, SMT
  <2>3. t.day = now.day + q
    BY <1>2, <2>1, SMT DEF Add, WithinHour
  <2>4. QED
    BY <1>1, <2>2, <2>3
<1>5. /\ Date[t.day].day \in cron["day"] /\ Date[t.day].month \in cron["month"]
      /\ Hour(t) \in cron["hour"] /\ Weekday(t) \in cron["week"]
  <2>1. /\ cron["day"] = 1..31 /\ cron["month"] = 1..12
        /\ cron["hour"] = 0..23 /\ cron["week"] = 0..6
    BY DEF Hourly, Low, High
  <2>2. QED
    BY <1>3, <1>4, <2>1, DateRange, TimeParts
<1>6. Minute(t) = (Instant(t) \div 60) % 60 /\ Second(t) = Instant(t) % 60
  BY <1>3, InstantParts
<1>7. CheckRunTime(cron, t) <=> Minute(t) \in cron["minute"] /\ Second(t) \in cron["second"]
  BY <1>5 DEF CheckRunTime
<1>8. Fits(Instant(t)) <=> Minute(t) \in cron["minute"] /\ Second(t) \in cron["second"]
  BY <1>6, SMT DEF Fits
<1>9. QED
  BY <1>2, <1>3, <1>7, <1>8

(***************************************************************************)
(* For every expression that restricts seconds and minutes only, asked at  *)
(* any time, in any zone: the time getNextRunTime() announces is within an *)
(* hour, and is the first after now at which checkRunTime() lets the task  *)
(* start (cron.cpp:203-283).                                               *)
(***************************************************************************)
THEOREM AnnouncedIsEarliest == Spec => []NextIsEarliest
<1>1. Spec => [](Typed /\ MatchInv /\ EarliestInv)
  <2>1. Init => Typed /\ MatchInv /\ EarliestInv
    BY InitTyped DEF Init, EarliestInv
  <2>2. Typed /\ MatchInv /\ EarliestInv /\ [Next]_vars
          => (Typed /\ MatchInv /\ EarliestInv)'
    BY NextStep, EarliestStep
  <2>3. QED
    BY <2>1, <2>2, PTL DEF Spec
<1>2. Typed /\ MatchInv /\ EarliestInv => NextIsEarliest
  <2> SUFFICES ASSUME Typed, MatchInv, EarliestInv, level = "done", Hourly
               PROVE  FirstRun(Instant(time) - Instant(now))
    BY DEF NextIsEarliest
  <2>1. /\ now.day \in Int /\ now.sec \in Int /\ time.day \in Int /\ time.sec \in Int
        /\ time \in Time
    BY DEF Typed, Time, DaySecond
  <2>2. Instant(now) \in Int /\ Instant(time) \in Int
    BY <2>1, SMT DEF Instant
  <2>3. PICK w \in Int : w = Instant(time) - Instant(now)
    BY <2>2
  <2>4. /\ w >= 1 /\ Instant(time) = Instant(now) + w
        /\ \A n \in (Instant(now) + 1)..(Instant(time) - 1) : ~Fits(n)
    BY <2>2, <2>3 DEF EarliestInv
  <2>5. Fits(Instant(time))
    BY <2>1, InstantParts DEF MatchInv, Fits
  <2>6. PICK y \in WithinHour : Fits(Instant(now) + y)
    BY <2>2, FitsWithinHour DEF Typed
  <2>7. y \in Int /\ 1 <= y /\ y <= 3600
    BY SMT DEF WithinHour
  <2>8. w <= y
    <3>1. ASSUME y < w PROVE FALSE
      <4>1. Instant(now) + y \in (Instant(now) + 1)..(Instant(time) - 1)
        BY <2>2, <2>4, <2>7, <3>1, SMT
      <4>2. QED
        BY <2>4, <2>6, <4>1
    <3>2. QED
      BY <2>7, <3>1, SMT
  <2>9. w \in WithinHour
    BY <2>4, <2>7, <2>8, SMT DEF WithinHour
  <2>10. ASSUME NEW x \in 1..w PROVE CheckRunTime(cron, Add(now, x)) <=> x = w
    <3>1. x \in WithinHour
      BY <2>9, SMT DEF WithinHour
    <3>2. CheckRunTime(cron, Add(now, x)) <=> Fits(Instant(now) + x)
      BY <3>1, CheckIsFit, Zenon
    <3>3. CASE x = w
      BY <2>4, <2>5, <3>2, <3>3
    <3>4. CASE x # w
      <4>1. Instant(now) + x \in (Instant(now) + 1)..(Instant(time) - 1)
        BY <2>2, <2>4, <3>4, SMT
      <4>2. QED
        BY <2>4, <3>2, <3>4, <4>1
    <3>5. QED
      BY <3>3, <3>4
  <2>11. FirstRun(w)
    BY <2>9, <2>10, Zenon DEF FirstRun
  <2>12. QED
    BY <2>3, <2>11, Zenon
<1>3. QED
  BY <1>1, <1>2, PTL

=============================================================================
