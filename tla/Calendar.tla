------------------------------ MODULE Calendar ------------------------------
(***************************************************************************)
(* unix_date (util.c:8-70), which dates every line of the status file.     *)
(* The int32_t it is given is taken as unsigned, so instants run to 2106;  *)
(* one is a pair of its day since 1970 and the second of the day, since    *)
(* the seconds do not fit TLC's integers.                                  *)
(***************************************************************************)
EXTENDS Integers, Sequences

\* Mutant: every fourth year is a leap year.
LeapEveryFourth(year) == year % 4 = 0

leap_year(year) == year % 4 = 0 /\ (year % 100 # 0 \/ year % 400 = 0)

days_in_month == <<31, 28, 31, 30, 31, 30, 31, 31, 30, 31, 30, 31>>

DaysInYear(year) == IF leap_year(year) THEN 366 ELSE 365

\* A year, the days since its first, and what day of the week that is.
YearCounts == [year : Nat, days : Nat, wday : 0 .. 6]

\* A whole year taken off the days, while there is one.
YearStep(c) ==
  LET wday == c.wday + (IF leap_year(c.year) THEN 2 ELSE 1)
  IN  [year |-> c.year + 1,
       days |-> c.days - DaysInYear(c.year),
       wday |-> IF wday >= 7 THEN wday - 7 ELSE wday]

InYear[c \in YearCounts] == IF c.days >= DaysInYear(c.year) THEN InYear[YearStep(c)] ELSE c

\* The same for the months, from 0.
DaysInMonth(month, leap) == days_in_month[month + 1] + (IF month = 1 /\ leap THEN 1 ELSE 0)

MonthCounts == [month : 0 .. 12, days : Nat, leap : BOOLEAN]
MonthStep(c) == [c EXCEPT !.month = @ + 1, !.days = @ - DaysInMonth(c.month, c.leap)]

InMonth[c \in MonthCounts] ==
  IF c.month < 12 /\ c.days >= DaysInMonth(c.month, c.leap) THEN InMonth[MonthStep(c)] ELSE c

unix_date(t) ==
  LET c == InYear[[year |-> 1970, days |-> t.day, wday |-> 4]]
      m == InMonth[[month |-> 0, days |-> c.days, leap |-> leap_year(c.year)]]
  IN  [tm_sec |-> t.sec % 60, tm_min |-> (t.sec \div 60) % 60, tm_hour |-> t.sec \div 3600,
       tm_mday |-> m.days + 1, tm_mon |-> m.month, tm_year |-> c.year - 1900,
       tm_wday |-> (c.wday + c.days) % 7, tm_yday |-> c.days]

-----------------------------------------------------------------------------
(* The Gregorian calendar *)

MonthLength(y, m) ==
  CASE m = 2 -> IF y % 4 # 0 \/ (y % 100 = 0 /\ y % 400 # 0) THEN 28 ELSE 29
    [] m \in {4, 6, 9, 11} -> 30
    [] OTHER -> 31

LeapYearsBefore(y) == (y - 1) \div 4 - (y - 1) \div 100 + (y - 1) \div 400

\* The days before each month of a common year.
DaysBefore == <<0, 31, 59, 90, 120, 151, 181, 212, 243, 273, 304, 334>>
DayOfYear(y, m, d) ==
  DaysBefore[m] + (IF m > 2 THEN MonthLength(y, 2) - 28 ELSE 0) + d - 1

DayNumber(y, m, d) ==
  365 * (y - 1970) + LeapYearsBefore(y) - LeapYearsBefore(1970) + DayOfYear(y, m, d)

\* cal is the date and the time of t, and the 1st of January 1970 was a Thursday.
Dates(cal, t) ==
  LET y == cal.tm_year + 1900
      m == cal.tm_mon + 1
  IN  /\ m \in 1 .. 12 /\ cal.tm_mday \in 1 .. MonthLength(y, m)
      /\ DayNumber(y, m, cal.tm_mday) = t.day
      /\ cal.tm_yday = DayOfYear(y, m, cal.tm_mday)
      /\ cal.tm_wday = (4 + t.day) % 7
      /\ cal.tm_hour \in 0 .. 23 /\ cal.tm_min \in 0 .. 59 /\ cal.tm_sec \in 0 .. 59
      /\ cal.tm_hour * 3600 + cal.tm_min * 60 + cal.tm_sec = t.sec
=============================================================================
