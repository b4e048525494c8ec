----------------------------- MODULE CalendarWalk -----------------------------
(***************************************************************************)
(* A program that holds a date, as to_ymd() (CoffeeMaker.cpp:265-268) read *)
(* it, and calls the operations of date.hpp on it.                         *)
(***************************************************************************)
EXTENDS Calendar, FiniteSets

CONSTANTS
    Years,       \* bound: the years that a date may reach
    MonthSteps,  \* the counts of months and years that are added
    DaySteps     \* the counts of days that are added

\* No step takes a year past those of a short.
ASSUME YearsAssumption ==
    /\ \A y \in Years: y \in Int /\ -20000 <= y /\ y <= 20000
    /\ \A n \in MonthSteps: n \in Int /\ -10000 <= n /\ n <= 10000
    /\ \A n \in DaySteps: n \in Int /\ -1000000 <= n /\ n <= 1000000

VARIABLE held

Ymd == held.form = "year_month_day"
Ymdl == held.form = "year_month_day_last"
Ymwd == held.form = "year_month_weekday"
Ymwdl == held.form = "year_month_weekday_last"

ok == CASE Ymd -> ymd_ok(held) [] Ymdl -> ymdl_ok(held)
        [] Ymwd -> ymwd_ok(held) [] Ymwdl -> ymwdl_ok(held)

\* operator sys_days
days == CASE Ymd -> ymd_to_days(held) [] Ymdl -> ymdl_to_days(held)
          [] Ymwd -> ymwd_to_days(held) [] Ymwdl -> ymwdl_to_days(held)

Within(x) == x.y \in Years

(* operator+= of months or of years.                                       *)
AddToYmd(n, unit) ==
    /\ Ymd
    /\ held' = IF unit = "months" THEN ymd_plus_months(held, n) ELSE ymd_plus_years(held, n)
AddToYmdl(n, unit) ==
    /\ Ymdl
    /\ held' = IF unit = "months" THEN ymdl_plus_months(held, n) ELSE ymdl_plus_years(held, n)
AddToYmwd(n, unit) ==
    /\ Ymwd
    /\ held' = IF unit = "months" THEN ymwd_plus_months(held, n) ELSE ymwd_plus_years(held, n)
AddToYmwdl(n, unit) ==
    /\ Ymwdl
    /\ held' = IF unit = "months" THEN ymwdl_plus_months(held, n) ELSE ymwdl_plus_years(held, n)
Add(n, unit) ==
    /\ AddToYmd(n, unit) \/ AddToYmdl(n, unit) \/ AddToYmwd(n, unit) \/ AddToYmwdl(n, unit)
    /\ Within(held')

(* The date some days later, as a year_month_day or a year_month_weekday.  *)
ToYmd(n) == held' = ymd_from_days(days + n) /\ Within(held')
ToYmwd(n) == held' = ymwd_from_days(days + n) /\ Within(held')

(* operator/: the last day, and the last such weekday, of the month.       *)
ToLast == ok /\ held' = year_month_day_last(held)
ToLastWeekday == ok /\ held' = year_month_weekday_last(held, weekday_from_days(days))

(* What the classes can hold.                                              *)
TypeOK ==
    /\ held \in YearMonthDay \cup YearMonthDayLast \cup YearMonthWeekday \cup YearMonthWeekdayLast
    /\ Within(held)

Init == held \in {year_month_day(year_month(y, m), d): y \in Years, m \in 0..15, d \in 0..31}

Next ==
    \/ \E n \in MonthSteps, unit \in {"months", "years"}: Add(n, unit)
    \/ \E n \in DaySteps: ToYmd(n) \/ ToYmwd(n)
    \/ ToLast \/ ToLastWeekday

Spec == Init /\ [][Next]_held

-----------------------------------------------------------------------------
(* The Gregorian calendar, told by the lengths of its years and months.    *)
Leap(y) == y % 400 = 0 \/ (y % 4 = 0 /\ y % 100 # 0)
Length(y, m) == CASE m \in {4, 6, 9, 11} -> 30 [] m = 2 -> IF Leap(y) THEN 29 ELSE 28 [] OTHER -> 31
LeapYearsTo(y) == y \div 4 - y \div 100 + y \div 400
LengthsBefore(y, m) ==
    LET lengths[k \in 1..m] == IF k = 1 THEN 0 ELSE lengths[k - 1] + Length(y, k - 1)
    IN  lengths[m]

\* The days from 1970-01-01, a Thursday, to the day d of a month.
Serial(y, m, d) ==
    365 * (y - 1970) + LeapYearsTo(y - 1) - LeapYearsTo(1969) + LengthsBefore(y, m) + d - 1
DaysOfWeekday(y, m, wd) == {d \in 1..Length(y, m): (Serial(y, m, d) + 4) % 7 = wd}

(* The days that a form means: none if it is not ok.                       *)
DaysOfForm ==
    CASE Ymd -> {d \in 1..Length(held.y, held.m): d = held.d}
      [] Ymdl -> {Length(held.y, held.m)}
      [] Ymwd -> {d \in DaysOfWeekday(held.y, held.m, held.wdi.wd):
                     Cardinality({e \in DaysOfWeekday(held.y, held.m, held.wdi.wd): e <= d})
                         = held.wdi.index}
      [] Ymwdl -> {d \in DaysOfWeekday(held.y, held.m, held.wd):
                     \A e \in DaysOfWeekday(held.y, held.m, held.wd): e <= d}
MeantDays ==
    IF held.y < -32767 \/ held.y > 32767 \/ held.m \notin 1..12 THEN {} ELSE DaysOfForm

(* Whatever was done to a date, ok() tells whether it is one, and its      *)
(* count of days is then that of the day it names; in a month that is one  *)
(* any other day runs on into its neighbours.                              *)
MeansItsDay ==
    /\ ok <=> MeantDays # {}
    /\ Ymd => (month_day_ok(held) <=> \E y \in {2000, 2001}: ymd_ok([held EXCEPT !.y = y]))
    /\ \A d \in MeantDays: days = Serial(held.y, held.m, d)
    /\ Ymd /\ held.m \in 1..12 => days = Serial(held.y, held.m, held.d)

(* Days that are added are counted, the order and the weekdays of the      *)
(* dates follow, and a conversion from one form to another keeps the day.  *)
DaysGoOn ==
    [][\A n \in DaySteps: ToYmd(n) \/ ToYmwd(n) =>
           /\ days' = days + n
           /\ weekday_from_days(days') = weekday_plus(weekday_from_days(days), n)
           /\ ok /\ Ymd /\ Ymd' =>
                  /\ ymd_before(held, held') <=> n > 0
                  /\ held'.y = held.y /\ held'.m = held.m => held'.d = day_plus(held.d, n)]_held

KeepsForm ==
    /\ held'.form = held.form
    /\ Ymd => held'.d = held.d
    /\ Ymwd => held'.wdi = held.wdi
    /\ Ymwdl => held'.wd = held.wd

(* Months and years that are added are counted, too, through the turn of   *)
(* the year and also from a month that is none, and change nothing else.   *)
MonthsAddUp ==
    [][\A n \in MonthSteps, unit \in {"months", "years"}: Add(n, unit) =>
           /\ year_month_minus(held', held) = (IF unit = "months" THEN n ELSE 12 * n)
           /\ unit = "months" => month_ok(held'.m) /\ held'.m = month_plus(held.m, n)
           /\ month_ok(held.m) =>
                  /\ year_month_before(held, held') <=> n > 0
                  /\ month_minus(held'.m, held.m) = (IF unit = "months" THEN n % 12 ELSE 0)
           /\ KeepsForm]_held
=============================================================================
