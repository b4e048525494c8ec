------------------------------- MODULE Calendar -------------------------------
(***************************************************************************)
(* The calendar of date.hpp (src/include/date/date.hpp), in which the      *)
(* library keeps the dates that a coffee maker advertises.  A day, a month,*)
(* a year and a weekday are the integers they are stored as; a count of    *)
(* days, months or years is an integer.                                    *)
(***************************************************************************)
EXTENDS Integers

\* C++ division, towards zero; b > 0.
Quot(a, b) == IF a >= 0 THEN a \div b ELSE -((-a) \div b)

(* class day: an unsigned char.                                            *)
Day == 0..255
day(d) == d % 256
day_plus(d, n) == day(d + n)

(* class month: an unsigned char.                                          *)
Month == 0..255
month(m) == m % 256
month_ok(m) == m \in 1..12
month_minus(x, y) == IF x - y \in 0..11 THEN x - y ELSE x - y + 12

\* Mutant: the quotient of a negative number is not rounded down.
month_plus_rounds(m, n) ==
    LET mu == m + n - 1
    IN  month(mu - Quot(mu, 12) * 12 + 1)

month_plus(m, n) ==
    LET mu == m + n - 1
        yr == Quot(IF mu >= 0 THEN mu ELSE mu - 11, 12)
    IN  month(mu - yr * 12 + 1)

(* class year: a short.                                                    *)
ShortMin == -32768
ShortMax == 32767
Year == ShortMin..ShortMax
year(y) == ((y + 32768) % 65536) - 32768
year_plus(y, n) == year(y + n)

\* Mutant: the Julian rule.
is_leap_julian(y) == y % 4 = 0

is_leap(y) == (y % 4 = 0) /\ ((y % 100 # 0) \/ (y % 400 = 0))
year_ok(y) == y # -32768

(* class weekday: an unsigned char, Sunday is 0.                           *)
Weekday == 0..255
weekday(wd) == IF wd # 7 THEN wd % 256 ELSE 0

\* z is taken as an unsigned, below 0 as z + 2^32, and 2^32 % 7 = 4.
weekday_from_days(z) == IF z >= -4 THEN (z + 4) % 7 ELSE ((z % 7) + 4) % 7

weekday_ok(wd) == wd <= 6

weekday_minus(x, y) ==
    LET wdu == x - y
        wk == Quot(IF wdu >= 0 THEN wdu ELSE wdu - 6, 7)
    IN  wdu - wk * 7

weekday_plus(wd, n) ==
    LET wdu == wd + n
        wk == Quot(IF wdu >= 0 THEN wdu ELSE wdu - 6, 7)
    IN  weekday(wdu - wk * 7)

(* classes weekday_indexed, the second Tuesday, and weekday_last.          *)
WeekdayIndexed == [wd: 0..15, index: 0..15]
weekday_indexed(wd, index) == [wd |-> weekday(wd % 16), index |-> index % 16]

(* class year_month.                                                       *)
YearMonth == [y: Year, m: Month]
year_month(y, m) == [y |-> y, m |-> m]
year_month_ok(ym) == year_ok(ym.y) /\ month_ok(ym.m)
year_month_before(x, z) == x.y < z.y \/ (x.y = z.y /\ x.m < z.m)

year_month_plus_months(ym, n) ==
    LET dmi == ym.m - 1 + n
        dy == Quot(IF dmi >= 0 THEN dmi ELSE dmi - 11, 12)
    IN  year_month(year_plus(ym.y, dy), month(dmi - dy * 12 + 1))

year_month_minus(x, z) == 12 * (x.y - z.y) + (x.m - z.m)
year_month_plus_years(ym, n) == year_month(year_plus(ym.y, n), ym.m)

(* class month_day.                                                        *)
MonthDay == [m: Month, d: Day]
month_day(m, d) == [m |-> m, d |-> d]
month_day_ok(md) ==
    /\ month_ok(md.m)
    /\ md.d \in 1..(CASE md.m = 2 -> 29 [] md.m \in {4, 6, 9, 11} -> 30 [] OTHER -> 31)
month_day_before(x, z) == x.m < z.m \/ (x.m = z.m /\ x.d < z.d)

(* The four forms of a date; they keep their year and month the same way.  *)
YearMonthDay == [form: {"year_month_day"}, y: Year, m: Month, d: Day]
year_month_day(ym, d) == [form |-> "year_month_day", y |-> ym.y, m |-> ym.m, d |-> d]

YearMonthDayLast == [form: {"year_month_day_last"}, y: Year, m: Month]
year_month_day_last(ym) == [form |-> "year_month_day_last", y |-> ym.y, m |-> ym.m]

YearMonthWeekday == [form: {"year_month_weekday"}, y: Year, m: Month, wdi: WeekdayIndexed]
year_month_weekday(ym, wdi) ==
    [form |-> "year_month_weekday", y |-> ym.y, m |-> ym.m, wdi |-> wdi]

YearMonthWeekdayLast == [form: {"year_month_weekday_last"}, y: Year, m: Month, wd: Weekday]
year_month_weekday_last(ym, wd) ==
    [form |-> "year_month_weekday_last", y |-> ym.y, m |-> ym.m, wd |-> wd]

-----------------------------------------------------------------------------
(* class year_month_day_last.                                              *)
ymdl_day(x) ==
    IF (x.m # 2 \/ ~is_leap(x.y)) /\ month_ok(x.m)
    THEN CASE x.m = 2 -> 28 [] x.m \in {4, 6, 9, 11} -> 30 [] OTHER -> 31
    ELSE 29
ymdl_ok(x) == year_ok(x.y) /\ month_ok(x.m)
ymdl_plus_months(x, n) == year_month_day_last(year_month_plus_months(x, n))
ymdl_plus_years(x, n) == year_month_day_last(year_month_plus_years(x, n))

(* class year_month_day.  to_days() and from_days() reckon in eras of 400  *)
(* years that begin in March: the days before a year of an era and before  *)
(* a month of a year, and the year and the month of a day.                 *)
DaysOfYears(yoe) == yoe * 365 + yoe \div 4 - yoe \div 100
DaysOfMonths(mp) == (153 * mp + 2) \div 5
YearOfEra(doe) == (doe - doe \div 1460 + doe \div 36524 - doe \div 146096) \div 365
MonthOfYear(doy) == (5 * doy + 2) \div 153

ymd_to_days(x) ==
    LET y == x.y - (IF x.m <= 2 THEN 1 ELSE 0)
        era == Quot(IF y >= 0 THEN y ELSE y - 399, 400)
        doy == DaysOfMonths(IF x.m > 2 THEN x.m - 3 ELSE x.m + 9) + x.d - 1
    IN  era * 146097 + (DaysOfYears(y - era * 400) + doy) - 719468

\* The day doy of the year y of March.
MarchDate(y, doy) ==
    LET mp == MonthOfYear(doy)
        m == IF mp < 10 THEN mp + 3 ELSE mp - 9
    IN  year_month_day(year_month(year(y + (IF m <= 2 THEN 1 ELSE 0)), month(m)),
                       day(doy - DaysOfMonths(mp) + 1))

ymd_from_days(n) ==
    LET z == n + 719468
        era == Quot(IF z >= 0 THEN z ELSE z - 146096, 146097)
        doe == z - era * 146097
        yoe == YearOfEra(doe)
    IN  MarchDate(yoe + era * 400, doe - DaysOfYears(yoe))

ymd_from_last(x) == year_month_day(x, ymdl_day(x))
ymd_ok(x) == year_ok(x.y) /\ month_ok(x.m) /\ x.d \in 1..ymdl_day(x)
ymd_before(x, z) == x.y < z.y \/ (x.y = z.y /\ month_day_before(x, z))
ymd_plus_months(x, n) == year_month_day(year_month_plus_months(x, n), x.d)
ymd_plus_years(x, n) == year_month_day(year_month_plus_years(x, n), x.d)

\* sys_days(ymdl)
ymdl_to_days(x) == ymd_to_days(ymd_from_last(x))

(* class year_month_weekday.                                               *)
FirstOf(x) == ymd_to_days(year_month_day(x, 1))

ymwd_ok(x) ==
    /\ year_ok(x.y) /\ month_ok(x.m) /\ weekday_ok(x.wdi.wd) /\ x.wdi.index >= 1
    /\ x.wdi.index > 4 =>
           weekday_minus(x.wdi.wd, weekday_from_days(FirstOf(x))) + (x.wdi.index - 1) * 7 + 1
               <= ymdl_day(x)
\* Mutant: the seventh day of a month is in its second week.
ymwd_from_days_early(n) ==
    LET x == ymd_from_days(n)
    IN  year_month_weekday(x, weekday_indexed(weekday_from_days(n), x.d \div 7 + 1))

ymwd_from_days(n) ==
    LET x == ymd_from_days(n)
    IN  year_month_weekday(x, weekday_indexed(weekday_from_days(n), (x.d - 1) \div 7 + 1))
ymwd_to_days(x) ==
    FirstOf(x) + weekday_minus(x.wdi.wd, weekday_from_days(FirstOf(x))) + (x.wdi.index - 1) * 7
ymwd_plus_months(x, n) == year_month_weekday(year_month_plus_months(x, n), x.wdi)
ymwd_plus_years(x, n) == year_month_weekday(year_month_plus_years(x, n), x.wdi)

(* class year_month_weekday_last.                                          *)
ymwdl_ok(x) == year_ok(x.y) /\ month_ok(x.m) /\ weekday_ok(x.wd)
ymwdl_to_days(x) ==
    LET d == ymdl_to_days(x)
    IN  d - weekday_minus(weekday_from_days(d), x.wd)
ymwdl_plus_months(x, n) == year_month_weekday_last(year_month_plus_months(x, n), x.wd)
ymwdl_plus_years(x, n) == year_month_weekday_last(year_month_plus_years(x, n), x.wd)
=============================================================================
