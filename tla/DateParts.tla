------------------------------- MODULE DateParts -------------------------------
(***************************************************************************)
(* The parts of a date in date.hpp (src/include/date/date.hpp) and the     *)
(* operator/ that makes a date of them: 2017_y/jan/5, jan/5/2017, sun[2]/1 *)
(* and so on, with plain ints in all but one of the first places.          *)
(***************************************************************************)
EXTENDS Calendar, Sequences

CONSTANTS
    WrittenYears,    \* bound: the years that are written or reached by a step
    WrittenMonths, WrittenDays, WrittenWeekdays, WrittenIndexes,  \* bounds: the ints
    PartSteps        \* the counts that are added to a part

ASSUME WrittenAssumption ==
    /\ WrittenYears \subseteq Int /\ WrittenMonths \subseteq Int /\ WrittenDays \subseteq Int
    /\ WrittenWeekdays \subseteq Int /\ WrittenIndexes \subseteq Int

\* No step goes twice through all the values of a short.
ASSUME PartStepsAssumption == \A n \in PartSteps: n \in Int /\ -65536 <= n /\ n <= 65536

VARIABLES
    part,   \* what has been composed
    meant,  \* the typed parts that the program means by it
    order   \* the places of these: "y", "m", "d"

vars == <<part, meant, order>>

Nothing == [form |-> "nothing"]

(* The classes.                                                            *)
WeekdayLast == [form: {"weekday_last"}, wd: Weekday]
MonthDayLast == [form: {"month_day_last"}, m: Month]
MonthWeekday == [form: {"month_weekday"}, m: Month, wdi: WeekdayIndexed]
MonthWeekdayLast == [form: {"month_weekday_last"}, m: Month, wd: Weekday]

int(n) == [form |-> "int", n |-> n]
day_part(d) == [form |-> "day", d |-> day(d)]
month_part(m) == [form |-> "month", m |-> month(m)]
year_part(y) == [form |-> "year", y |-> year(y)]
weekday_part(wd) == [form |-> "weekday", wd |-> weekday(wd)]
indexed_part(wd, index) == [form |-> "weekday_indexed", wdi |-> weekday_indexed(wd, index)]
last_part(wd) == [form |-> "weekday_last", wd |-> wd]
last == [form |-> "last"]

day_ok(d) == d \in 1..31
\* Mutant: the zeroth weekday of a month is one.
weekday_indexed_ok_zeroth(x) == weekday_ok(x.wd) /\ x.index <= 5

weekday_indexed_ok(x) == weekday_ok(x.wd) /\ x.index \in 1..5
month_day_last_ok(x) == month_ok(x.m)
month_weekday_ok(x) == month_ok(x.m) /\ weekday_indexed_ok(x.wdi)
month_weekday_last_ok(x) == month_ok(x.m) /\ weekday_ok(x.wd)

(* operator== of the classes that have no order.                           *)
weekday_indexed_equal(x, z) == x.wd = z.wd /\ x.index = z.index
month_weekday_equal(x, z) == x.m = z.m /\ weekday_indexed_equal(x.wdi, z.wdi)
weekday_last_equal(x, z) == x.wd = z.wd
month_weekday_last_equal(x, z) == x.m = z.m /\ weekday_last_equal(x, z)
ymwd_equal(x, z) == x.y = z.y /\ month_weekday_equal(x, z)
ymwdl_equal(x, z) == x.y = z.y /\ month_weekday_last_equal(x, z)

(* operator<, from which the other comparisons are made; here operator==   *)
(* is x = z.                                                               *)
day_before(x, z) == x.d < z.d
month_before(x, z) == x.m < z.m
year_before(x, z) == x.y < z.y
month_day_last_before(x, z) == month_before(x, z)
ymdl_before(x, z) == x.y < z.y \/ (x.y = z.y /\ month_day_last_before(x, z))

-----------------------------------------------------------------------------
(* operator/.  Each gives the set of its results for two operands: one for *)
(* those that it has an overload for, else none.                           *)
AsDay(r) == CASE r.form = "day" -> {r.d} [] r.form = "int" -> {day(r.n)} [] OTHER -> {}
AsMonth(r) == CASE r.form = "month" -> {r.m} [] r.form = "int" -> {month(r.n)} [] OTHER -> {}
AsYear(r) == CASE r.form = "year" -> {r.y} [] r.form = "int" -> {year(r.n)} [] OTHER -> {}

\* The operands in an order in which the first has this form.
Sides(l, r, form) == {p \in {<<l, r>>, <<r, l>>}: p[1].form = form}

slash_year_month(l, r) ==
    {[form |-> "year_month", y |-> l.y, m |-> m]: m \in IF l.form = "year" THEN AsMonth(r) ELSE {}}

\* Mutant: d/m is taken as m/d.
slash_month_day_swaps(l, r) ==
    UNION {{[form |-> "month_day", m |-> p[1].d, d |-> m]: m \in AsMonth(p[2])}: p \in Sides(l, r, "day")}

slash_month_day(l, r) ==
    {[form |-> "month_day", m |-> l.m, d |-> d]:
        d \in IF l.form = "month" /\ r.form = "int" THEN AsDay(r) ELSE {}}
    \cup UNION {{[form |-> "month_day", m |-> m, d |-> p[1].d]: m \in AsMonth(p[2])}:
                    p \in Sides(l, r, "day")}

slash_month_day_last(l, r) ==
    UNION {{[form |-> "month_day_last", m |-> m]: m \in AsMonth(p[2])}: p \in Sides(l, r, "last")}

slash_month_weekday(l, r) ==
    UNION {{[form |-> "month_weekday", m |-> m, wdi |-> p[1].wdi]: m \in AsMonth(p[2])}:
               p \in Sides(l, r, "weekday_indexed")}

slash_month_weekday_last(l, r) ==
    UNION {{[form |-> "month_weekday_last", m |-> m, wd |-> p[1].wd]: m \in AsMonth(p[2])}:
               p \in Sides(l, r, "weekday_last")}

slash_year_month_day(l, r) ==
    {year_month_day(l, d): d \in IF l.form = "year_month" THEN AsDay(r) ELSE {}}
    \cup UNION {{year_month_day(year_month(y, p[1].m), p[1].d): y \in AsYear(p[2])}:
                    p \in Sides(l, r, "month_day")}

slash_year_month_day_last(l, r) ==
    {year_month_day_last(x): x \in IF r.form = "last" /\ l.form = "year_month" THEN {l} ELSE {}}
    \cup UNION {{year_month_day_last(year_month(y, p[1].m)): y \in AsYear(p[2])}:
                    p \in Sides(l, r, "month_day_last")}

slash_year_month_weekday(l, r) ==
    {year_month_weekday(x, r.wdi):
        x \in IF r.form = "weekday_indexed" /\ l.form = "year_month" THEN {l} ELSE {}}
    \cup UNION {{year_month_weekday(year_month(y, p[1].m), p[1].wdi): y \in AsYear(p[2])}:
                    p \in Sides(l, r, "month_weekday")}

slash_year_month_weekday_last(l, r) ==
    {year_month_weekday_last(x, r.wd):
        x \in IF r.form = "weekday_last" /\ l.form = "year_month" THEN {l} ELSE {}}
    \cup UNION {{year_month_weekday_last(year_month(y, p[1].m), p[1].wd): y \in AsYear(p[2])}:
                    p \in Sides(l, r, "month_weekday_last")}

Slash(l, r) ==
    slash_year_month(l, r) \cup slash_month_day(l, r) \cup slash_month_day_last(l, r)
    \cup slash_month_weekday(l, r) \cup slash_month_weekday_last(l, r)
    \cup slash_year_month_day(l, r) \cup slash_year_month_day_last(l, r)
    \cup slash_year_month_weekday(l, r) \cup slash_year_month_weekday_last(l, r)

-----------------------------------------------------------------------------
(* What the program writes: a term for a place of the date, the typed part *)
(* that it means, and the operand, which may be a plain int.               *)
Term(place, means, operand) == [place |-> place, means |-> means, operand |-> operand]
Typed(place, means) == Term(place, means, means)

TypedTerms ==
    {Typed("y", year_part(n)): n \in WrittenYears}
    \cup {Typed("m", month_part(n)): n \in WrittenMonths}
    \cup {Typed("d", day_part(n)): n \in WrittenDays}
    \cup {Typed("d", indexed_part(weekday(n), i)): n \in WrittenWeekdays, i \in WrittenIndexes}
    \cup {Typed("d", last_part(weekday(n))): n \in WrittenWeekdays}
    \cup {Typed("d", last)}
IntTerms ==
    {Term("y", year_part(n), int(n)): n \in WrittenYears}
    \cup {Term("m", month_part(n), int(n)): n \in WrittenMonths}
    \cup {Term("d", day_part(n), int(n)): n \in WrittenDays}

\* An int is written where one of these orders gives its meaning.
Orders == {<<"y", "m", "d">>, <<"m", "d", "y">>, <<"d", "m", "y">>}
InOrder(places) == \E o \in Orders: places = SubSeq(o, 1, Len(places))

Write(term, places, results) ==
    /\ term.place \notin {order[i]: i \in DOMAIN order}
    /\ term.operand.form = "int" => InOrder(places)
    /\ part' \in results
    /\ meant' = meant \cup {term.means}
    /\ order' = places

WriteAfter(term) == Write(term, Append(order, term.place), Slash(part, term.operand))
WriteBefore(term) == Write(term, <<term.place>> \o order, Slash(term.operand, part))

(* ++, --, += and -= of a part.                                            *)
StepDay(n) ==
    /\ part.form = "day"
    /\ part' = day_part(day_plus(part.d, n))
    /\ meant' = {day_part(d): d \in {x \in Day: (x - part.d - n) % 256 = 0}}
    /\ UNCHANGED order
StepMonth(n) ==
    /\ part.form = "month"
    /\ part' = month_part(month_plus(part.m, n))
    /\ meant' = {month_part(m): m \in {x \in 1..12: (x - part.m - n) % 12 = 0}}
    /\ UNCHANGED order
StepYear(n) ==
    /\ part.form = "year"
    /\ part' = year_part(year_plus(part.y, n)) /\ part'.y \in WrittenYears
    /\ meant' = {year_part(y): y \in {part.y + n - 65536, part.y + n, part.y + n + 65536} \cap Year}
    /\ UNCHANGED order
StepWeekday(n) ==
    /\ part.form = "weekday"
    /\ part' = weekday_part(weekday_plus(part.wd, n))
    /\ meant' = {weekday_part(wd): wd \in {x \in 0..6: (x - part.wd - n) % 7 = 0}}
    /\ UNCHANGED order

\* weekday::operator[]
Index(i) ==
    /\ part.form = "weekday"
    /\ part' = indexed_part(part.wd, i) /\ meant' = {part'} /\ UNCHANGED order
IndexLast ==
    /\ part.form = "weekday"
    /\ part' = last_part(part.wd) /\ meant' = {part'} /\ UNCHANGED order

StepYearMonth(n, unit) ==
    /\ part.form = "year_month"
    /\ LET x == IF unit = "months" THEN year_month_plus_months(part, n) ELSE year_month_plus_years(part, n)
       IN  part' = [part EXCEPT !.y = x.y, !.m = x.m] /\ part'.y \in WrittenYears
    /\ LET k == 12 * part.y + part.m - 1 + n
       IN  meant' = IF unit = "months"
                    THEN {year_part(k \div 12), month_part((k % 12) + 1)}
                    ELSE {year_part(part.y + n), month_part(part.m)}
    /\ UNCHANGED order

InitParts ==
    \E t \in TypedTerms \cup {Typed("d", weekday_part(n)): n \in WrittenWeekdays}:
        part = t.operand /\ meant = {t.means} /\ order = <<t.place>>

NextParts ==
    \/ \E t \in TypedTerms \cup IntTerms: WriteAfter(t) \/ WriteBefore(t)
    \/ \E n \in PartSteps: StepDay(n) \/ StepMonth(n) \/ StepYear(n) \/ StepWeekday(n)
    \/ \E i \in WrittenIndexes: Index(i)
    \/ IndexLast
    \/ \E n \in PartSteps, unit \in {"months", "years"}: StepYearMonth(n, unit)

SpecParts == InitParts /\ [][NextParts]_vars
=============================================================================
