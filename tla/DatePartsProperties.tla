------------------------- MODULE DatePartsProperties -------------------------
(***************************************************************************)
(* What the parts of a date promise, for every order of writing them.      *)
(***************************************************************************)
EXTENDS DateParts

(* The typed parts that something is made of.                              *)
Field(x, f) ==
    CASE f = "y" -> [form |-> "year", y |-> x.y]
      [] f = "m" -> [form |-> "month", m |-> x.m]
      [] f = "d" -> [form |-> "day", d |-> x.d]
      [] f = "wdi" -> [form |-> "weekday_indexed", wdi |-> x.wdi]
      [] f = "wd" -> [form |-> IF x.form = "weekday" THEN "weekday" ELSE "weekday_last", wd |-> x.wd]
Split(x) ==
    {Field(x, f): f \in DOMAIN x \ {"form"}}
    \cup {y \in {last}: x.form \in {"last", "month_day_last", "year_month_day_last"}}

(* In whatever order the parts of a date are written, as typed values or   *)
(* as ints, in parentheses or not, and whatever was added to them before,  *)
(* the date is made of the parts that are meant, and of no other; never do *)
(* two overloads of operator/ compete.                                     *)
AsWritten ==
    /\ Split(part) = meant
    /\ \A t \in TypedTerms \cup IntTerms:
           /\ \A x, z \in Slash(part, t.operand): x = z
           /\ \A x, z \in Slash(t.operand, part): x = z

-----------------------------------------------------------------------------
(* A year for each way in which a year begins and is leap or not.          *)
SomeYears == 1996..2023

(* A part as a date of a year, in January if it has no month.              *)
InYear(x, y) ==
    LET ym == year_month(IF "y" \in DOMAIN x THEN x.y ELSE y, IF "m" \in DOMAIN x THEN x.m ELSE 1)
    IN  IF "wdi" \in DOMAIN x THEN year_month_weekday(ym, x.wdi)
        ELSE IF "wd" \in DOMAIN x THEN year_month_weekday_last(ym, x.wd)
        ELSE IF last \in Split(x) THEN year_month_day_last(ym)
        ELSE year_month_day(ym, IF "d" \in DOMAIN x THEN x.d ELSE 1)

date_ok(x) ==
    CASE x.form = "year_month_day" -> ymd_ok(x) [] x.form = "year_month_day_last" -> ymdl_ok(x)
      [] x.form = "year_month_weekday" -> ymwd_ok(x) [] x.form = "year_month_weekday_last" -> ymwdl_ok(x)
date_days(x) ==
    CASE x.form = "year_month_day" -> ymd_to_days(x) [] x.form = "year_month_day_last" -> ymdl_to_days(x)
      [] x.form = "year_month_weekday" -> ymwd_to_days(x) [] x.form = "year_month_weekday_last" -> ymwdl_to_days(x)

part_ok(x) ==
    CASE x.form = "day" -> day_ok(x.d) [] x.form = "month" -> month_ok(x.m) [] x.form = "year" -> year_ok(x.y)
      [] x.form \in {"weekday", "weekday_last"} -> weekday_ok(x.wd)
      [] x.form = "weekday_indexed" -> weekday_indexed_ok(x.wdi) [] x.form = "last" -> TRUE
      [] x.form = "year_month" -> year_month_ok(x) [] x.form = "month_day" -> month_day_ok(x)
      [] x.form = "month_day_last" -> month_day_last_ok(x) [] x.form = "month_weekday" -> month_weekday_ok(x)
      [] x.form = "month_weekday_last" -> month_weekday_last_ok(x) [] OTHER -> date_ok(x)

HaveOrder == {"day", "month", "year", "year_month", "month_day", "month_day_last",
              "year_month_day", "year_month_day_last"}
before(x, z) ==
    CASE x.form = "day" -> day_before(x, z) [] x.form = "month" -> month_before(x, z)
      [] x.form = "year" -> year_before(x, z) [] x.form = "year_month" -> year_month_before(x, z)
      [] x.form = "month_day" -> month_day_before(x, z)
      [] x.form = "month_day_last" -> month_day_last_before(x, z)
      [] x.form = "year_month_day" -> ymd_before(x, z) [] x.form = "year_month_day_last" -> ymdl_before(x, z)

HaveEquality == {"weekday_indexed", "weekday_last", "month_weekday", "month_weekday_last",
                 "year_month_weekday", "year_month_weekday_last"}
equal(x, z) ==
    CASE x.form = "weekday_indexed" -> weekday_indexed_equal(x.wdi, z.wdi)
      [] x.form = "weekday_last" -> weekday_last_equal(x, z)
      [] x.form = "month_weekday" -> month_weekday_equal(x, z)
      [] x.form = "month_weekday_last" -> month_weekday_last_equal(x, z)
      [] x.form = "year_month_weekday" -> ymwd_equal(x, z)
      [] x.form = "year_month_weekday_last" -> ymwdl_equal(x, z)

(* What may be written instead of a part.                                  *)
Vary(S, f, values) == {IF f \in DOMAIN x THEN [x EXCEPT ![f] = v] ELSE x: x \in S, v \in values}
Peers(x) ==
    LET wdis == {weekday_indexed(weekday(wd), i): wd \in WrittenWeekdays, i \in WrittenIndexes}
        dates == Vary(Vary(Vary({x}, "y", WrittenYears), "m", WrittenMonths), "d", WrittenDays)
    IN  Vary(Vary(dates, "wdi", wdis), "wd", {weekday(wd): wd \in WrittenWeekdays})

(* A part without a year is ok if it is a date of some year.  Two of them  *)
(* compare as their days do in a leap year, and those with a weekday are   *)
(* equal if they are the same days in every year; so are dates.            *)
PartsMeanDays ==
    part # Nothing =>
        /\ part_ok(part) <=> \E y \in SomeYears: date_ok(InYear(part, y))
        /\ part_ok(part) => \A z \in {z \in Peers(part): part_ok(z)}:
               /\ part.form \in HaveOrder =>
                      /\ before(part, z) <=> date_days(InYear(part, 2000)) < date_days(InYear(z, 2000))
                      /\ part = z <=> date_days(InYear(part, 2000)) = date_days(InYear(z, 2000))
               /\ part.form \in HaveEquality =>
                      (equal(part, z) <=> \A y \in SomeYears:
                                              date_days(InYear(part, y)) = date_days(InYear(z, y)))
=============================================================================
