------------------------------ MODULE MCCalendar ------------------------------
(***************************************************************************)
(* A program that holds a date, read or written in its parts, and years    *)
(* about the turns of the calendar: of the era, of centuries with and      *)
(* without a leap day, of the epoch, and the last of a coffee maker.       *)
(***************************************************************************)
EXTENDS CalendarWalk, DatePartsProperties

MCYears == {-401, -400, -1, 0, 1, 1900, 1969, 1970, 2000, 2001, 2116, 2117}
MCMonthSteps == {-13, -1, 0, 1, 11, 100, -400}
MCDaySteps == {-1, 0, 1, 31}

MCWrittenYears == {-32768, 1969, 1970, 2000, 32767}
MCWrittenMonths == {0, 1, 2, 12, 13, 258}
MCWrittenDays == {0, 1, 28, 29, 30, 31, 300}
MCWrittenWeekdays == {0, 2, 7, 8, 23}
MCWrittenIndexes == {0, 1, 4, 5, 6}
MCPartSteps == {-13, -1, 1, 7}

\* Either a date is read, or one is written and then held.
Read == Init /\ part = Nothing /\ meant = {} /\ order = <<>>
Written == InitParts /\ held = year_month_day(year_month(1970, 1), 1)
Hold ==
    /\ part \in YearMonthDay \cup YearMonthDayLast \cup YearMonthWeekday \cup YearMonthWeekdayLast
    /\ Within(part)
    /\ held' = part
    /\ part' = Nothing /\ meant' = {} /\ order' = <<>>

MCInit == Read \/ Written
MCNext ==
    \/ part = Nothing /\ Next /\ UNCHANGED vars
    \/ NextParts /\ UNCHANGED held
    \/ Hold
MCSpec == MCInit /\ [][MCNext]_<<held, vars>>
=============================================================================
