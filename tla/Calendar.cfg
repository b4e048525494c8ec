SPECIFICATION MCSpec
CONSTANTS
    Years <- MCYears
    MonthSteps <- MCMonthSteps
    DaySteps <- MCDaySteps
    WrittenYears <- MCWrittenYears
    WrittenMonths <- MCWrittenMonths
    WrittenDays <- MCWrittenDays
    WrittenWeekdays <- MCWrittenWeekdays
    WrittenIndexes <- MCWrittenIndexes
    PartSteps <- MCPartSteps
INVARIANTS
    MeansItsDay
    AsWritten
    PartsMeanDays
PROPERTIES
    DaysGoOn
    MonthsAddUp
CHECK_DEADLOCK FALSE
