---------------------------- MODULE CalendarProofs ----------------------------
(***************************************************************************)
(* Proofs about the calendar, the time of a day and the parts of a date,   *)
(* for all dates, durations and ints.                                      *)
(***************************************************************************)
EXTENDS CalendarWalk, DatePartsProperties, TimeOfDay, FiniteSetTheorems, SequenceTheorems, TLAPS

(* The day of the year of March, from which to_days() and from_days() tell *)
(* the month and the day.                                                  *)
LEMMA MonthsOfYear ==
    ASSUME NEW doy \in Int, 0 <= doy, doy <= 365,
           NEW mp, mp = MonthOfYear(doy), NEW d, d = doy - DaysOfMonths(mp) + 1
    PROVE  /\ mp \in 0..11 /\ d \in 1..31
           /\ mp \in {1, 3, 6, 8} => d <= 30
           /\ mp = 11 => d <= 29 /\ (doy # 365 => d <= 28)
BY SMT DEF MonthOfYear, DaysOfMonths

(* The year of the era, and the day of the year.                           *)
LEMMA YearsOfEra ==
    ASSUME NEW doe \in Int, 0 <= doe, doe <= 146096
    PROVE  LET y == YearOfEra(doe)
               doy == doe - DaysOfYears(y)
           IN  /\ y \in Int /\ 0 <= y /\ y <= 399
               /\ doy \in Int /\ 0 <= doy /\ doy <= 365
               /\ doy = 365 => is_leap(y + 1)
<1> DEFINE a == doe \div 1460
           b == doe \div 36524
           c == doe \div 146096
           y == (doe - a + b - c) \div 365
           p == y \div 4
           q == y \div 100
<1>1. a \in Int /\ 1460 * a <= doe /\ doe < 1460 * a + 1460
  BY SMT
<1>2. b \in Int /\ 36524 * b <= doe /\ doe < 36524 * b + 36524
  BY SMT
<1>3. c \in Int /\ 146096 * c <= doe /\ doe < 146096 * c + 146096
  BY SMT
<1> HIDE DEF a, b, c
<1>4. y \in Int /\ 365 * y <= doe - a + b - c /\ doe - a + b - c < 365 * y + 365
  BY <1>1, <1>2, <1>3, SMT
<1>5. YearOfEra(doe) = y
  BY SMT DEF YearOfEra, a, b, c
<1> HIDE DEF y
<1>6. p \in Int /\ 4 * p <= y /\ y <= 4 * p + 3
  BY <1>4, SMT
<1>7. q \in Int /\ 100 * q <= y /\ y <= 100 * q + 99
  BY <1>4, SMT
<1>8. DaysOfYears(y) = y * 365 + p - q
  BY SMT DEF DaysOfYears, p, q
<1> HIDE DEF p, q
<1>9. 0 <= y /\ y <= 399
  BY <1>1, <1>2, <1>3, <1>4, SMT
<1> DEFINE doy == doe - (y * 365 + p - q)
<1>10. 0 <= doy /\ doy <= 365
  BY <1>1, <1>2, <1>3, <1>4, <1>6, <1>7, <1>9, SMT
<1>11. doy = 365 => y = 4 * p + 3 /\ (y # 100 * q + 99 \/ y = 399)
  <2>1. doy = 365 => y = 4 * p + 3
    BY <1>1, <1>2, <1>3, <1>4, <1>6, <1>7, <1>9, SMTT(60)
  <2>2. doy = 365 => y # 100 * q + 99 \/ y = 399
    BY <1>1, <1>2, <1>3, <1>4, <1>6, <1>7, <1>9, SMTT(60)
  <2> QED
    BY <2>1, <2>2
<1>12. doy = 365 => is_leap(y + 1)
  <2>1. y = 4 * p + 3 => (y + 1) % 4 = 0
    BY <1>6, <1>9, SMT
  <2>2. y # 100 * q + 99 => (y + 1) % 100 # 0
    <3>1. \A k \in 1..99: (100 * q + k) % 100 = k
      BY <1>7, SMT
    <3> DEFINE k == y + 1 - 100 * q
    <3>2. y # 100 * q + 99 => k \in 1..99 /\ y + 1 = 100 * q + k
      BY <1>4, <1>7, SMT
    <3> QED
      BY <3>1, <3>2, SMT
  <2>3. y = 399 => (y + 1) % 400 = 0
    BY SMT
  <2> QED
    BY <1>11, <2>1, <2>2, <2>3 DEF is_leap
<1>13. doy \in Int
  BY <1>4, <1>6, <1>7, SMT
<1> QED
  BY <1>4, <1>5, <1>8, <1>9, <1>10, <1>12, <1>13

-----------------------------------------------------------------------------
(* A day by its place: the era, the year of the era and the day of that.   *)
SerialOf(era, yoe, doy) == era * 146097 + DaysOfYears(yoe) + doy - 719468

IsPlace(era, yoe, doy) ==
    /\ era \in Int /\ yoe \in Int /\ 0 <= yoe /\ yoe <= 399
    /\ doy \in Int /\ 0 <= doy /\ doy <= 365
    /\ doy = 365 => is_leap(yoe + 1)

(* Every day has its place, and from_days() finds it.                      *)
LEMMA FromDays ==
    ASSUME NEW n \in Int
    PROVE  \E era, yoe, doy:
               /\ IsPlace(era, yoe, doy)
               /\ n = SerialOf(era, yoe, doy)
               /\ ymd_from_days(n) = MarchDate(yoe + era * 400, doy)
<1> DEFINE z == n + 719468
           era == z \div 146097
           doe == z - era * 146097
           yoe == YearOfEra(doe)
           doy == doe - DaysOfYears(yoe)
<1>1. era \in Int /\ doe \in Int /\ 0 <= doe /\ doe <= 146096
  BY SMT
<1>2. Quot(IF z >= 0 THEN z ELSE z - 146096, 146097) = era
  <2>1. z \in Int
    BY SMT
  <2> HIDE DEF z
  <2> QED
    BY <2>1, SMT DEF Quot, era
<1>3. ymd_from_days(n) = MarchDate(yoe + era * 400, doy)
  BY <1>2, SMT DEF ymd_from_days
<1> HIDE DEF era
<1>4. n = era * 146097 + doe - 719468
  BY <1>1, SMT
<1> HIDE DEF doe
<1>5. IsPlace(era, yoe, doy)
  BY <1>1, YearsOfEra DEF IsPlace
<1>6. DaysOfYears(yoe) \in Int
  BY <1>5, SMT DEF IsPlace, DaysOfYears
<1> HIDE DEF yoe
<1>7. n = SerialOf(era, yoe, doy)
  BY <1>1, <1>4, <1>6, SMT DEF SerialOf
<1> QED
  BY <1>3, <1>5, <1>7

(* to_days() counts the days to the place of a date.                       *)
LEMMA ToDays ==
    ASSUME NEW era, NEW yoe, NEW doy, IsPlace(era, yoe, doy),
           NEW x, x = MarchDate(yoe + era * 400, doy),
           NEW mp, mp = MonthOfYear(doy),
           NEW m, m = (IF mp < 10 THEN mp + 3 ELSE mp - 9),
           NEW y, y = yoe + era * 400 + (IF m <= 2 THEN 1 ELSE 0),
           -32767 <= y, y <= 32767
    PROVE  /\ ymd_to_days(x) = SerialOf(era, yoe, doy)
           /\ ymd_ok(x)
           /\ x.y = y /\ x.m = m /\ x.d = doy - DaysOfMonths(mp) + 1
<1> DEFINE d == doy - DaysOfMonths(mp) + 1
<1>1. /\ mp \in 0..11 /\ d \in 1..31
      /\ mp \in {1, 3, 6, 8} => d <= 30
      /\ mp = 11 => d <= 29 /\ (doy # 365 => d <= 28)
  BY MonthsOfYear, SMT DEF IsPlace
<1>2. DaysOfMonths(mp) \in Int /\ DaysOfMonths(mp) + d - 1 = doy
  <2>1. DaysOfMonths(mp) \in Int
    BY <1>1, SMT DEF DaysOfMonths
  <2> QED
    BY <2>1, SMT DEF IsPlace
<1>3. m \in 1..12 /\ (mp = 10 <=> m = 1) /\ (mp = 11 <=> m = 2)
      /\ (mp \in {1, 3, 6, 8} <=> m \in {4, 6, 9, 11})
  BY <1>1, SMT
<1>4. mp = (IF m > 2 THEN m - 3 ELSE m + 9)
  BY <1>1, SMT
<1>5. y \in Int
  BY SMT DEF IsPlace
<1>6. x = year_month_day(year_month(year(y), month(m)), day(d))
  BY SMT DEF MarchDate
<1> HIDE DEF d
<1>7. year(y) = y /\ month(m) = m /\ day(d) = d
  BY <1>1, <1>3, <1>5, SMT DEF year, month, day
<1>8. x.y = y /\ x.m = m /\ x.d = d
  BY <1>6, <1>7 DEF year_month_day, year_month
<1>9. ymd_to_days(x) = SerialOf(era, yoe, doy)
  <2> DEFINE w == x.y - (IF x.m <= 2 THEN 1 ELSE 0)
  <2>0. w = y - (IF m <= 2 THEN 1 ELSE 0)
    BY <1>8
  <2> HIDE DEF w
  <2>1. w = yoe + era * 400 /\ w \in Int
    BY <1>3, <1>5, <2>0, SMT DEF IsPlace
  <2>2. Quot(IF w >= 0 THEN w ELSE w - 399, 400) = w \div 400
    BY <2>1, SMT DEF Quot
  <2>3. w \div 400 = era /\ w - era * 400 = yoe
    BY <2>1, SMT DEF IsPlace
  <2>4. DaysOfMonths(IF x.m > 2 THEN x.m - 3 ELSE x.m + 9) + x.d - 1 = doy
    BY <1>2, <1>4, <1>8, SMT
  <2>5. DaysOfYears(yoe) \in Int
    BY SMT DEF DaysOfYears, IsPlace
  <2>6. ymd_to_days(x) = era * 146097 + (DaysOfYears(yoe) + doy) - 719468
    BY <2>2, <2>3, <2>4, SMT DEF ymd_to_days, w
  <2> QED
    BY <2>5, <2>6, SMT DEF SerialOf, IsPlace
<1>10. ymd_ok(x)
  <2>1. doy = 365 => mp = 11
    BY <1>1, <1>2, SMT DEF DaysOfMonths
  <2>2. CASE m # 2
    BY <1>1, <1>3, <1>5, <1>8, <2>2, SMT DEF ymd_ok, year_ok, month_ok, ymdl_day
  <2>3. CASE m = 2 /\ doy # 365
    <3>1. mp = 11 /\ d \in 1..28
      BY <1>1, <1>3, <2>3, SMT
    <3> QED
      BY <1>5, <1>8, <2>3, <3>1, SMT DEF ymd_ok, year_ok, month_ok, ymdl_day
  <2>4. CASE m = 2 /\ doy = 365
    <3>1. is_leap(yoe + 1) /\ y = (yoe + 1) + era * 400
      BY <2>4, SMT DEF IsPlace
    <3>2. is_leap(y)
      BY <3>1, SMT DEF is_leap, IsPlace
    <3>3. d \in 1..29
      BY <1>1, <1>3, <2>4, SMT
    <3> QED
      BY <1>5, <1>8, <2>4, <3>2, <3>3, SMT DEF ymd_ok, year_ok, month_ok, ymdl_day
  <2> QED
    BY <2>2, <2>3, <2>4
<1> QED
  BY <1>8, <1>9, <1>10 DEF d

-----------------------------------------------------------------------------
(* A place whose serial number is small is in a year of a short.           *)
LEMMA SerialBounds ==
    ASSUME NEW era, NEW yoe, NEW doy, IsPlace(era, yoe, doy)
    PROVE  /\ SerialOf(era, yoe, doy) \in Int
           /\ -10500000 <= SerialOf(era, yoe, doy) + 719468
              /\ SerialOf(era, yoe, doy) + 719468 <= 10500000
                => -32767 < yoe + era * 400 /\ yoe + era * 400 < 32766
<1> DEFINE p == yoe \div 4
           q == yoe \div 100
<1>1. p \in Int /\ 0 <= p /\ p <= 99 /\ q \in Int /\ 0 <= q /\ q <= 3
  BY SMT DEF IsPlace
<1> HIDE DEF p, q
<1>2. SerialOf(era, yoe, doy) = era * 146097 + (yoe * 365 + p - q) + doy - 719468
  BY SMT DEF SerialOf, DaysOfYears, p, q
<1> DEFINE r == (yoe * 365 + p - q) + doy
<1>3. r \in Int /\ -3 <= r /\ r <= 146100
  BY <1>1, SMT DEF IsPlace
<1>4. SerialOf(era, yoe, doy) = era * 146097 + r - 719468
  BY <1>1, <1>2, SMT DEF IsPlace
<1> HIDE DEF r
<1> QED
  BY <1>3, <1>4, SMT DEF IsPlace

(* Two places have the order of their serial numbers.                      *)
LEMMA SerialOrder ==
    ASSUME NEW era, NEW yoe, NEW doy, IsPlace(era, yoe, doy),
           NEW era2, NEW yoe2, NEW doy2, IsPlace(era2, yoe2, doy2)
    PROVE  SerialOf(era, yoe, doy) < SerialOf(era2, yoe2, doy2)
             <=> \/ yoe + era * 400 < yoe2 + era2 * 400
                 \/ yoe + era * 400 = yoe2 + era2 * 400 /\ doy < doy2
<1> DEFINE p == yoe \div 4
           q == yoe \div 100
           p2 == yoe2 \div 4
           q2 == yoe2 \div 100
<1>1. p \in Int /\ 4 * p <= yoe /\ yoe <= 4 * p + 3 /\ q \in Int /\ 100 * q <= yoe /\ yoe <= 100 * q + 99
  BY SMT DEF IsPlace
<1>2. p2 \in Int /\ 4 * p2 <= yoe2 /\ yoe2 <= 4 * p2 + 3 /\ q2 \in Int /\ 100 * q2 <= yoe2 /\ yoe2 <= 100 * q2 + 99
  BY SMT DEF IsPlace
<1>3. doy = 365 => yoe = 4 * p + 3 /\ (yoe # 100 * q + 99 \/ yoe = 399)
  BY SMT DEF IsPlace, is_leap
<1>4. doy2 = 365 => yoe2 = 4 * p2 + 3 /\ (yoe2 # 100 * q2 + 99 \/ yoe2 = 399)
  BY SMT DEF IsPlace, is_leap
<1> HIDE DEF p, q, p2, q2
<1>5. SerialOf(era, yoe, doy) = era * 146097 + (yoe * 365 + p - q) + doy - 719468
  BY SMT DEF SerialOf, DaysOfYears, p, q
<1>6. SerialOf(era2, yoe2, doy2) = era2 * 146097 + (yoe2 * 365 + p2 - q2) + doy2 - 719468
  BY SMT DEF SerialOf, DaysOfYears, p2, q2
<1>7. /\ 0 <= yoe * 365 + p - q + doy /\ yoe * 365 + p - q + doy <= 146096
      /\ 0 <= yoe2 * 365 + p2 - q2 + doy2 /\ yoe2 * 365 + p2 - q2 + doy2 <= 146096
  BY <1>1, <1>2, <1>3, <1>4, SMT DEF IsPlace
<1>8. CASE era # era2
  BY <1>1, <1>2, <1>5, <1>6, <1>7, <1>8, SMT DEF IsPlace
<1>9. CASE era = era2 /\ yoe = yoe2
  <2>1. p = p2 /\ q = q2
    BY <1>9 DEF p, q, p2, q2
  <2> QED
    BY <1>1, <1>5, <1>6, <1>9, <2>1, SMT DEF IsPlace
<1>10. CASE era = era2 /\ yoe < yoe2
  BY <1>1, <1>2, <1>3, <1>5, <1>6, <1>10, SMT DEF IsPlace
<1>11. CASE era = era2 /\ yoe2 < yoe
  BY <1>1, <1>2, <1>4, <1>5, <1>6, <1>11, SMT DEF IsPlace
<1> QED
  BY <1>8, <1>9, <1>10, <1>11, SMT DEF IsPlace

(* from_days() gives a date that is one, in the calendar of any year that  *)
(* a short holds, and to_days() leads back from it                         *)
(* (date.hpp:2599-2614, 2687-2704).                                        *)
THEOREM DaysInverse ==
    ASSUME NEW n \in Int, -10500000 <= n + 719468, n + 719468 <= 10500000
    PROVE  /\ ymd_ok(ymd_from_days(n))
           /\ ymd_to_days(ymd_from_days(n)) = n
<1>1. PICK era, yoe, doy:
          /\ IsPlace(era, yoe, doy)
          /\ n = SerialOf(era, yoe, doy)
          /\ ymd_from_days(n) = MarchDate(yoe + era * 400, doy)
  BY FromDays
<1>2. -32767 < yoe + era * 400 /\ yoe + era * 400 < 32766
  BY <1>1, SerialBounds
<1> DEFINE mp == MonthOfYear(doy)
           m == IF mp < 10 THEN mp + 3 ELSE mp - 9
           y == yoe + era * 400 + (IF m <= 2 THEN 1 ELSE 0)
<1>3. -32767 <= y /\ y <= 32767
  BY <1>1, <1>2, SMT DEF IsPlace
<1> HIDE DEF mp, m, y
<1>4. mp = MonthOfYear(doy) /\ m = (IF mp < 10 THEN mp + 3 ELSE mp - 9)
      /\ y = yoe + era * 400 + (IF m <= 2 THEN 1 ELSE 0)
  BY DEF mp, m, y
<1> QED
  BY <1>1, <1>3, <1>4, ToDays

-----------------------------------------------------------------------------
(* The integers of the forms.                                              *)
LEMMA FieldsTyped ==
    ASSUME NEW n \in Int
    PROVE  day(n) \in Day /\ month(n) \in Month /\ year(n) \in Year
           /\ weekday(n) \in Weekday /\ weekday_from_days(n) \in 0..6
<1>1. day(n) \in Day /\ month(n) \in Month
  BY SMT DEF day, month, Day, Month
<1>2. year(n) \in Year
  <2> DEFINE y == year(n)
  <2>1. y \in Int /\ ShortMin \in Int /\ ShortMax \in Int /\ ShortMin <= y /\ y <= ShortMax
    BY SMT DEF year, ShortMin, ShortMax
  <2> HIDE DEF y
  <2>2. y \in ShortMin..ShortMax
    BY <2>1, SMT
  <2> QED
    BY <2>2, Zenon DEF Year, y
<1>3. weekday(n) \in Weekday /\ weekday_from_days(n) \in 0..6
  BY SMT DEF weekday, weekday_from_days, Weekday
<1> QED
  BY <1>1, <1>2, <1>3, Zenon

LEMMA QuotTyped == ASSUME NEW a \in Int, NEW b \in Int, b > 0 PROVE Quot(a, b) \in Int
BY SMT DEF Quot

LEMMA MonthAdded ==
    ASSUME NEW m \in Month, NEW n \in Int, -10000 <= n, n <= 10000
    PROVE  LET dmi == m - 1 + n
               dy == Quot(IF dmi >= 0 THEN dmi ELSE dmi - 11, 12)
           IN  /\ dy \in Int /\ -1000 <= dy /\ dy <= 1000
               /\ dmi - dy * 12 \in 0..11
               /\ month(dmi - dy * 12 + 1) = dmi - dy * 12 + 1
               /\ month_plus(m, n) = dmi - dy * 12 + 1
<1> DEFINE dmi == m - 1 + n
           dy == Quot(IF dmi >= 0 THEN dmi ELSE dmi - 11, 12)
<1>1. dmi \in Int /\ -10001 <= dmi /\ dmi <= 10254
  BY SMT DEF Month
<1>2. m + n - 1 = dmi
  BY SMT DEF Month
<1> HIDE DEF dmi
<1>3. dy = dmi \div 12
  BY <1>1, SMT DEF Quot
<1>4. dy \in Int /\ -1000 <= dy /\ dy <= 1000 /\ dmi - dy * 12 \in 0..11
  <2> HIDE DEF dy
  <2>1. dy \in Int /\ 12 * dy <= dmi /\ dmi < 12 * dy + 12
    BY <1>1, <1>3, SMT
  <2>2. -1000 <= dy /\ dy <= 1000
    BY <1>1, <2>1, SMT
  <2> QED
    BY <1>1, <2>1, <2>2, SMT
<1>5. month(dmi - dy * 12 + 1) = dmi - dy * 12 + 1
  <2> HIDE DEF dy
  <2> QED
    BY <1>1, <1>4, SMT DEF month
<1>6. month_plus(m, n) = month(dmi - dy * 12 + 1)
  BY <1>2 DEF month_plus
<1> QED
  BY <1>4, <1>5, <1>6 DEF dmi
(* The days of what a year_month_day may hold, were it a date or not.      *)
LEMMA ToDaysBounds ==
    ASSUME NEW x, x.y \in Int, -20000 <= x.y, x.y <= 20000, x.m \in Month, x.d \in Day
    PROVE  /\ ymd_to_days(x) \in Int
           /\ -7500000 <= ymd_to_days(x) + 719468 /\ ymd_to_days(x) + 719468 <= 7500000
<1> DEFINE w == x.y - (IF x.m <= 2 THEN 1 ELSE 0)
           era == Quot(IF w >= 0 THEN w ELSE w - 399, 400)
           mp == IF x.m > 2 THEN x.m - 3 ELSE x.m + 9
           doy == DaysOfMonths(mp) + x.d - 1
           yoe == w - era * 400
<1>1. w \in Int /\ -20001 <= w /\ w <= 20000
  BY SMT DEF Month
<1>2. mp \in 0..255
  BY SMT DEF Month
<1>3. ymd_to_days(x) = era * 146097 + (DaysOfYears(yoe) + doy) - 719468
  BY DEF ymd_to_days
<1> HIDE DEF w, mp
<1>4. era = w \div 400
  BY <1>1, SMT DEF Quot
<1>5. era \in Int /\ yoe \in Int /\ 0 <= yoe /\ yoe <= 399
  BY <1>1, <1>4, SMT
<1>6. DaysOfYears(yoe) \in Int /\ 0 <= DaysOfYears(yoe) /\ DaysOfYears(yoe) <= 146000
  <2> HIDE DEF yoe
  <2> QED
    BY <1>5, SMT DEF DaysOfYears
<1>7. doy \in Int /\ -1 <= doy /\ doy <= 9000
  BY <1>2, SMT DEF DaysOfMonths, Day
<1> HIDE DEF doy
<1>8. -51 <= era /\ era <= 50
  BY <1>1, <1>4, SMT
<1> HIDE DEF era, yoe
<1> QED
  BY <1>3, <1>5, <1>6, <1>7, <1>8, SMT

LEMMA WeekdayMinus ==
    ASSUME NEW a \in Weekday, NEW b \in Weekday
    PROVE  weekday_minus(a, b) = (a - b) % 7 /\ weekday_minus(a, b) \in 0..6
<1> DEFINE w == a - b
<1>1. w \in -255..255
  BY SMT DEF Weekday
<1> HIDE DEF w
<1>2. Quot(IF w >= 0 THEN w ELSE w - 6, 7) = w \div 7
  BY <1>1, SMT DEF Quot
<1>3. w - (w \div 7) * 7 = w % 7 /\ w % 7 \in 0..6
  BY <1>1, SMT
<1> QED
  BY <1>2, <1>3 DEF weekday_minus, w

(* What the forms of a date hold.                                          *)
LEMMA Fields ==
    ASSUME TypeOK
    PROVE  /\ held.y \in Int /\ -20000 <= held.y /\ held.y <= 20000 /\ held.m \in Month
           /\ Ymd => held = [form |-> "year_month_day", y |-> held.y, m |-> held.m, d |-> held.d]
                     /\ held.d \in Day
           /\ Ymdl => held = [form |-> "year_month_day_last", y |-> held.y, m |-> held.m]
           /\ Ymwd => held = [form |-> "year_month_weekday", y |-> held.y, m |-> held.m,
                              wdi |-> held.wdi] /\ held.wdi \in WeekdayIndexed
           /\ Ymwdl => held = [form |-> "year_month_weekday_last", y |-> held.y, m |-> held.m,
                               wd |-> held.wd] /\ held.wd \in Weekday
           /\ Ymd \/ Ymdl \/ Ymwd \/ Ymwdl
<1>1. held.y \in Int /\ -20000 <= held.y /\ held.y <= 20000
  BY YearsAssumption DEF TypeOK, Within
<1>2. CASE held \in YearMonthDay
  BY <1>1, <1>2 DEF YearMonthDay, Ymd, Ymdl, Ymwd, Ymwdl
<1>3. CASE held \in YearMonthDayLast
  BY <1>1, <1>3 DEF YearMonthDayLast, Ymd, Ymdl, Ymwd, Ymwdl
<1>4. CASE held \in YearMonthWeekday
  BY <1>1, <1>4 DEF YearMonthWeekday, Ymd, Ymdl, Ymwd, Ymwdl
<1>5. CASE held \in YearMonthWeekdayLast
  BY <1>1, <1>5 DEF YearMonthWeekdayLast, Ymd, Ymdl, Ymwd, Ymwdl
<1> QED
  BY <1>2, <1>3, <1>4, <1>5 DEF TypeOK

(* The days of the date that is held.                                      *)
LEMMA DaysBounds ==
    ASSUME TypeOK
    PROVE  /\ days \in Int
           /\ -8000000 <= days + 719468 /\ days + 719468 <= 8000000
<1> USE Fields
<1>1. CASE Ymd
  BY <1>1, ToDaysBounds, SMT DEF days
<1> DEFINE final == ymd_from_last(held)
<1>2. final.y = held.y /\ final.m = held.m /\ final.d \in Day
  BY SMT DEF ymd_from_last, year_month_day, ymdl_day, Day
<1>3. /\ ymd_to_days(final) \in Int
      /\ -7500000 <= ymd_to_days(final) + 719468 /\ ymd_to_days(final) + 719468 <= 7500000
  BY <1>2, ToDaysBounds
<1>4. CASE Ymdl
  BY <1>3, <1>4, SMT DEF days, ymdl_to_days, Ymd, Ymdl
<1> DEFINE first == year_month_day(held, 1)
<1>5. first.y = held.y /\ first.m = held.m /\ first.d \in Day
  BY SMT DEF year_month_day, Day
<1>6. /\ ymd_to_days(first) \in Int
      /\ -7500000 <= ymd_to_days(first) + 719468 /\ ymd_to_days(first) + 719468 <= 7500000
  BY <1>5, ToDaysBounds
<1>7. CASE Ymwd
  <2> DEFINE wd == held.wdi.wd
             i == held.wdi.index
  <2>1. wd \in 0..15 /\ i \in 0..15
    BY <1>7 DEF WeekdayIndexed
  <2>2. weekday_minus(wd, weekday_from_days(FirstOf(held))) \in 0..6
    <3>1. weekday_from_days(FirstOf(held)) \in Weekday /\ wd \in Weekday
      BY <1>6, <2>1, FieldsTyped, SMT DEF FirstOf, Weekday
    <3> HIDE DEF wd
    <3> QED
      BY ONLY <3>1, WeekdayMinus
  <2>3. days = ymd_to_days(first) + weekday_minus(wd, weekday_from_days(FirstOf(held))) + (i - 1) * 7
    BY <1>7 DEF days, ymwd_to_days, FirstOf, Ymd, Ymdl, Ymwd
  <2> QED
    BY <1>6, <2>1, <2>2, <2>3, SMT
<1>8. CASE Ymwdl
  <2> DEFINE wd == held.wd
  <2>1. wd \in Weekday /\ weekday_from_days(ymd_to_days(final)) \in Weekday
    BY <1>3, <1>8, FieldsTyped, SMT DEF Weekday
  <2>2. weekday_minus(weekday_from_days(ymd_to_days(final)), wd) \in 0..6
    <3> HIDE DEF wd, final
    <3> QED
      BY ONLY <2>1, WeekdayMinus
  <2>3. days = ymd_to_days(final) - weekday_minus(weekday_from_days(ymd_to_days(final)), wd)
    BY <1>8 DEF days, ymwdl_to_days, ymdl_to_days, Ymd, Ymdl, Ymwd, Ymwdl
  <2> QED
    BY <1>3, <2>2, <2>3, SMT
<1> QED
  BY <1>1, <1>4, <1>7, <1>8
-----------------------------------------------------------------------------
(* Months and years that are added.                                        *)
LEMMA AddFields ==
    ASSUME TypeOK, NEW n \in MonthSteps, NEW unit \in {"months", "years"}, Add(n, unit)
    PROVE  LET dmi == held.m - 1 + n
               dy == IF unit = "months" THEN Quot(IF dmi >= 0 THEN dmi ELSE dmi - 11, 12) ELSE n
           IN  /\ dy \in Int /\ n \in Int /\ dmi \in Int
               /\ held'.y = held.y + dy
               /\ unit = "months" => /\ dmi - dy * 12 \in 0..11
                                     /\ held'.m = dmi - dy * 12 + 1
                                     /\ held'.m = month_plus(held.m, n)
               /\ unit = "years" => held'.m = held.m
               /\ held'.m \in Month
               /\ KeepsForm
               /\ held' \in YearMonthDay \cup YearMonthDayLast \cup YearMonthWeekday
                             \cup YearMonthWeekdayLast
<1> DEFINE dmi == held.m - 1 + n
           q == Quot(IF dmi >= 0 THEN dmi ELSE dmi - 11, 12)
           dy == IF unit = "months" THEN q ELSE n
           m == IF unit = "months" THEN dmi - dy * 12 + 1 ELSE held.m
           y == held.y + dy
<1>1. n \in Int /\ -10000 <= n /\ n <= 10000
  BY YearsAssumption
<1>2. held.m \in Month /\ held.y \in Int /\ -20000 <= held.y /\ held.y <= 20000
  BY Fields
<1>3. /\ q \in Int /\ -1000 <= q /\ q <= 1000 /\ dmi - q * 12 \in 0..11
      /\ month(dmi - q * 12 + 1) = dmi - q * 12 + 1
      /\ month_plus(held.m, n) = dmi - q * 12 + 1
  BY <1>1, <1>2, MonthAdded
<1>4. dmi \in Int
  BY <1>1, <1>2, SMT DEF Month
<1> HIDE DEF dmi, q
<1>5. y \in Int /\ -30000 <= y /\ y <= 30000 /\ dy \in Int
  BY <1>1, <1>2, <1>3, SMT
<1>6. year(y) = y /\ y \in Year
  <2>1. year(y) = y
    <3> HIDE DEF y
    <3> QED
      BY <1>5, SMT DEF year
  <2> QED
    BY <1>5, <2>1, FieldsTyped
<1>7. m \in Month
  BY <1>2, <1>3, <1>4, SMT DEF Month
<1>8. unit = "months" => year_month_plus_months(held, n) = [y |-> y, m |-> m]
  BY <1>3, <1>6 DEF year_month_plus_months, year_month, year_plus, dmi, q
<1>9. unit = "years" => year_month_plus_years(held, n) = [y |-> y, m |-> m]
  BY <1>6 DEF year_month_plus_years, year_month, year_plus
<1>10. unit # "months" => unit = "years"
  OBVIOUS
<1> HIDE DEF dy, m, y
<1>11. /\ held'.y = y /\ held'.m = m /\ KeepsForm
       /\ held' \in YearMonthDay \cup YearMonthDayLast \cup YearMonthWeekday \cup YearMonthWeekdayLast
  <2>1. CASE AddToYmd(n, unit)
    <3>1. Ymd /\ held' = year_month_day([y |-> y, m |-> m], held.d)
      BY <2>1, <1>8, <1>9, <1>10 DEF AddToYmd, ymd_plus_months, ymd_plus_years
    <3>2. held.form = "year_month_day" /\ held.d \in Day
      BY <3>1, Fields DEF Ymd
    <3> QED
      BY <1>6, <1>7, <3>1, <3>2 DEF year_month_day, YearMonthDay, KeepsForm, Ymd, Ymwd, Ymwdl
  <2>2. CASE AddToYmdl(n, unit)
    <3>1. Ymdl /\ held' = year_month_day_last([y |-> y, m |-> m])
      BY <2>2, <1>8, <1>9, <1>10 DEF AddToYmdl, ymdl_plus_months, ymdl_plus_years
    <3> QED
      BY <1>6, <1>7, <3>1
         DEF year_month_day_last, YearMonthDayLast, KeepsForm, Ymd, Ymdl, Ymwd, Ymwdl
  <2>3. CASE AddToYmwd(n, unit)
    <3>1. Ymwd /\ held' = year_month_weekday([y |-> y, m |-> m], held.wdi)
      BY <2>3, <1>8, <1>9, <1>10 DEF AddToYmwd, ymwd_plus_months, ymwd_plus_years
    <3>2. held.form = "year_month_weekday" /\ held.wdi \in WeekdayIndexed
      BY <3>1, Fields DEF Ymwd
    <3> QED
      BY <1>6, <1>7, <3>1, <3>2 DEF year_month_weekday, YearMonthWeekday, KeepsForm, Ymd, Ymwd, Ymwdl
  <2>4. CASE AddToYmwdl(n, unit)
    <3>1. Ymwdl /\ held' = year_month_weekday_last([y |-> y, m |-> m], held.wd)
      BY <2>4, <1>8, <1>9, <1>10 DEF AddToYmwdl, ymwdl_plus_months, ymwdl_plus_years
    <3>2. held.form = "year_month_weekday_last" /\ held.wd \in Weekday
      BY <3>1, Fields DEF Ymwdl
    <3> QED
      BY <1>6, <1>7, <3>1, <3>2
         DEF year_month_weekday_last, YearMonthWeekdayLast, KeepsForm, Ymd, Ymwd, Ymwdl
  <2> QED
    BY <2>1, <2>2, <2>3, <2>4 DEF Add
<1>12. unit = "months" => m = dmi - dy * 12 + 1 /\ dy = q
  BY DEF m, dy
<1>13. unit = "years" => m = held.m
  BY DEF m
<1> QED
  BY <1>1, <1>3, <1>4, <1>5, <1>7, <1>11, <1>12, <1>13 DEF y, dy, dmi, q

(* What a date becomes some days later.                                    *)
LEMMA LaterTyped ==
    ASSUME NEW k \in Int
    PROVE  ymd_from_days(k) \in YearMonthDay /\ ymwd_from_days(k) \in YearMonthWeekday
<1> DEFINE x == ymd_from_days(k)
<1>1. PICK era, yoe, doy: IsPlace(era, yoe, doy) /\ x = MarchDate(yoe + era * 400, doy)
  BY FromDays
<1> DEFINE mp == MonthOfYear(doy)
           m == IF mp < 10 THEN mp + 3 ELSE mp - 9
           y == yoe + era * 400
<1>2. mp \in Int /\ m \in Int /\ DaysOfMonths(mp) \in Int /\ doy \in Int /\ y \in Int
      /\ doy - DaysOfMonths(mp) + 1 \in Int
  BY <1>1, SMT DEF IsPlace, MonthOfYear, DaysOfMonths
<1>3. x = year_month_day(year_month(year(y + (IF m <= 2 THEN 1 ELSE 0)), month(m)),
                         day(doy - DaysOfMonths(mp) + 1))
  BY <1>1 DEF MarchDate
<1> HIDE DEF mp, m, y
<1>4. y + (IF m <= 2 THEN 1 ELSE 0) \in Int
  BY <1>2, SMT
<1>5. x \in YearMonthDay
  BY <1>2, <1>3, <1>4, FieldsTyped DEF year_month_day, year_month, YearMonthDay
<1>6. ymwd_from_days(k) \in YearMonthWeekday
  <2>1. weekday_indexed(weekday_from_days(k), (x.d - 1) \div 7 + 1) \in WeekdayIndexed
    <3>1. x.d \in Day /\ weekday_from_days(k) \in 0..6
      BY <1>5, FieldsTyped DEF YearMonthDay
    <3> HIDE DEF x
    <3>2. \A w \in 0..6: weekday(w % 16) \in 0..15
      BY SMT DEF weekday
    <3>3. \A n \in Day: ((n - 1) \div 7 + 1) % 16 \in 0..15
      BY SMT DEF Day
    <3> QED
      BY <3>1, <3>2, <3>3, Zenon DEF weekday_indexed, WeekdayIndexed
  <2>2. x.y \in Year /\ x.m \in Month
    BY <1>5 DEF YearMonthDay
  <2> HIDE DEF x
  <2> QED
    BY <2>1, <2>2 DEF ymwd_from_days, year_month_weekday, YearMonthWeekday, x
<1> QED
  BY <1>5, <1>6

(* The program holds a date in one of its forms, and its year stays in the *)
(* bounds (date.hpp:673-945).                                              *)
THEOREM WalkTypeCorrect == Spec => []TypeOK
<1>1. Init => TypeOK
  <2> SUFFICES ASSUME NEW y \in Years, NEW m \in 0..15, NEW d \in 0..31,
                      held = year_month_day(year_month(y, m), d)
               PROVE  TypeOK
    BY DEF Init
  <2>1. m \in Month /\ d \in Day
    BY SMT DEF Month, Day
  <2>2. y \in Year
    <3>1. y \in Int /\ -20000 <= y /\ y <= 20000
      BY YearsAssumption
    <3>2. year(y) = y
      BY <3>1, SMT DEF year
    <3> QED
      BY <3>1, <3>2, FieldsTyped
  <2> QED
    BY <2>1, <2>2 DEF TypeOK, Within, YearMonthDay, year_month_day, year_month
<1>2. TypeOK /\ [Next]_held => TypeOK'
  <2> SUFFICES ASSUME TypeOK, [Next]_held PROVE TypeOK'
    OBVIOUS
  <2>1. ASSUME NEW n \in MonthSteps, NEW unit \in {"months", "years"}, Add(n, unit)
        PROVE  TypeOK'
    <3>1. Within(held')
      BY <2>1 DEF Add
    <3> QED
      BY <2>1, <3>1, AddFields DEF TypeOK, Within
  <2>2. ASSUME NEW n \in DaySteps, ToYmd(n) PROVE TypeOK'
    <3>1. days + n \in Int
      BY DaysBounds, YearsAssumption, SMT
    <3> QED
      BY <2>2, <3>1, LaterTyped DEF ToYmd, TypeOK, Within
  <2>3. ASSUME NEW n \in DaySteps, ToYmwd(n) PROVE TypeOK'
    <3>1. days + n \in Int
      BY DaysBounds, YearsAssumption, SMT
    <3> QED
      BY <2>3, <3>1, LaterTyped DEF ToYmwd, TypeOK, Within
  <2>4. held.y \in Year /\ held.y \in Years /\ held.m \in Month
    BY DEF TypeOK, Within, YearMonthDay, YearMonthDayLast, YearMonthWeekday, YearMonthWeekdayLast
  <2>5. CASE ToLast
    BY <2>4, <2>5 DEF ToLast, TypeOK, Within, year_month_day_last, YearMonthDayLast
  <2>6. CASE ToLastWeekday
    <3>1. weekday_from_days(days) \in Weekday
      BY DaysBounds, FieldsTyped, SMT DEF Weekday
    <3> QED
      BY <2>4, <2>6, <3>1
         DEF ToLastWeekday, TypeOK, Within, year_month_weekday_last, YearMonthWeekdayLast
  <2>7. CASE UNCHANGED held
    BY <2>7 DEF TypeOK, Within
  <2> QED
    BY <2>1, <2>2, <2>3, <2>5, <2>6, <2>7 DEF Next
<1> QED
  BY <1>1, <1>2, PTL DEF Spec
(* Months and years that are added add up, in every form of a date         *)
(* (date.hpp:2064-2109 and its callers).                                   *)
THEOREM MonthsAddUpCorrect == Spec => MonthsAddUp
<1>1. ASSUME TypeOK, NEW n \in MonthSteps, NEW unit \in {"months", "years"}, Add(n, unit)
      PROVE  /\ year_month_minus(held', held) = (IF unit = "months" THEN n ELSE 12 * n)
             /\ unit = "months" => month_ok(held'.m) /\ held'.m = month_plus(held.m, n)
             /\ month_ok(held.m) =>
                    /\ year_month_before(held, held') <=> n > 0
                    /\ month_minus(held'.m, held.m) = (IF unit = "months" THEN n % 12 ELSE 0)
             /\ KeepsForm
  <2> DEFINE dmi == held.m - 1 + n
             dy == IF unit = "months" THEN Quot(IF dmi >= 0 THEN dmi ELSE dmi - 11, 12) ELSE n
             y == held.y
             m == held.m
             y2 == held'.y
             m2 == held'.m
  <2>1. y \in Int /\ m \in Month
    BY <1>1, Fields
  <2>2. /\ dy \in Int /\ n \in Int
        /\ y2 = y + dy /\ m2 \in Month
        /\ unit = "months" => /\ dmi - dy * 12 \in 0..11
                              /\ m2 = dmi - dy * 12 + 1
                              /\ m2 = month_plus(m, n)
        /\ unit = "years" => m2 = m
        /\ KeepsForm
    BY <1>1, AddFields
  <2>3. unit = "years" => dy = n
    BY DEF dy
  <2>4. dmi = m - 1 + n
    OBVIOUS
  <2> HIDE DEF dy, dmi, y, m, y2, m2
  <2>5. year_month_minus(held', held) = 12 * (y2 - y) + (m2 - m)
    BY DEF year_month_minus, y, m, y2, m2
  <2>6. year_month_before(held, held') <=> y < y2 \/ (y = y2 /\ m < m2)
    BY DEF year_month_before, y, m, y2, m2
  <2>7. CASE unit = "months"
    <3>1. m2 \in 1..12 /\ m2 - m = n - dy * 12
      BY <2>1, <2>2, <2>4, <2>7, SMT DEF Month
    <3>2. 12 * (y2 - y) + (m2 - m) = n
      BY <2>1, <2>2, <3>1, SMT DEF Month
    <3>3. ASSUME m \in 1..12
          PROVE  (y < y2 \/ (y = y2 /\ m < m2) <=> n > 0) /\ month_minus(m2, m) = n % 12
      <4>1. y < y2 \/ (y = y2 /\ m < m2) <=> n > 0
        BY <2>1, <2>2, <3>1, <3>3, SMT
      <4>2. \A k \in Int, r \in 0..11: (k * 12 + r) % 12 = r
        BY SMT
      <4>3. CASE m2 >= m
        <5>1. m2 - m \in 0..11 /\ n = dy * 12 + (m2 - m)
          BY <2>1, <2>2, <3>1, <3>3, <4>3, SMT
        <5> QED
          BY <2>2, <4>1, <4>2, <5>1 DEF month_minus
      <4>4. CASE ~(m2 >= m)
        <5>1. m2 - m \notin 0..11 /\ m2 - m + 12 \in 0..11 /\ dy - 1 \in Int
              /\ n = (dy - 1) * 12 + (m2 - m + 12)
          BY <2>1, <2>2, <3>1, <3>3, <4>4, SMT
        <5> QED
          BY <4>1, <4>2, <5>1 DEF month_minus
      <4> QED
        BY <4>3, <4>4
    <3> QED
      BY <2>2, <2>5, <2>6, <2>7, <3>1, <3>2, <3>3 DEF month_ok, m, m2
  <2>8. CASE unit = "years"
    <3>1. 12 * (y2 - y) + (m2 - m) = 12 * n
      BY <2>1, <2>2, <2>3, <2>8, SMT DEF Month
    <3>2. ASSUME m \in 1..12
          PROVE  (y < y2 \/ (y = y2 /\ m < m2) <=> n > 0) /\ month_minus(m2, m) = 0
      <4>1. m2 = m /\ m2 - m = 0
        BY <2>2, <2>8, <3>2, SMT
      <4>2. y < y2 \/ (y = y2 /\ m < m2) <=> n > 0
        BY <2>1, <2>2, <2>3, <2>8, <3>2, <4>1, SMT
      <4>3. 0 \in 0..11
        OBVIOUS
      <4> QED
        BY <4>1, <4>2, <4>3 DEF month_minus
    <3> QED
      BY <2>2, <2>5, <2>6, <2>8, <3>1, <3>2 DEF month_ok, m, m2
  <2> QED
    BY <2>7, <2>8
<1>2. TypeOK /\ [Next]_held =>
          [\A n \in MonthSteps, unit \in {"months", "years"}: Add(n, unit) =>
             /\ year_month_minus(held', held) = (IF unit = "months" THEN n ELSE 12 * n)
             /\ unit = "months" => month_ok(held'.m) /\ held'.m = month_plus(held.m, n)
             /\ month_ok(held.m) =>
                    /\ year_month_before(held, held') <=> n > 0
                    /\ month_minus(held'.m, held.m) = (IF unit = "months" THEN n % 12 ELSE 0)
             /\ KeepsForm]_held
  BY <1>1
<1> QED
  BY <1>2, WalkTypeCorrect, PTL DEF Spec, MonthsAddUp
-----------------------------------------------------------------------------
(* A date that is one has a place, too; its fields tell it.                *)
HasPlace(x, era, yoe, doy) ==
    LET mp == MonthOfYear(doy)
    IN  /\ IsPlace(era, yoe, doy)
        /\ x.m = (IF mp < 10 THEN mp + 3 ELSE mp - 9)
        /\ x.y = yoe + era * 400 + (IF x.m <= 2 THEN 1 ELSE 0)
        /\ x.d = doy - DaysOfMonths(mp) + 1
        /\ ymd_to_days(x) = SerialOf(era, yoe, doy)

LEMMA MonthFound ==
    ASSUME NEW mp \in 0..11, NEW d \in 1..31,
           mp \in {1, 3, 6, 8} => d <= 30, mp = 11 => d <= 29
    PROVE  LET doy == DaysOfMonths(mp) + d - 1
           IN  /\ MonthOfYear(doy) = mp /\ doy \in Int /\ 0 <= doy /\ doy <= 365
               /\ doy = 365 => mp = 11 /\ d = 29
BY SMT DEF MonthOfYear, DaysOfMonths

LEMMA OkHasPlace ==
    ASSUME NEW x, x.y \in Int, -20000 <= x.y, x.y <= 20000, x.m \in Month, x.d \in Day, ymd_ok(x)
    PROVE  \E era, yoe, doy: HasPlace(x, era, yoe, doy)
<1> DEFINE w == x.y - (IF x.m <= 2 THEN 1 ELSE 0)
           era == w \div 400
           yoe == w - era * 400
           mp == IF x.m > 2 THEN x.m - 3 ELSE x.m + 9
           doy == DaysOfMonths(mp) + x.d - 1
<1>1. x.m \in 1..12 /\ x.d \in 1..31
      /\ (x.m \in {4, 6, 9, 11} => x.d <= 30) /\ (x.m = 2 => x.d <= 29)
      /\ (x.m = 2 /\ x.d = 29 => is_leap(x.y))
  <2>1. x.m \in 1..12 /\ x.d \in 1..ymdl_day(x)
    BY DEF ymd_ok, month_ok
  <2>2. CASE x.m = 2 /\ is_leap(x.y)
    BY <2>1, <2>2, SMT DEF ymdl_day, month_ok
  <2>3. CASE x.m = 2 /\ ~is_leap(x.y)
    BY <2>1, <2>3, SMT DEF ymdl_day, month_ok
  <2>4. CASE x.m # 2
    BY <2>1, <2>4, SMT DEF ymdl_day, month_ok
  <2> QED
    BY <2>2, <2>3, <2>4
<1>2. mp \in 0..11 /\ (mp \in {1, 3, 6, 8} => x.d <= 30) /\ (mp = 11 => x.m = 2 /\ x.d <= 29)
      /\ x.m = (IF mp < 10 THEN mp + 3 ELSE mp - 9)
  BY <1>1, SMT
<1>3. w \in Int /\ x.y = w + (IF x.m <= 2 THEN 1 ELSE 0)
  BY <1>1, SMT
<1> HIDE DEF w
<1>4. era \in Int /\ yoe \in Int /\ 0 <= yoe /\ yoe <= 399 /\ w = yoe + era * 400
  BY <1>3, SMT
<1>5. Quot(IF w >= 0 THEN w ELSE w - 399, 400) = era
  BY <1>3, SMT DEF Quot
<1> HIDE DEF mp
<1>6. /\ MonthOfYear(doy) = mp /\ doy \in Int /\ 0 <= doy /\ doy <= 365
      /\ doy = 365 => mp = 11 /\ x.d = 29
  BY <1>1, <1>2, MonthFound
<1>7. doy = 365 => is_leap(yoe + 1)
  <2> SUFFICES ASSUME doy = 365 PROVE is_leap(yoe + 1)
    OBVIOUS
  <2> HIDE DEF doy, era, yoe
  <2>1. x.m = 2 /\ is_leap(x.y)
    BY <1>1, <1>2, <1>6
  <2>2. x.y = (yoe + 1) + era * 400
    BY <1>3, <1>4, <2>1, SMT
  <2> QED
    BY <1>4, <2>1, <2>2, SMT DEF is_leap
<1>8. x.d = doy - DaysOfMonths(mp) + 1
  <2>1. DaysOfMonths(mp) \in Int
    BY <1>2, SMT DEF DaysOfMonths
  <2> QED
    BY <1>1, <2>1, SMT
<1>9. ymd_to_days(x) = era * 146097 + (DaysOfYears(yoe) + doy) - 719468
  BY <1>5 DEF ymd_to_days, w, mp
<1> HIDE DEF doy, era, yoe
<1>10. ymd_to_days(x) = SerialOf(era, yoe, doy)
  <2>1. DaysOfYears(yoe) \in Int
    BY <1>4, SMT DEF DaysOfYears
  <2> QED
    BY <1>4, <1>6, <1>9, <2>1, SMT DEF SerialOf
<1>11. x.y = yoe + era * 400 + (IF x.m <= 2 THEN 1 ELSE 0)
  BY <1>3, <1>4
<1> QED
  BY <1>2, <1>4, <1>6, <1>7, <1>8, <1>10, <1>11 DEF HasPlace, IsPlace

LEMMA LaterHasPlace ==
    ASSUME NEW n \in Int, -10500000 <= n + 719468, n + 719468 <= 10500000
    PROVE  \E era, yoe, doy: HasPlace(ymd_from_days(n), era, yoe, doy)
<1> DEFINE x == ymd_from_days(n)
<1>1. PICK era, yoe, doy:
          /\ IsPlace(era, yoe, doy)
          /\ n = SerialOf(era, yoe, doy)
          /\ x = MarchDate(yoe + era * 400, doy)
  BY FromDays
<1>2. -32767 < yoe + era * 400 /\ yoe + era * 400 < 32766
  BY <1>1, SerialBounds
<1> DEFINE mp == MonthOfYear(doy)
           m == IF mp < 10 THEN mp + 3 ELSE mp - 9
           y == yoe + era * 400 + (IF m <= 2 THEN 1 ELSE 0)
<1>3. -32767 <= y /\ y <= 32767
  BY <1>1, <1>2, SMT DEF IsPlace
<1>4. /\ ymd_to_days(x) = SerialOf(era, yoe, doy)
      /\ x.y = y /\ x.m = m /\ x.d = doy - DaysOfMonths(mp) + 1
  <2> HIDE DEF mp, m, y, x
  <2>1. mp = MonthOfYear(doy) /\ m = (IF mp < 10 THEN mp + 3 ELSE mp - 9)
        /\ y = yoe + era * 400 + (IF m <= 2 THEN 1 ELSE 0)
    BY DEF mp, m, y
  <2> QED
    BY <1>1, <1>3, <2>1, ToDays
<1> QED
  BY <1>1, <1>4 DEF HasPlace

(* The order of dates is that of their days, and so are distances within a *)
(* month.                                                                  *)
LEMMA PlaceOrder ==
    ASSUME NEW x, NEW era, NEW yoe, NEW doy, HasPlace(x, era, yoe, doy),
           NEW z, NEW era2, NEW yoe2, NEW doy2, HasPlace(z, era2, yoe2, doy2)
    PROVE  /\ ymd_before(x, z) <=> ymd_to_days(x) < ymd_to_days(z)
           /\ z.y = x.y /\ z.m = x.m => z.d - x.d = ymd_to_days(z) - ymd_to_days(x)
<1> DEFINE mp == MonthOfYear(doy)
           mp2 == MonthOfYear(doy2)
           d == x.d
           d2 == z.d
           Y == yoe + era * 400
           Y2 == yoe2 + era2 * 400
<1>1. /\ mp \in 0..11 /\ d \in 1..31 /\ d = doy - DaysOfMonths(mp) + 1 /\ doy \in Int
      /\ mp2 \in 0..11 /\ d2 \in 1..31 /\ d2 = doy2 - DaysOfMonths(mp2) + 1 /\ doy2 \in Int
      /\ DaysOfMonths(mp) \in Int /\ DaysOfMonths(mp2) \in Int
  <2>1. mp \in 0..11 /\ mp2 \in 0..11
    BY MonthsOfYear, SMT DEF HasPlace, IsPlace
  <2>2. DaysOfMonths(mp) \in Int /\ DaysOfMonths(mp2) \in Int
    <3> HIDE DEF mp, mp2
    <3> QED
      BY <2>1, SMT DEF DaysOfMonths
  <2>3. d \in 1..31 /\ d2 \in 1..31
    BY MonthsOfYear DEF HasPlace, IsPlace
  <2> QED
    BY <2>1, <2>2, <2>3 DEF HasPlace, IsPlace
<1>2. doy < doy2 <=> mp < mp2 \/ (mp = mp2 /\ d < d2)
  <2>1. mp < mp2 => doy < doy2
    BY <1>1, SMT DEF MonthOfYear
  <2>2. mp2 < mp => doy2 < doy
    BY <1>1, SMT DEF MonthOfYear
  <2> HIDE DEF mp, mp2, d, d2
  <2>3. mp = mp2 => (doy < doy2 <=> d < d2)
    BY <1>1, SMT
  <2> QED
    BY <1>1, <2>1, <2>2, <2>3, SMT
<1>3. /\ Y \in Int /\ x.m = (IF mp < 10 THEN mp + 3 ELSE mp - 9)
      /\ x.y = Y + (IF x.m <= 2 THEN 1 ELSE 0)
      /\ Y2 \in Int /\ z.m = (IF mp2 < 10 THEN mp2 + 3 ELSE mp2 - 9)
      /\ z.y = Y2 + (IF z.m <= 2 THEN 1 ELSE 0)
  BY SMT DEF HasPlace, IsPlace
<1>4. ymd_before(x, z) <=> x.y < z.y \/ (x.y = z.y /\ (x.m < z.m \/ (x.m = z.m /\ d < d2)))
  BY DEF ymd_before, month_day_before
<1>5. ymd_to_days(x) < ymd_to_days(z) <=> Y < Y2 \/ (Y = Y2 /\ doy < doy2)
  BY SerialOrder DEF HasPlace
<1> HIDE DEF mp, mp2, d, d2, Y, Y2
<1>6. ymd_before(x, z) <=> ymd_to_days(x) < ymd_to_days(z)
  BY <1>1, <1>2, <1>3, <1>4, <1>5, SMT
<1>7. ASSUME z.y = x.y, z.m = x.m
      PROVE  z.d - x.d = ymd_to_days(z) - ymd_to_days(x)
  <2>1. mp = mp2 /\ Y = Y2
    BY <1>1, <1>3, <1>7, SMT
  <2>2. era = era2 /\ yoe = yoe2
    BY <2>1, SMT DEF HasPlace, IsPlace, Y, Y2
  <2>3. d2 - d = doy2 - doy
    BY <1>1, <2>1, SMT
  <2>4. SerialOf(era, yoe, doy2) - SerialOf(era, yoe, doy) = doy2 - doy
    <3>1. DaysOfYears(yoe) \in Int
      BY SMT DEF HasPlace, IsPlace, DaysOfYears
    <3> QED
      BY <1>1, <3>1, SMT DEF SerialOf, HasPlace, IsPlace
  <2> QED
    BY <2>2, <2>3, <2>4 DEF HasPlace, d, d2
<1> QED
  BY <1>6, <1>7
-----------------------------------------------------------------------------
(* Weekdays.                                                               *)
LEMMA WeekdayOfDay ==
    ASSUME NEW z \in Int
    PROVE  weekday_from_days(z) = (z + 4) % 7
BY SMT DEF weekday_from_days

LEMMA WeekdayPlus ==
    ASSUME NEW z \in Int, NEW n \in Int, -1000000 <= n, n <= 1000000
    PROVE  weekday_plus(weekday_from_days(z), n) = weekday_from_days(z + n)
<1> DEFINE wd == weekday_from_days(z)
           w == wd + n
<1>1. wd = (z + 4) % 7 /\ wd \in 0..6
  BY WeekdayOfDay, SMT
<1>2. w % 7 = (z + n + 4) % 7
  BY <1>1, SMT
<1>3. w \in Int
  BY <1>1, SMT
<1>4. weekday_from_days(z + n) = (z + n + 4) % 7
  <2>1. z + n \in Int
    BY SMT
  <2> QED
    BY <2>1, WeekdayOfDay
<1>5. weekday_plus(wd, n) = weekday(w - Quot(IF w >= 0 THEN w ELSE w - 6, 7) * 7)
  BY DEF weekday_plus
<1> HIDE DEF w, wd
<1>6. Quot(IF w >= 0 THEN w ELSE w - 6, 7) = w \div 7
  BY <1>3, SMT DEF Quot
<1>7. w - (w \div 7) * 7 = w % 7 /\ w % 7 \in 0..6
  BY <1>3, SMT
<1>8. weekday(w % 7) = w % 7
  BY <1>7, SMT DEF weekday
<1> QED
  BY <1>2, <1>4, <1>5, <1>6, <1>7, <1>8 DEF wd

LEMMA YearIsInt == ASSUME NEW y \in Year PROVE y \in Int
BY SMT DEF Year

(* The first of a month, from any day of it.                               *)
LEMMA FirstDay ==
    ASSUME NEW x \in YearMonthDay, NEW n \in Int, ymd_to_days(x) = n
    PROVE  FirstOf(x) = n - x.d + 1
<1> DEFINE y == x.y - (IF x.m <= 2 THEN 1 ELSE 0)
           era == Quot(IF y >= 0 THEN y ELSE y - 399, 400)
           mp == IF x.m > 2 THEN x.m - 3 ELSE x.m + 9
           a == era * 146097
           b == DaysOfYears(y - era * 400)
           c == DaysOfMonths(mp)
<1>1. x.d \in Int /\ x.m \in Int /\ x.y \in Int
  <2>1. x.d \in Day /\ x.m \in Month /\ x.y \in Year
    BY DEF YearMonthDay
  <2> QED
    BY <2>1, YearIsInt, SMT DEF Day, Month
<1>2. mp \in Int /\ y \in Int
  BY <1>1, SMT
<1>3. era \in Int
  <2>1. (IF y >= 0 THEN y ELSE y - 399) \in Int
    BY <1>2, SMT
  <2> HIDE DEF y
  <2> QED
    BY <2>1, QuotTyped, SMT
<1>4. a \in Int /\ b \in Int /\ c \in Int
  <2> HIDE DEF mp, y, era
  <2> QED
    BY <1>2, <1>3, SMT DEF DaysOfYears, DaysOfMonths
<1>5. ymd_to_days(x) = a + (b + (c + x.d - 1)) - 719468
  BY DEF ymd_to_days
<1>6. FirstOf(x) = a + (b + (c + 1 - 1)) - 719468
  BY DEF ymd_to_days, FirstOf, year_month_day
<1> HIDE DEF a, b, c
<1> QED
  BY <1>1, <1>4, <1>5, <1>6, SMT

(* A day told as a weekday of its month is that day.                       *)
LEMMA WeekdayOfMonth ==
    ASSUME NEW n \in Int, -10500000 <= n + 719468, n + 719468 <= 10500000
    PROVE  ymwd_to_days(ymwd_from_days(n)) = n
<1> DEFINE x == ymd_from_days(n)
           z == ymwd_from_days(n)
           wd == weekday_from_days(n)
           first == FirstOf(x)
<1>1. x \in YearMonthDay /\ ymd_to_days(x) = n /\ ymd_ok(x)
  BY LaterTyped, DaysInverse
<1>2. first = n - x.d + 1
  BY <1>1, FirstDay
<1>3. x.d \in 1..31
  <2>1. x.d \in 1..ymdl_day(x)
    BY <1>1 DEF ymd_ok
  <2>2. ymdl_day(x) \in Int /\ ymdl_day(x) <= 31
    <3> HIDE DEF x
    <3> QED
      BY SMT DEF ymdl_day
  <2> HIDE DEF x
  <2> QED
    BY <2>1, <2>2, SMT
<1> DEFINE d == x.d
<1>4. z = year_month_weekday(x, weekday_indexed(wd, (d - 1) \div 7 + 1))
  BY DEF ymwd_from_days
<1>5. FirstOf(z) = first
  BY <1>4 DEF FirstOf, year_month_weekday, year_month_day
<1> HIDE DEF x, z, first, d
<1>6. first \in Int /\ first = n - d + 1 /\ d \in 1..31
  BY <1>2, <1>3, SMT DEF d
<1>7. wd = (n + 4) % 7 /\ wd \in 0..6 /\ weekday_from_days(first) = (first + 4) % 7
      /\ weekday_from_days(first) \in 0..6
  BY <1>6, WeekdayOfDay, FieldsTyped
<1> HIDE DEF wd
<1>8. z.wdi.wd = wd /\ z.wdi.index = (d - 1) \div 7 + 1
  <2>1. weekday(wd % 16) = wd /\ ((d - 1) \div 7 + 1) % 16 = (d - 1) \div 7 + 1
    BY <1>6, <1>7, SMT DEF weekday
  <2> QED
    BY <1>4, <2>1 DEF year_month_weekday, weekday_indexed
<1>9. weekday_minus(wd, weekday_from_days(first)) = (wd - weekday_from_days(first)) % 7
  <2>1. \A k \in 0..6: k \in Weekday
    BY SMT DEF Weekday
  <2> QED
    BY <1>7, <2>1, WeekdayMinus
<1> DEFINE f == weekday_from_days(first)
<1> HIDE DEF f
<1>10. (wd - f) % 7 = (d - 1) % 7
  <2>1. PICK a \in Int: n + 4 = 7 * a + wd
    BY <1>7, SMT
  <2>2. PICK b \in Int: first + 4 = 7 * b + f
    BY <1>6, <1>7, SMT DEF f
  <2>3. wd - f = (d - 1) + 7 * (b - a)
    BY <1>6, <1>7, <2>1, <2>2, SMT DEF f
  <2>4. \A i, c \in Int: (i + 7 * c) % 7 = i % 7
    BY SMT
  <2>5. d - 1 \in Int /\ b - a \in Int
    BY <1>6, SMT
  <2> QED
    BY ONLY <2>3, <2>4, <2>5
<1> DEFINE i == d - 1
           q == i \div 7
           r == i % 7
<1>11. ymwd_to_days(z) = first + weekday_minus(wd, f) + (z.wdi.index - 1) * 7
  BY ONLY <1>5, <1>8 DEF ymwd_to_days, f
<1>12. weekday_minus(wd, f) = r /\ z.wdi.index = q + 1
  BY ONLY <1>8, <1>9, <1>10 DEF f
<1>13. first + r + (q + 1 - 1) * 7 = n /\ r \in Int /\ q \in Int
  <2>1. i \in Int /\ first = n - i
    BY <1>6, SMT
  <2> HIDE DEF i
  <2>2. q \in Int /\ r \in Int /\ i = 7 * q + r
    BY <2>1, SMT
  <2> HIDE DEF q, r
  <2> QED
    BY <2>1, <2>2, SMT
<1> HIDE DEF i, q, r
<1>14. ymwd_to_days(z) = n
  <2> DEFINE w == weekday_minus(wd, f)
             k == z.wdi.index
  <2>1. ymwd_to_days(z) = first + w + (k - 1) * 7 /\ w = r /\ k = q + 1
    BY ONLY <1>11, <1>12
  <2> HIDE DEF w, k
  <2> QED
    BY <1>6, <1>13, <2>1, SMT
<1> QED
  BY ONLY <1>14 DEF z

(* Days that are added go on, in either form, and so do the weekdays and   *)
(* the order of the dates (date.hpp:2559-2704, 2752-2845).                 *)
THEOREM DaysGoOnCorrect == Spec => DaysGoOn
<1>1. ASSUME TypeOK, NEW n \in DaySteps, ToYmd(n) \/ ToYmwd(n)
      PROVE  /\ days' = days + n
             /\ weekday_from_days(days') = weekday_plus(weekday_from_days(days), n)
             /\ ok /\ Ymd /\ Ymd' =>
                    /\ ymd_before(held, held') <=> n > 0
                    /\ held'.y = held.y /\ held'.m = held.m => held'.d = day_plus(held.d, n)
  <2> DEFINE k == days + n
  <2>1. n \in Int /\ -1000000 <= n /\ n <= 1000000 /\ days \in Int
        /\ -8000000 <= days + 719468 /\ days + 719468 <= 8000000
    BY <1>1, DaysBounds, YearsAssumption, SMT
  <2>2. k \in Int /\ -10500000 <= k + 719468 /\ k + 719468 <= 10500000
    BY <2>1, SMT
  <2>3. days' = k
    <3>1. CASE ToYmd(n)
      <4>1. held' = ymd_from_days(k) /\ Ymd'
        BY <3>1 DEF ToYmd, Ymd, ymd_from_days, MarchDate, year_month_day
      <4>2. days' = ymd_to_days(held')
        BY <4>1 DEF days, Ymd, Ymdl, Ymwd, Ymwdl
      <4> HIDE DEF k
      <4> QED
        BY <2>2, <4>1, <4>2, DaysInverse
    <3>2. CASE ToYmwd(n)
      <4>1. held' = ymwd_from_days(k) /\ Ymwd'
        BY <3>2 DEF ToYmwd, Ymwd, ymwd_from_days, year_month_weekday
      <4>2. days' = ymwd_to_days(held')
        BY <4>1 DEF days, Ymd, Ymdl, Ymwd, Ymwdl
      <4> HIDE DEF k
      <4> QED
        BY <2>2, <4>1, <4>2, WeekdayOfMonth
    <3> QED
      BY <1>1, <3>1, <3>2
  <2>4. weekday_from_days(days') = weekday_plus(weekday_from_days(days), n)
    BY <2>1, <2>3, WeekdayPlus
  <2>5. ASSUME ok, Ymd, Ymd'
        PROVE  /\ ymd_before(held, held') <=> n > 0
               /\ held'.y = held.y /\ held'.m = held.m => held'.d = day_plus(held.d, n)
    <3>1. held' = ymd_from_days(k)
      <4>1. ~ToYmwd(n)
        BY <2>5 DEF ToYmwd, ymwd_from_days, year_month_weekday, Ymd
      <4> QED
        BY <1>1, <4>1 DEF ToYmd
    <3>2. ymd_ok(held) /\ days = ymd_to_days(held)
      BY <2>5 DEF ok, days, Ymd, Ymdl, Ymwd, Ymwdl
    <3>3. PICK era, yoe, doy: HasPlace(held, era, yoe, doy)
      <4>1. /\ held.y \in Int /\ -20000 <= held.y /\ held.y <= 20000
            /\ held.m \in Month /\ held.d \in Day
        BY <1>1, <2>5, Fields
      <4> QED
        BY <3>2, <4>1, OkHasPlace, SMT
    <3>4. PICK era2, yoe2, doy2: HasPlace(held', era2, yoe2, doy2)
      <4> HIDE DEF k
      <4> QED
        BY <2>2, <3>1, LaterHasPlace, SMT
    <3>5. ymd_to_days(held') = k
      <4> HIDE DEF k
      <4> QED
        BY <2>2, <3>1, DaysInverse, SMT
    <3>6. ymd_before(held, held') <=> days < k
      BY <3>2, <3>3, <3>4, <3>5, PlaceOrder
    <3>7. held'.y = held.y /\ held'.m = held.m => held'.d - held.d = k - days
      BY <3>2, <3>3, <3>4, <3>5, PlaceOrder
    <3>8. held.d \in Day /\ held'.d \in Day
      <4> HIDE DEF k
      <4> QED
        BY <1>1, <2>2, <2>5, <3>1, Fields, LaterTyped, SMT DEF YearMonthDay
    <3>9. days < k <=> n > 0
      BY <2>1, SMT
    <3>10. held'.d - held.d = k - days => held'.d = day_plus(held.d, n)
      <4> DEFINE d == held.d
                 d2 == held'.d
      <4>1. d \in Day /\ d2 \in Day
        BY <3>8
      <4> HIDE DEF d, d2
      <4>2. d2 - d = k - days => d2 = d + n
        BY <2>1, <4>1, SMT DEF Day
      <4>3. d2 % 256 = d2
        BY <4>1, SMT DEF Day
      <4> QED
        BY <4>2, <4>3 DEF day_plus, day, d, d2
    <3> QED
      BY <3>6, <3>7, <3>9, <3>10
  <2> QED
    BY <2>3, <2>4, <2>5
<1>2. TypeOK /\ [Next]_held =>
          [\A n \in DaySteps: ToYmd(n) \/ ToYmwd(n) =>
               /\ days' = days + n
               /\ weekday_from_days(days') = weekday_plus(weekday_from_days(days), n)
               /\ ok /\ Ymd /\ Ymd' =>
                      /\ ymd_before(held, held') <=> n > 0
                      /\ held'.y = held.y /\ held'.m = held.m => held'.d = day_plus(held.d, n)]_held
  BY <1>1
<1> QED
  BY <1>2, WalkTypeCorrect, PTL DEF Spec, DaysGoOn

-----------------------------------------------------------------------------
(* The calendar of MeansItsDay, by the lengths of its years and months.    *)

\* The days of a common year before a month.
CommonDays(m) == CASE m = 1 -> 0 [] m = 2 -> 31 [] m = 3 -> 59 [] m = 4 -> 90 [] m = 5 -> 120
                   [] m = 6 -> 151 [] m = 7 -> 181 [] m = 8 -> 212 [] m = 9 -> 243
                   [] m = 10 -> 273 [] m = 11 -> 304 [] OTHER -> 334
LeapDay(y) == IF Leap(y) THEN 1 ELSE 0

LEMMA LengthsSum ==
    ASSUME NEW y \in Int, NEW m \in 1..12
    PROVE  LengthsBefore(y, m) = CommonDays(m) + (IF m > 2 THEN LeapDay(y) ELSE 0)
<1> DEFINE Total(k) == CommonDays(k) + (IF k > 2 THEN LeapDay(y) ELSE 0)
           Sums(f) == f = [k \in 1..m |-> IF k = 1 THEN 0 ELSE f[k - 1] + Length(y, k - 1)]
           g == [k \in 1..m |-> Total(k)]
<1>1. Total(1) = 0 /\ \A k \in 2..12: Total(k) = Total(k - 1) + Length(y, k - 1)
  <2>1. LeapDay(y) \in {0, 1} /\ (LeapDay(y) = 1 <=> Leap(y))
    BY DEF LeapDay
  <2> QED
    BY <2>1, SMT DEF CommonDays, Length
<1> HIDE DEF Total
<1>2. Sums(g)
  <2>1. ASSUME NEW k \in 1..m
        PROVE  g[k] = IF k = 1 THEN 0 ELSE g[k - 1] + Length(y, k - 1)
    <3>1. k # 1 => k - 1 \in 1..m /\ k \in 2..12
      OBVIOUS
    <3> QED
      BY <1>1, <3>1
  <2> QED
    BY <2>1
<1>3. LengthsBefore(y, m) = (CHOOSE f: Sums(f))[m]
  BY DEF LengthsBefore
<1> DEFINE f == CHOOSE f: Sums(f)
<1>4. Sums(f)
  BY <1>2
<1> HIDE DEF g
<1>5. \A k \in 1..m: f[k] = IF k = 1 THEN 0 ELSE f[k - 1] + Length(y, k - 1)
  BY <1>4
<1> HIDE DEF f
<1>6. \A k \in 1..m: f[k] = Total(k)
  <2> DEFINE P(k) == k \in 1..m => f[k] = Total(k)
  <2>1. P(1)
    BY <1>1, <1>5
  <2>2. \A k \in 2..12: P(k - 1) => P(k)
    <3> SUFFICES ASSUME NEW k \in 2..12, P(k - 1), k \in 1..m PROVE f[k] = Total(k)
      OBVIOUS
    <3>1. k - 1 \in 1..m /\ k # 1
      OBVIOUS
    <3> QED
      BY <1>1, <1>5, <3>1
  <2> HIDE DEF P
  <2>3. P(1) /\ P(2) /\ P(3) /\ P(4) /\ P(5) /\ P(6) /\ P(7) /\ P(8) /\ P(9) /\ P(10) /\ P(11) /\ P(12)
    <3>1. \A k \in 1..11: P(k) => P(k + 1)
      <4> SUFFICES ASSUME NEW k \in 1..11, P(k) PROVE P(k + 1)
        OBVIOUS
      <4>1. k + 1 \in 2..12 /\ (k + 1) - 1 = k
        OBVIOUS
      <4> QED
        BY <2>2, <4>1
    <3> QED
      BY <2>1, <3>1
  <2>4. \A k \in 1..12: P(k)
    BY <2>3
  <2> QED
    BY <2>4 DEF P
<1>7. LengthsBefore(y, m) = f[m]
  BY <1>3 DEF f
<1> QED
  BY <1>6, <1>7 DEF Total

LEMMA LeapYears ==
    ASSUME NEW y \in Int
    PROVE  /\ LeapYearsTo(y) \in Int /\ LeapDay(y) \in {0, 1}
           /\ LeapYearsTo(y) = LeapYearsTo(y - 1) + LeapDay(y)
           /\ Leap(y) <=> is_leap(y)
<1>1. Leap(y) <=> is_leap(y)
  BY SMT DEF Leap, is_leap
<1>2. y \div 4 - (y - 1) \div 4 = IF y % 4 = 0 THEN 1 ELSE 0
  BY SMT
<1>3. y \div 100 - (y - 1) \div 100 = IF y % 100 = 0 THEN 1 ELSE 0
  BY SMT
<1>4. y \div 400 - (y - 1) \div 400 = IF y % 400 = 0 THEN 1 ELSE 0
  BY SMT
<1>5. (y % 400 = 0 => y % 100 = 0) /\ (y % 100 = 0 => y % 4 = 0)
  BY SMT
<1> DEFINE a == y \div 4 b == y \div 100 c == y \div 400
           a1 == (y - 1) \div 4 b1 == (y - 1) \div 100 c1 == (y - 1) \div 400
<1>6. a \in Int /\ b \in Int /\ c \in Int /\ a1 \in Int /\ b1 \in Int /\ c1 \in Int
  BY SMT
<1>7. LeapYearsTo(y) = a - b + c /\ LeapYearsTo(y - 1) = a1 - b1 + c1
  BY DEF LeapYearsTo
<1> HIDE DEF a, b, c, a1, b1, c1
<1>8. /\ a - a1 = IF y % 4 = 0 THEN 1 ELSE 0
      /\ b - b1 = IF y % 100 = 0 THEN 1 ELSE 0
      /\ c - c1 = IF y % 400 = 0 THEN 1 ELSE 0
  BY <1>2, <1>3, <1>4 DEF a, b, c, a1, b1, c1
<1>9. LeapDay(y) = (a - a1) - (b - b1) + (c - c1)
  BY <1>5, <1>8 DEF LeapDay, Leap
<1> QED
  BY <1>1, <1>6, <1>7, <1>9, SMT DEF LeapDay

(* The days of the years, counted in eras or by the leap years.            *)
EraOf(w) == w \div 400
EraDays(w) == EraOf(w) * 146097 + DaysOfYears(w - EraOf(w) * 400)

LEMMA YearsOfEras ==
    ASSUME NEW w \in Int
    PROVE  /\ EraOf(w) \in Int /\ DaysOfYears(w - EraOf(w) * 400) \in Int
           /\ EraDays(w) \in Int /\ EraDays(w) = 365 * w + LeapYearsTo(w)
<1> DEFINE era == EraOf(w)
           yoe == w - era * 400
           a == yoe \div 4
           b == yoe \div 100
<1>1. era \in Int /\ yoe \in Int /\ 0 <= yoe /\ yoe <= 399 /\ w = 400 * era + yoe
  BY SMT DEF EraOf
<1> HIDE DEF yoe
<1>2. a \in Int /\ b \in Int
  BY <1>1, SMT
<1>3. w \div 4 = 100 * era + a /\ w \div 100 = 4 * era + b
  BY <1>1, SMT
<1>4. DaysOfYears(yoe) = yoe * 365 + a - b
  BY Zenon DEF DaysOfYears
<1>5. LeapYearsTo(w) = (100 * era + a) - (4 * era + b) + era
  BY <1>3, SMT DEF LeapYearsTo, EraOf
<1> HIDE DEF a, b, era
<1>6. DaysOfYears(yoe) \in Int
  BY <1>1, <1>2, <1>4, SMT
<1>7. EraDays(w) = era * 146097 + DaysOfYears(yoe)
  BY SMT DEF EraDays, yoe, era
<1> QED
  BY <1>1, <1>2, <1>4, <1>5, <1>6, <1>7, SMT DEF yoe, era

LEMMA ToDaysByEras ==
    ASSUME NEW x, x.y \in Int, x.m \in 1..12, x.d \in Int
    PROVE  LET w == x.y - (IF x.m <= 2 THEN 1 ELSE 0)
           IN  ymd_to_days(x)
                 = EraDays(w) + DaysOfMonths(IF x.m > 2 THEN x.m - 3 ELSE x.m + 9) + x.d - 1 - 719468
<1> DEFINE w == x.y - (IF x.m <= 2 THEN 1 ELSE 0)
           c == DaysOfMonths(IF x.m > 2 THEN x.m - 3 ELSE x.m + 9)
           D == DaysOfYears(w - EraOf(w) * 400)
           E == EraOf(w) * 146097
<1>1. w \in Int
  BY SMT
<1>2. c \in Int
  BY SMT DEF DaysOfMonths
<1>3. ymd_to_days(x) = E + (D + (c + x.d - 1)) - 719468
  <2>1. Quot(IF w >= 0 THEN w ELSE w - 399, 400) = EraOf(w)
    <3> HIDE DEF w
    <3> QED
      BY <1>1, SMT DEF Quot, EraOf
  <2> QED
    BY <2>1, SMT DEF ymd_to_days
<1> HIDE DEF w, c
<1>4. D \in Int /\ EraOf(w) \in Int /\ EraDays(w) = E + D
  BY <1>1, YearsOfEras, SMT DEF EraDays
<1>5. E \in Int
  BY <1>4, SMT
<1> HIDE DEF D, E
<1>6. ymd_to_days(x) = EraDays(w) + c + x.d - 1 - 719468
  BY <1>2, <1>3, <1>4, <1>5, SMT
<1> QED
  BY <1>6, SMT DEF w, c

LEMMA ToDaysIsSerial ==
    ASSUME NEW x, x.y \in Int, x.m \in 1..12, x.d \in Int
    PROVE  ymd_to_days(x) = Serial(x.y, x.m, x.d)
<1> DEFINE y == x.y
           m == x.m
           d == x.d
           w == y - (IF m <= 2 THEN 1 ELSE 0)
           c == DaysOfMonths(IF m > 2 THEN m - 3 ELSE m + 9)
           L == LeapYearsTo(y - 1)
           l == LeapDay(y)
           k == CommonDays(m)
<1>1. y \in Int /\ m \in 1..12 /\ d \in Int /\ w \in Int
  BY SMT
<1>2. ymd_to_days(x) = EraDays(w) + c + d - 1 - 719468
  BY ToDaysByEras, SMT
<1>3. w = (IF m > 2 THEN y ELSE y - 1)
  BY <1>1, SMT
<1>4. c = k + (IF m > 2 THEN -59 ELSE 306) /\ k \in Int
  BY <1>1, SMT DEF DaysOfMonths, CommonDays
<1> HIDE DEF w, c, k
<1>5. EraDays(w) \in Int /\ EraDays(w) = 365 * w + LeapYearsTo(w)
  BY <1>1, YearsOfEras, SMT
<1>6. L \in Int /\ l \in Int /\ LeapYearsTo(y) = L + l
  <2>1. y - 1 \in Int
    BY <1>1, SMT
  <2> HIDE DEF y
  <2> QED
    BY <1>1, <2>1, LeapYears, SMT
<1>7. LeapYearsTo(w) = (IF m > 2 THEN L + l ELSE L)
  BY <1>3, <1>6, Zenon
<1>8. Serial(y, m, d) = 365 * (y - 1970) + L - 477 + (k + (IF m > 2 THEN l ELSE 0)) + d - 1
  <2>1. LeapYearsTo(1969) = 477
    BY SMT DEF LeapYearsTo
  <2>2. LengthsBefore(y, m) = k + (IF m > 2 THEN l ELSE 0)
    BY <1>1, LengthsSum, Zenon DEF k
  <2> HIDE DEF L, l
  <2> QED
    BY <2>1, <2>2, SMT DEF Serial, L
<1> HIDE DEF y, m, d, L, l
<1>9. ymd_to_days(x) = Serial(y, m, d)
  <2>1. CASE m > 2
    BY <1>1, <1>2, <1>3, <1>4, <1>5, <1>6, <1>7, <1>8, <2>1, SMT
  <2>2. CASE ~(m > 2)
    BY <1>1, <1>2, <1>3, <1>4, <1>5, <1>6, <1>7, <1>8, <2>2, SMT
  <2> QED
    BY <2>1, <2>2
<1> QED
  BY <1>9 DEF y, m, d

(* Serial numbers count the days of a month.                               *)
LEMMA SerialCounts ==
    ASSUME NEW y \in Int, NEW m \in 1..12, NEW d \in Int
    PROVE  Serial(y, m, d) = Serial(y, m, 1) + d - 1 /\ Serial(y, m, d) \in Int
<1> DEFINE A == 365 * (y - 1970)
           B == LeapYearsTo(y - 1)
           C == LeapYearsTo(1969)
           D == LengthsBefore(y, m)
<1>1. A \in Int /\ B \in Int /\ C \in Int
  BY LeapYears, SMT
<1>2. D \in Int
  BY LengthsSum, SMT DEF CommonDays, LeapDay
<1>3. Serial(y, m, d) = A + B - C + D + d - 1 /\ Serial(y, m, 1) = A + B - C + D + 1 - 1
  BY DEF Serial
<1> HIDE DEF A, B, C, D
<1> QED
  BY <1>1, <1>2, <1>3, SMT

LEMMA LastDay ==
    ASSUME NEW x, x.y \in Int, x.m \in 1..12
    PROVE  ymdl_day(x) = Length(x.y, x.m) /\ Length(x.y, x.m) \in 28..31
BY LeapYears, SMT DEF ymdl_day, Length, month_ok

LEMMA WeekdayOfDays ==
    ASSUME NEW z \in Int
    PROVE  weekday_from_days(z) = (z + 4) % 7 /\ weekday_from_days(z) \in 0..6
BY SMT DEF weekday_from_days

(* The days of a weekday, by the weekday of the first and of the last.     *)
LEMMA WeekdaysOfMonth ==
    ASSUME NEW y \in Int, NEW m \in 1..12, NEW wd \in Weekday
    PROVE  LET S == DaysOfWeekday(y, m, wd)
               L == Length(y, m)
           IN  /\ S \subseteq 1..L
               /\ wd > 6 => S = {}
               /\ wd <= 6 => \A d \in 1..L:
                    /\ d \in S <=> (d - 1) % 7 = (wd - weekday_from_days(Serial(y, m, 1))) % 7
                    /\ d \in S <=> (L - d) % 7 = (weekday_from_days(Serial(y, m, L)) - wd) % 7
<1> DEFINE S == DaysOfWeekday(y, m, wd)
           L == Length(y, m)
           F == Serial(y, m, 1)
<1>1. S \subseteq 1..L
  BY DEF DaysOfWeekday
<1>2. L \in Int
  BY SMT DEF Length
<1>3. F \in Int
  <2>1. 1 \in Int
    BY SMT
  <2> QED
    BY <2>1, SerialCounts, Zenon
<1>4. \A d \in Int: Serial(y, m, d) = F + d - 1
  BY SerialCounts, Zenon
<1>5. \A d \in 1..L: d \in S <=> (Serial(y, m, d) + 4) % 7 = wd
  BY Zenon DEF DaysOfWeekday
<1> HIDE DEF F, S, L
<1>6. wd > 6 => S = {}
  <2>1. ASSUME wd > 6, NEW d \in S PROVE FALSE
    <3>1. d \in 1..L /\ d \in Int
      BY <1>1, <1>2, SMT
    <3>2. (F + d - 1 + 4) % 7 = wd
      BY <1>4, <1>5, <3>1, Zenon
    <3> QED
      BY <1>3, <2>1, <3>1, <3>2, SMT
  <2> QED
    BY <2>1
<1>7. ASSUME wd <= 6, NEW d \in 1..L
      PROVE  /\ d \in S <=> (d - 1) % 7 = (wd - weekday_from_days(F)) % 7
             /\ d \in S <=> (L - d) % 7 = (weekday_from_days(Serial(y, m, L)) - wd) % 7
  <2>1. wd \in 0..6 /\ d \in Int
    BY <1>2, <1>7, SMT DEF Weekday
  <2>2. d \in S <=> (F + d - 1 + 4) % 7 = wd
    BY <1>4, <1>5, <2>1, Zenon
  <2> DEFINE s1 == F + 4
             n1 == d - 1
             s2 == F + L - 1 + 4
             n2 == L - d
  <2>3. /\ F + d - 1 + 4 = s1 + n1 /\ F + d - 1 + 4 = s2 - n2
        /\ s1 \in Int /\ n1 \in Int /\ s2 \in Int /\ n2 \in Int
    BY <1>2, <1>3, <2>1, SMT
  <2>4. weekday_from_days(F) = s1 % 7
    BY <1>3, WeekdayOfDays
  <2>5. weekday_from_days(Serial(y, m, L)) = s2 % 7
    <3>1. Serial(y, m, L) = F + L - 1
      BY <1>2, <1>4, Zenon
    <3>2. F + L - 1 \in Int
      BY <1>2, <1>3, SMT
    <3> QED
      BY <3>1, <3>2, WeekdayOfDays, Zenon
  <2> HIDE DEF s1, n1, s2, n2
  <2>6. (s1 + n1) % 7 = wd <=> n1 % 7 = (wd - (s1 % 7)) % 7
    BY ONLY <2>1, <2>3, SMT
  <2>7. (s2 - n2) % 7 = wd <=> n2 % 7 = ((s2 % 7) - wd) % 7
    BY ONLY <2>1, <2>3, SMT
  <2>8. d \in S <=> n1 % 7 = (wd - weekday_from_days(F)) % 7
    BY <2>2, <2>3, <2>4, <2>6, Zenon
  <2>9. d \in S <=> n2 % 7 = (weekday_from_days(Serial(y, m, L)) - wd) % 7
    BY <2>2, <2>3, <2>5, <2>7, Zenon
  <2> QED
    BY <2>8, <2>9 DEF n1, n2
<1> QED
  BY <1>1, <1>6, <1>7 DEF S, L, F

(* Every seventh day, from the first week of a month on.                   *)
Sevenths(r, k) == {r + 1 + 7 * j: j \in 0..k}

LEMMA SeventhsCount ==
    ASSUME NEW r \in 0..6, NEW k \in 0..4
    PROVE  Cardinality(Sevenths(r, k)) = k + 1
<1> DEFINE P(j) == IsFiniteSet(Sevenths(r, j)) /\ Cardinality(Sevenths(r, j)) = j + 1
<1>1. P(0)
  <2>1. Sevenths(r, 0) = {r + 1}
    BY SMT DEF Sevenths
  <2>2. 0 + 1 = 1
    OBVIOUS
  <2>3. IsFiniteSet({r + 1}) /\ Cardinality({r + 1}) = 1
    BY FS_Singleton, Zenon
  <2> QED
    BY <2>1, <2>2, <2>3, Zenon
<1>2. ASSUME NEW j \in 0..3, P(j) PROVE P(j + 1)
  <2>1. Sevenths(r, j + 1) = Sevenths(r, j) \cup {r + 1 + 7 * (j + 1)}
    BY SMT DEF Sevenths
  <2>2. r + 1 + 7 * (j + 1) \notin Sevenths(r, j)
    BY SMT DEF Sevenths
  <2> QED
    BY <1>2, <2>1, <2>2, FS_AddElement
<1> HIDE DEF P
<1>3. P(0) /\ P(1) /\ P(2) /\ P(3) /\ P(4)
  BY <1>1, <1>2
<1>4. k = 0 \/ k = 1 \/ k = 2 \/ k = 3 \/ k = 4
  BY SMT
<1>5. P(k)
  BY <1>3, <1>4
<1> QED
  BY <1>5 DEF P

(* The place of a day among those of its weekday.                          *)
LEMMA PlaceInMonth ==
    ASSUME NEW L \in 28..31, NEW S \in SUBSET (1..L), NEW r \in 0..6,
           \A d \in 1..L: d \in S <=> (d - 1) % 7 = r,
           NEW d \in S
    PROVE  LET k == (d - r - 1) \div 7
           IN  /\ k \in 0..4 /\ d = r + 1 + 7 * k
               /\ Cardinality({e \in S: e <= d}) = k + 1
<1> DEFINE k == (d - r - 1) \div 7
<1>1. d \in 1..L /\ d \in Int
  BY SMT
<1>2. (d - 1) % 7 = r
  BY <1>1, Zenon
<1>3. k \in 0..4 /\ d = r + 1 + 7 * k
  BY <1>1, <1>2, SMT
<1> HIDE DEF k
<1>4. {e \in S: e <= d} = Sevenths(r, k)
  <2>1. ASSUME NEW e \in S, e <= d PROVE e \in Sevenths(r, k)
    <3>1. e \in 1..L
      OBVIOUS
    <3>2. (e - 1) % 7 = r
      BY <3>1, Zenon
    <3> DEFINE j == (e - r - 1) \div 7
    <3>3. j \in 0..k /\ e = r + 1 + 7 * j
      BY <1>3, <2>1, <3>1, <3>2, SMT
    <3> QED
      BY <3>3, Zenon DEF Sevenths
  <2>2. ASSUME NEW j \in 0..k PROVE r + 1 + 7 * j \in S /\ r + 1 + 7 * j <= d
    <3>1. r + 1 + 7 * j \in 1..L /\ r + 1 + 7 * j <= d
      BY <1>1, <1>3, SMT
    <3> DEFINE e == r + 1 + 7 * j
    <3>2. (e - 1) % 7 = r
      BY <1>3, SMT
    <3> HIDE DEF e
    <3>3. e \in 1..L => e \in S
      BY <3>2, Zenon
    <3> QED
      BY <3>1, <3>3, Zenon DEF e
  <2> QED
    BY <2>1, <2>2, Zenon DEF Sevenths
<1>5. Cardinality(Sevenths(r, k)) = k + 1
  BY <1>3, SeventhsCount, Zenon
<1> QED
  BY <1>3, <1>4, <1>5, Zenon DEF k

-----------------------------------------------------------------------------
(* MeansItsDay, one form after the other.                                  *)
Means(D) ==
    /\ ok <=> D # {}
    /\ \A d \in D: days = Serial(held.y, held.m, d)

LEMMA FirstIsSerial ==
    ASSUME NEW x, x.y \in Int, x.m \in 1..12
    PROVE  /\ FirstOf(x) = Serial(x.y, x.m, 1)
           /\ ymd_to_days(ymd_from_last(x)) = Serial(x.y, x.m, Length(x.y, x.m))
<1>1. ASSUME NEW d \in Int PROVE ymd_to_days(year_month_day(x, d)) = Serial(x.y, x.m, d)
  <2> DEFINE z == year_month_day(x, d)
  <2>1. z.y = x.y /\ z.m = x.m /\ z.d = d
    BY DEF year_month_day
  <2> HIDE DEF z
  <2>2. ymd_to_days(z) = Serial(z.y, z.m, z.d)
    BY <2>1, ToDaysIsSerial
  <2> QED
    BY <2>1, <2>2, Zenon DEF z
<1>2. 1 \in Int /\ ymdl_day(x) \in Int /\ ymdl_day(x) = Length(x.y, x.m)
  BY LastDay, SMT
<1> QED
  BY <1>1, <1>2, Zenon DEF FirstOf, ymd_from_last

LEMMA MonthOk == ASSUME NEW m PROVE month_ok(m) <=> m \in 1..12
BY DEF month_ok

(* What ok, days and MeantDays are of each form.                           *)
Weekdays(wd) == DaysOfWeekday(held.y, held.m, wd)
AtIndex(D, n) == {d \in D: Cardinality({e \in D: e <= d}) = n}
Latest(D) == {d \in D: \A e \in D: e <= d}

LEMMA Forms ==
    /\ Ymd => ok = ymd_ok(held) /\ days = ymd_to_days(held)
    /\ Ymdl => ok = ymdl_ok(held) /\ days = ymdl_to_days(held)
    /\ Ymwd => ok = ymwd_ok(held) /\ days = ymwd_to_days(held)
    /\ Ymwdl => ok = ymwdl_ok(held) /\ days = ymwdl_to_days(held)
BY DEF ok, days, Ymd, Ymdl, Ymwd, Ymwdl

\* The years of the bound, and those that a year cannot hold.
Near(y) == y \in Int /\ -20000 <= y /\ y <= 20000
Far(y) == y < -32767 \/ y > 32767

LEMMA YearIsOk ==
    ASSUME NEW y, Near(y)
    PROVE  year_ok(y) /\ ~Far(y)
BY SMT DEF Far, year_ok, Near

LEMMA Meant ==
    ASSUME TypeOK
    PROVE  /\ year_ok(held.y)
           /\ held.m \notin 1..12 => MeantDays = {}
           /\ held.m \in 1..12 =>
                 /\ Ymd => MeantDays = {d \in 1..Length(held.y, held.m): d = held.d}
                 /\ Ymdl => MeantDays = {Length(held.y, held.m)}
                 /\ Ymwd => MeantDays = AtIndex(Weekdays(held.wdi.wd), held.wdi.index)
                 /\ Ymwdl => MeantDays = Latest(Weekdays(held.wd))
<1>1. Near(held.y)
  BY Fields DEF Near
<1>2. year_ok(held.y) /\ ~Far(held.y)
  BY <1>1, YearIsOk, Zenon
<1>3. MeantDays = IF Far(held.y) \/ held.m \notin 1..12 THEN {} ELSE DaysOfForm
  BY DEF MeantDays, Far
<1>4. /\ Ymd => DaysOfForm = {d \in 1..Length(held.y, held.m): d = held.d}
      /\ Ymdl => DaysOfForm = {Length(held.y, held.m)}
      /\ Ymwd => DaysOfForm = AtIndex(Weekdays(held.wdi.wd), held.wdi.index)
      /\ Ymwdl => DaysOfForm = Latest(Weekdays(held.wd))
  BY Zenon DEF DaysOfForm, AtIndex, Weekdays, Latest, Ymd, Ymdl, Ymwd, Ymwdl
<1> QED
  BY <1>2, <1>3, <1>4, Zenon

LEMMA YmdMeans ==
    ASSUME TypeOK, Ymd
    PROVE  /\ Means(MeantDays)
           /\ month_day_ok(held) <=> \E y \in {2000, 2001}: ymd_ok([held EXCEPT !.y = y])
           /\ held.m \in 1..12 => days = Serial(held.y, held.m, held.d)
<1>1. /\ held.y \in Int /\ held.d \in Int /\ held.m \in Int
      /\ held = [form |-> "year_month_day", y |-> held.y, m |-> held.m, d |-> held.d]
  BY Fields, SMT DEF Day, Month
<1>2. held.m \in 1..12 => days = Serial(held.y, held.m, held.d)
  BY <1>1, ToDaysIsSerial, Forms
<1>3. ok <=> held.m \in 1..12 /\ held.d \in 1..Length(held.y, held.m)
  BY <1>1, Forms, Meant, LastDay, MonthOk DEF ymd_ok
<1>4. Means(MeantDays)
  <2>1. CASE held.m \in 1..12
    <3>1. MeantDays = {d \in 1..Length(held.y, held.m): d = held.d}
      BY <2>1, Meant
    <3> QED
      BY <1>2, <1>3, <2>1, <3>1 DEF Means
  <2>2. CASE held.m \notin 1..12
    BY <1>3, <2>2, Meant DEF Means
  <2> QED
    BY <2>1, <2>2
<1>5. month_day_ok(held) <=> \E y \in {2000, 2001}: ymd_ok([held EXCEPT !.y = y])
  <2>1. ASSUME NEW y \in {2000, 2001}
        PROVE  ymd_ok([held EXCEPT !.y = y])
                 <=> held.m \in 1..12 /\ held.d \in 1..Length(y, held.m)
    <3> DEFINE x == [held EXCEPT !.y = y]
    <3>1. x.y = y /\ x.m = held.m /\ x.d = held.d
      BY <1>1
    <3> HIDE DEF x
    <3>2. x.y \in Int /\ year_ok(x.y)
      BY <3>1, SMT DEF year_ok
    <3>3. x.m \in 1..12 => ymdl_day(x) = Length(x.y, x.m)
      BY <3>2, LastDay
    <3>4. ymd_ok(x) <=> x.m \in 1..12 /\ x.d \in 1..Length(x.y, x.m)
      BY <3>2, <3>3, MonthOk DEF ymd_ok
    <3> QED
      BY <3>1, <3>4 DEF x
  <2>2. Leap(2000) /\ ~Leap(2001)
    BY SMT DEF Leap
  <2>3. month_day_ok(held) <=> /\ held.m \in 1..12
                               /\ \E y \in {2000, 2001}: held.d \in 1..Length(y, held.m)
    BY <1>1, <2>2, SMT DEF month_day_ok, Length, month_ok
  <2> QED
    BY <2>1, <2>3
<1> QED
  BY <1>2, <1>4, <1>5

LEMMA YmdlMeans ==
    ASSUME TypeOK, Ymdl
    PROVE  Means(MeantDays)
<1>1. held.y \in Int
  BY Fields
<1>2. ok <=> held.m \in 1..12
  BY Forms, Meant, MonthOk DEF ymdl_ok
<1>3. MeantDays = IF held.m \in 1..12 THEN {Length(held.y, held.m)} ELSE {}
  BY Meant
<1>4. held.m \in 1..12 => days = Serial(held.y, held.m, Length(held.y, held.m))
  BY <1>1, FirstIsSerial, Forms DEF ymdl_to_days
<1> QED
  BY <1>2, <1>3, <1>4 DEF Means

LEMMA YmwdMeans ==
    ASSUME TypeOK, Ymwd
    PROVE  Means(MeantDays)
<1> DEFINE wd == held.wdi.wd
           n == held.wdi.index
           L == Length(held.y, held.m)
           S == Weekdays(wd)
           F == Serial(held.y, held.m, 1)
           r == (wd - weekday_from_days(F)) % 7
<1>1. held.y \in Int /\ wd \in Weekday /\ n \in 0..15
  BY Fields, SMT DEF WeekdayIndexed, Weekday
<1>2. ok <=> /\ held.m \in 1..12 /\ wd <= 6 /\ n >= 1
             /\ n > 4 => weekday_minus(wd, weekday_from_days(FirstOf(held))) + (n - 1) * 7 + 1
                           <= ymdl_day(held)
  BY Forms, Meant, MonthOk, Zenon DEF ymwd_ok, weekday_ok
<1>3. days = FirstOf(held) + weekday_minus(wd, weekday_from_days(FirstOf(held))) + (n - 1) * 7
  BY Forms, Zenon DEF ymwd_to_days
<1>4. CASE held.m \notin 1..12
  BY <1>2, <1>4, Meant, Zenon DEF Means
<1>5. CASE held.m \in 1..12
  <2>1. FirstOf(held) = F /\ ymdl_day(held) = L /\ L \in 28..31
    BY <1>1, <1>5, FirstIsSerial, LastDay, Zenon
  <2>2. F \in Int /\ \A d \in Int: Serial(held.y, held.m, d) = F + d - 1
    <3>1. 1 \in Int
      BY SMT
    <3> QED
      BY <1>1, <1>5, <3>1, SerialCounts, Zenon
  <2>3. weekday_from_days(F) \in Weekday
    BY <2>2, WeekdayOfDays, SMT DEF Weekday
  <2>4. weekday_minus(wd, weekday_from_days(F)) = r /\ r \in 0..6
    BY <1>1, <2>3, WeekdayMinus, Zenon
  <2>5. /\ S \subseteq 1..L
        /\ wd > 6 => S = {}
        /\ wd <= 6 => \A d \in 1..L: d \in S <=> (d - 1) % 7 = r
    BY <1>1, <1>5, WeekdaysOfMonth, Zenon DEF Weekdays
  <2>6. MeantDays = AtIndex(S, n)
    BY <1>5, Meant, Zenon
  <2>7. ok <=> wd <= 6 /\ n >= 1 /\ (n > 4 => r + (n - 1) * 7 + 1 <= L)
    BY <1>2, <1>5, <2>1, <2>4, Zenon
  <2>8. days = F + r + (n - 1) * 7
    BY <1>3, <2>1, <2>4, Zenon
  <2>9. L \in 28..31 /\ wd \in Int /\ r \in 0..6
    BY <1>1, <2>1, <2>4, SMT DEF Weekday
  <2> HIDE DEF wd, n, L, S, F, r
  <2>10. CASE wd > 6
    <3>1. MeantDays = {}
      BY <2>5, <2>6, <2>10, Zenon DEF AtIndex
    <3>2. ~ok
      BY <2>7, <2>9, <2>10, SMT
    <3> QED
      BY <3>1, <3>2, Zenon DEF Means
  <2>11. CASE ~(wd > 6)
    <3>1. wd <= 6
      BY <2>9, <2>11, SMT
    <3>2. \A d \in 1..L: d \in S <=> (d - 1) % 7 = r
      BY <2>5, <3>1, Zenon
    <3>3. ASSUME NEW d \in S
          PROVE  /\ d \in 1..L
                 /\ Cardinality({e \in S: e <= d}) = n <=> d = r + 1 + 7 * (n - 1) /\ n >= 1
      <4> DEFINE k == (d - r - 1) \div 7
      <4>1. d \in 1..L
        BY <2>5
      <4>2. k \in 0..4 /\ d = r + 1 + 7 * k /\ Cardinality({e \in S: e <= d}) = k + 1
        BY <2>5, <2>9, <3>2, PlaceInMonth
      <4> HIDE DEF k
      <4> QED
        BY <1>1, <2>9, <4>1, <4>2, SMT DEF n
    <3>4. ASSUME NEW d \in MeantDays PROVE ok /\ days = Serial(held.y, held.m, d)
      <4>1. d \in S /\ Cardinality({e \in S: e <= d}) = n
        BY <2>6, Zenon DEF AtIndex
      <4>2. d \in 1..L /\ d = r + 1 + 7 * (n - 1) /\ n >= 1
        BY <3>3, <4>1, Zenon
      <4>3. n \in Int
        BY <1>1, SMT DEF n
      <4>4. ok
        BY <2>7, <2>9, <3>1, <4>2, <4>3, SMT
      <4>5. Serial(held.y, held.m, d) = F + d - 1
        BY <2>2, <2>9, <4>2, SMT
      <4> QED
        BY <2>2, <2>8, <2>9, <4>2, <4>3, <4>4, <4>5, SMT
    <3>5. ASSUME ok PROVE MeantDays # {}
      <4> DEFINE d == r + 1 + 7 * (n - 1)
      <4>1. n \in 1..15
        BY <1>1, <2>7, <3>5, SMT DEF n
      <4>2. d \in 1..L /\ (d - 1) % 7 = r
        BY <2>7, <2>9, <3>5, <4>1, SMT
      <4>3. n >= 1 /\ d = r + 1 + 7 * (n - 1)
        BY <4>1, SMT
      <4> HIDE DEF d
      <4>4. d \in S
        BY <3>2, <4>2, Zenon
      <4>5. Cardinality({e \in S: e <= d}) = n
        BY <3>3, <4>3, <4>4, Zenon
      <4> QED
        BY <2>6, <4>4, <4>5, Zenon DEF AtIndex
    <3> QED
      BY <3>4, <3>5, Zenon DEF Means
  <2> QED
    BY <2>10, <2>11
<1> QED
  BY <1>4, <1>5

LEMMA YmwdlMeans ==
    ASSUME TypeOK, Ymwdl
    PROVE  Means(MeantDays)
<1> DEFINE wd == held.wd
           L == Length(held.y, held.m)
           S == Weekdays(wd)
           F == Serial(held.y, held.m, 1)
           E == Serial(held.y, held.m, L)
           t == (weekday_from_days(E) - wd) % 7
<1>1. held.y \in Int /\ wd \in Weekday
  BY Fields
<1>2. ok <=> held.m \in 1..12 /\ wd <= 6
  BY Forms, Meant, MonthOk, Zenon DEF ymwdl_ok, weekday_ok
<1>3. days = ymdl_to_days(held) - weekday_minus(weekday_from_days(ymdl_to_days(held)), wd)
  BY Forms, Zenon DEF ymwdl_to_days
<1>4. CASE held.m \notin 1..12
  BY <1>2, <1>4, Meant, Zenon DEF Means
<1>5. CASE held.m \in 1..12
  <2>1. ymdl_to_days(held) = E /\ L \in 28..31
    BY <1>1, <1>5, FirstIsSerial, LastDay, Zenon DEF ymdl_to_days
  <2>2. F \in Int /\ \A d \in Int: Serial(held.y, held.m, d) = F + d - 1
    <3>1. 1 \in Int
      BY SMT
    <3> QED
      BY <1>1, <1>5, <3>1, SerialCounts, Zenon
  <2>3. E = F + L - 1 /\ E \in Int
    <3>1. L \in Int
      BY <2>1, SMT
    <3>2. E = F + L - 1
      BY <2>2, <3>1, Zenon
    <3> HIDE DEF E, F, L
    <3> QED
      BY <2>2, <3>1, <3>2, SMT
  <2>4. weekday_from_days(E) \in Weekday
    BY <2>3, WeekdayOfDays, SMT DEF Weekday
  <2>5. weekday_minus(weekday_from_days(E), wd) = t /\ t \in 0..6
    BY <1>1, <2>4, WeekdayMinus, Zenon
  <2>6. /\ S \subseteq 1..L
        /\ wd > 6 => S = {}
        /\ wd <= 6 => \A d \in 1..L: d \in S <=> (L - d) % 7 = t
    BY <1>1, <1>5, WeekdaysOfMonth, Zenon DEF Weekdays
  <2>7. MeantDays = Latest(S)
    BY <1>5, Meant, Zenon
  <2>8. days = E - t
    BY <1>3, <2>1, <2>5, Zenon
  <2>9. L \in 28..31 /\ wd \in Int /\ t \in 0..6 /\ (ok <=> wd <= 6)
    BY <1>1, <1>2, <1>5, <2>1, <2>5, SMT DEF Weekday
  <2> HIDE DEF wd, L, S, F, E, t
  <2>10. CASE wd > 6
    <3>1. MeantDays = {}
      BY <2>6, <2>7, <2>10, Zenon DEF Latest
    <3>2. ~ok
      BY <2>9, <2>10, SMT
    <3> QED
      BY <3>1, <3>2, Zenon DEF Means
  <2>11. CASE ~(wd > 6)
    <3>1. wd <= 6 /\ ok
      BY <2>9, <2>11, SMT
    <3>2. \A d \in 1..L: d \in S <=> (L - d) % 7 = t
      BY <2>6, <3>1, Zenon
    <3> DEFINE D == L - t
    <3>3. D \in 1..L /\ (L - D) % 7 = t /\ D \in Int
      BY <2>9, SMT
    <3>4. Serial(held.y, held.m, D) = E - t
      <4>1. Serial(held.y, held.m, D) = F + D - 1
        BY <2>2, <3>3, Zenon
      <4> QED
        BY <2>2, <2>3, <2>9, <4>1, SMT
    <3>5. ASSUME NEW e \in S PROVE e <= D
      <4>1. e \in 1..L
        BY <2>6
      <4>2. (L - e) % 7 = t
        BY <3>2, <4>1, Zenon
      <4> QED
        BY <2>9, <4>1, <4>2, SMT
    <3>6. \A d \in S: (\A e \in S: e <= d) /\ D <= d => d = D
      <4>1. \A d \in S: d \in Int
        BY <2>6, <2>9, SMT
      <4> HIDE DEF D
      <4> QED
        BY <3>3, <3>5, <4>1, SMT
    <3> HIDE DEF D
    <3>7. D \in S
      BY <3>2, <3>3, Zenon
    <3>8. MeantDays = {D}
      <4>1. D \in MeantDays
        BY <2>7, <3>5, <3>7, Zenon DEF Latest
      <4>2. ASSUME NEW d \in MeantDays PROVE d = D
        <5>1. d \in S /\ \A e \in S: e <= d
          BY <2>7, Zenon DEF Latest
        <5> QED
          BY <3>6, <3>7, <5>1, Zenon
      <4> QED
        BY <4>1, <4>2, Zenon
    <3> QED
      BY <2>8, <3>1, <3>4, <3>8, Zenon DEF Means
  <2> QED
    BY <2>10, <2>11
<1> QED
  BY <1>4, <1>5

(* A date of any form names a day exactly if ok() says so, and its count of *)
(* days is then that of the day it names in the Gregorian calendar, in every*)
(* year of the bound and however the date was come by (date.hpp:2599-2633,  *)
(* 2811-2845, 2962-2981).                                                   *)
THEOREM MeansItsDayCorrect == Spec => []MeansItsDay
<1>1. ASSUME TypeOK PROVE MeansItsDay
  <2>1. Ymd \/ Ymdl \/ Ymwd \/ Ymwdl
    BY <1>1, Fields
  <2>2. Means(MeantDays)
    BY <1>1, <2>1, YmdMeans, YmdlMeans, YmwdMeans, YmwdlMeans, Zenon
  <2>3. Ymd => (month_day_ok(held) <=> \E y \in {2000, 2001}: ymd_ok([held EXCEPT !.y = y]))
    BY <1>1, YmdMeans
  <2>4. Ymd /\ held.m \in 1..12 => days = Serial(held.y, held.m, held.d)
    BY <1>1, YmdMeans
  <2> QED
    BY <2>2, <2>3, <2>4 DEF MeansItsDay, Means
<1> QED
  BY <1>1, WalkTypeCorrect, PTL

-----------------------------------------------------------------------------
(* Every duration, before or after midnight, is told by its hours, its     *)
(* minutes below 60, its seconds below 60 and its fraction below one, and  *)
(* is that again; it is in the conventional range if it is of one day.     *)
THEOREM TimeIsTheDuration ==
    ASSUME NEW unit \in Units, NEW d \in Int
    PROVE  LET x == hh_mm_ss(d, unit)
           IN  /\ to_duration(x, unit) = d
               /\ x.h >= 0 /\ x.m \in 0..59 /\ x.s.s \in 0..59 /\ x.s.sub_s \in 0..(unit - 1)
               /\ in_conventional_range(x, unit) <=> 0 <= d /\ d < 24 * 3600 * unit
<1> DEFINE a == abs(d)
           h == a \div (3600 * unit)
           m == a \div (60 * unit) - 60 * h
           r == a - h * (3600 * unit) - m * (60 * unit)
           s == r \div unit
           f == r - s * unit
<1>1. a \in Int /\ 0 <= a /\ d = (IF d < 0 THEN -a ELSE a)
  BY SMT DEF abs
<1> HIDE DEF a
<1>2. /\ h \in Int /\ 0 <= h /\ m \in Int /\ 0 <= m /\ m <= 59
      /\ r \in Int /\ 0 <= r /\ r < 60 * unit
      /\ 0 <= d /\ d < 24 * 3600 * unit <=> ~(d < 0) /\ h < 24
  <2>1. CASE unit = 1 BY <1>1, <2>1, SMT
  <2>2. CASE unit = 1000 BY <1>1, <2>2, SMT
  <2>3. CASE unit = 1000000 BY <1>1, <2>3, SMT
  <2>4. CASE unit = 1000000000 BY <1>1, <2>4, SMT
  <2> QED BY <2>1, <2>2, <2>3, <2>4, SMT DEF Units
<1> HIDE DEF h, m
<1>3. /\ s \in Int /\ 0 <= s /\ s <= 59
      /\ f \in Int /\ 0 <= f /\ f < unit
  <2> HIDE DEF r
  <2>1. CASE unit = 1 BY <1>2, <2>1, SMT
  <2>2. CASE unit = 1000 BY <1>2, <2>2, SMT
  <2>3. CASE unit = 1000000 BY <1>2, <2>3, SMT
  <2>4. CASE unit = 1000000000 BY <1>2, <2>4, SMT
  <2> QED BY <2>1, <2>2, <2>3, <2>4, SMT DEF Units
<1>4. hh_mm_ss(d, unit) = [h |-> h, m |-> m, s |-> [s |-> s, sub_s |-> f], neg |-> d < 0]
  <2>1. Quot(a, 3600 * unit) = h /\ Quot(a, 60 * unit) - 60 * h = m
    BY <1>1, SMT DEF Quot, h, m
  <2>2. Quot(r, unit) = s
    BY <1>2, SMT DEF Quot
  <2> QED
    BY <2>1, <2>2, SMT DEF hh_mm_ss, decimal_format_seconds, a
<1> HIDE DEF s
<1> HIDE DEF f
<1> DEFINE x == [h |-> h, m |-> m, s |-> [s |-> s, sub_s |-> f], neg |-> d < 0]
<1>5. x.h = h /\ x.m = m /\ x.s.s = s /\ x.s.sub_s = f /\ x.neg = (d < 0)
  OBVIOUS
<1>6. s * unit + f + m * (60 * unit) + h * (3600 * unit) = a
  <2>1. CASE unit = 1 BY <1>1, <1>2, <1>3, <2>1, SMT DEF f
  <2>2. CASE unit = 1000 BY <1>1, <1>2, <1>3, <2>2, SMT DEF f
  <2>3. CASE unit = 1000000 BY <1>1, <1>2, <1>3, <2>3, SMT DEF f
  <2>4. CASE unit = 1000000000 BY <1>1, <1>2, <1>3, <2>4, SMT DEF f
  <2> QED BY <2>1, <2>2, <2>3, <2>4, SMT DEF Units
<1> HIDE DEF x
<1>7. to_duration(x, unit) = d
  <2>1. to_duration(x, unit) = a * (1 - 2 * (IF d < 0 THEN 1 ELSE 0))
    <3>1. seconds_to_duration(x.s, unit) = s * unit + f
      BY <1>5, SMT DEF seconds_to_duration
    <3>2. seconds_to_duration(x.s, unit) + x.m * (60 * unit) + x.h * (3600 * unit) = a
      BY <1>5, <1>6, <3>1, SMT
    <3>3. to_duration(x, unit) = a * (1 - 2 * (IF x.neg THEN 1 ELSE 0))
      BY <3>2, SMT DEF to_duration
    <3>4. (IF x.neg THEN 1 ELSE 0) = (IF d < 0 THEN 1 ELSE 0)
      BY <1>5
    <3> QED
      BY <3>3, <3>4
  <2>2. CASE d < 0
    <3>1. a * (1 - 2 * (IF d < 0 THEN 1 ELSE 0)) = -a BY <1>1, <2>2, SMT
    <3> QED BY <1>1, <2>1, <2>2, <3>1
  <2>3. CASE ~(d < 0)
    <3>1. a * (1 - 2 * (IF d < 0 THEN 1 ELSE 0)) = a BY <1>1, <2>3, SMT
    <3> QED BY <1>1, <2>1, <2>3, <3>1
  <2> QED BY <2>2, <2>3
<1>8. in_conventional_range(x, unit) <=> 0 <= d /\ d < 24 * 3600 * unit
  <2>1. m < 60 /\ s < 60 /\ f < unit
    BY <1>2, <1>3, SMT
  <2> QED
    <3>1. seconds_in_conventional_range(x.s, unit)
      BY <1>5, <2>1, SMT DEF seconds_in_conventional_range
    <3>2. in_conventional_range(x, unit) <=> ~x.neg /\ h < 24
      BY <1>5, <2>1, <3>1, SMT DEF in_conventional_range
    <3>3. x.neg <=> d < 0
      BY <1>5
    <3> QED
      BY <1>2, <3>2, <3>3
<1>9. x.h >= 0 /\ x.m \in 0..59 /\ x.s.s \in 0..59 /\ x.s.sub_s \in 0..(unit - 1)
  BY <1>2, <1>3, <1>5, SMT DEF Units
<1> QED
  BY <1>4, <1>7, <1>8, <1>9 DEF x

(* The hour on a clock of twelve hours, 1 to 12, with its half of the day  *)
(* is the hour of the day.                                                 *)
THEOREM TwelveHours ==
    ASSUME NEW h \in 0..23
    PROVE  /\ make12(h) \in 1..12
           /\ is_am(h) <=> ~is_pm(h)
           /\ make24(make12(h), is_pm(h)) = h
BY SMT DEF make12, make24, is_am, is_pm

-----------------------------------------------------------------------------
(* The parts of a date and operator/.                                      *)

IsMonth(r) == r.form \in {"month", "int"}
IsYear(r) == r.form \in {"year", "int"}
IsDay(r) == r.form \in {"day", "int"}
MonthOf(r) == IF r.form = "int" THEN month(r.n) ELSE r.m
YearOf(r) == IF r.form = "int" THEN year(r.n) ELSE r.y
DayOf(r) == IF r.form = "int" THEN day(r.n) ELSE r.d

(* What the overloads of operator/ make of two operands: on either side a  *)
(* day or something like one and a month, or these and a year,             *)
Joins(a, b, e) ==
    \/ a.form = "day" /\ IsMonth(b) /\ e = [form |-> "month_day", m |-> MonthOf(b), d |-> a.d]
    \/ a.form = "last" /\ IsMonth(b) /\ e = [form |-> "month_day_last", m |-> MonthOf(b)]
    \/ /\ a.form = "weekday_indexed" /\ IsMonth(b)
       /\ e = [form |-> "month_weekday", m |-> MonthOf(b), wdi |-> a.wdi]
    \/ /\ a.form = "weekday_last" /\ IsMonth(b)
       /\ e = [form |-> "month_weekday_last", m |-> MonthOf(b), wd |-> a.wd]
    \/ /\ a.form = "month_day" /\ IsYear(b)
       /\ e = [form |-> "year_month_day", y |-> YearOf(b), m |-> a.m, d |-> a.d]
    \/ /\ a.form = "month_day_last" /\ IsYear(b)
       /\ e = [form |-> "year_month_day_last", y |-> YearOf(b), m |-> a.m]
    \/ /\ a.form = "month_weekday" /\ IsYear(b)
       /\ e = [form |-> "year_month_weekday", y |-> YearOf(b), m |-> a.m, wdi |-> a.wdi]
    \/ /\ a.form = "month_weekday_last" /\ IsYear(b)
       /\ e = [form |-> "year_month_weekday_last", y |-> YearOf(b), m |-> a.m, wd |-> a.wd]

(* or, from the left to the right, a year, a month and a day.              *)
JoinsInOrder(l, r, e) ==
    \/ l.form = "year" /\ IsMonth(r) /\ e = [form |-> "year_month", y |-> l.y, m |-> MonthOf(r)]
    \/ l.form = "month" /\ r.form = "int" /\ e = [form |-> "month_day", m |-> l.m, d |-> DayOf(r)]
    \/ /\ l.form = "year_month" /\ IsDay(r)
       /\ e = [form |-> "year_month_day", y |-> l.y, m |-> l.m, d |-> DayOf(r)]
    \/ /\ l.form = "year_month" /\ r.form = "last"
       /\ e = [form |-> "year_month_day_last", y |-> l.y, m |-> l.m]
    \/ /\ l.form = "year_month" /\ r.form = "weekday_indexed"
       /\ e = [form |-> "year_month_weekday", y |-> l.y, m |-> l.m, wdi |-> r.wdi]
    \/ /\ l.form = "year_month" /\ r.form = "weekday_last"
       /\ e = [form |-> "year_month_weekday_last", y |-> l.y, m |-> l.m, wd |-> r.wd]

(* Proof of the overloads: the sets that operator/ is made of hold nothing *)
(* else.                                                                   *)
LEMMA AsPart ==
    ASSUME NEW r
    PROVE  /\ \A m \in AsMonth(r): IsMonth(r) /\ m = MonthOf(r)
           /\ \A y \in AsYear(r): IsYear(r) /\ y = YearOf(r)
           /\ \A d \in AsDay(r): IsDay(r) /\ d = DayOf(r)
BY DEF AsMonth, AsYear, AsDay, IsMonth, IsYear, IsDay, MonthOf, YearOf, DayOf

LEMMA SidesAre ==
    ASSUME NEW l, NEW r, NEW form, NEW p \in Sides(l, r, form)
    PROVE  \/ p[1] = l /\ p[2] = r /\ l.form = form
           \/ p[1] = r /\ p[2] = l /\ r.form = form
BY DEF Sides

LEMMA SlashMonthDays ==
    ASSUME NEW l, NEW r,
           NEW e \in slash_month_day(l, r) \cup slash_month_day_last(l, r)
                     \cup slash_month_weekday(l, r) \cup slash_month_weekday_last(l, r)
    PROVE  Joins(l, r, e) \/ Joins(r, l, e) \/ JoinsInOrder(l, r, e)
<1>1. CASE e \in slash_month_day(l, r)
  <2> DEFINE A == UNION {{[form |-> "month_day", m |-> m, d |-> p[1].d]: m \in AsMonth(p[2])}:
                       p \in Sides(l, r, "day")}
             B == {[form |-> "month_day", m |-> l.m, d |-> d]:
                       d \in IF l.form = "month" /\ r.form = "int" THEN AsDay(r) ELSE {}}
  <2>1. CASE e \in A
    BY <2>1, AsPart, SidesAre DEF Joins
  <2>2. CASE e \in B
    BY <2>2, AsPart DEF JoinsInOrder
  <2>3. slash_month_day(l, r) = A \cup B
    BY Zenon DEF slash_month_day
  <2> HIDE DEF A, B
  <2> QED
    BY <1>1, <2>1, <2>2, <2>3
<1>2. CASE e \in slash_month_day_last(l, r)
  BY <1>2, AsPart, SidesAre DEF slash_month_day_last, Joins
<1>3. CASE e \in slash_month_weekday(l, r)
  BY <1>3, AsPart, SidesAre DEF slash_month_weekday, Joins
<1>4. CASE e \in slash_month_weekday_last(l, r)
  BY <1>4, AsPart, SidesAre DEF slash_month_weekday_last, Joins
<1> QED
  BY <1>1, <1>2, <1>3, <1>4

LEMMA SlashDates ==
    ASSUME NEW l, NEW r,
           NEW e \in slash_year_month_day(l, r) \cup slash_year_month_day_last(l, r)
                     \cup slash_year_month_weekday(l, r) \cup slash_year_month_weekday_last(l, r)
    PROVE  Joins(l, r, e) \/ Joins(r, l, e) \/ JoinsInOrder(l, r, e)
<1>1. CASE e \in slash_year_month_day(l, r)
  <2> DEFINE A == UNION {{year_month_day(year_month(y, p[1].m), p[1].d): y \in AsYear(p[2])}:
                       p \in Sides(l, r, "month_day")}
             B == {year_month_day(l, d): d \in IF l.form = "year_month" THEN AsDay(r) ELSE {}}
  <2>1. CASE e \in A
    BY <2>1, AsPart, SidesAre DEF Joins, year_month_day, year_month
  <2>2. CASE e \in B
    BY <2>2, AsPart DEF JoinsInOrder, year_month_day
  <2>3. slash_year_month_day(l, r) = A \cup B
    BY Zenon DEF slash_year_month_day
  <2> HIDE DEF A, B
  <2> QED
    BY <1>1, <2>1, <2>2, <2>3
<1>2. CASE e \in slash_year_month_day_last(l, r)
  <2> DEFINE A == UNION {{year_month_day_last(year_month(y, p[1].m)): y \in AsYear(p[2])}:
                       p \in Sides(l, r, "month_day_last")}
             B == {year_month_day_last(x):
                       x \in IF r.form = "last" /\ l.form = "year_month" THEN {l} ELSE {}}
  <2>1. CASE e \in A
    BY <2>1, AsPart, SidesAre DEF Joins, year_month_day_last, year_month
  <2>2. CASE e \in B
    BY <2>2 DEF JoinsInOrder, year_month_day_last
  <2>3. slash_year_month_day_last(l, r) = A \cup B
    BY Zenon DEF slash_year_month_day_last
  <2> HIDE DEF A, B
  <2> QED
    BY <1>2, <2>1, <2>2, <2>3
<1>3. CASE e \in slash_year_month_weekday(l, r)
  <2> DEFINE A == UNION {{year_month_weekday(year_month(y, p[1].m), p[1].wdi): y \in AsYear(p[2])}:
                       p \in Sides(l, r, "month_weekday")}
             B == {year_month_weekday(x, r.wdi):
                       x \in IF r.form = "weekday_indexed" /\ l.form = "year_month" THEN {l} ELSE {}}
  <2>1. CASE e \in A
    BY <2>1, AsPart, SidesAre DEF Joins, year_month_weekday, year_month
  <2>2. CASE e \in B
    BY <2>2 DEF JoinsInOrder, year_month_weekday
  <2>3. slash_year_month_weekday(l, r) = A \cup B
    BY Zenon DEF slash_year_month_weekday
  <2> HIDE DEF A, B
  <2> QED
    BY <1>3, <2>1, <2>2, <2>3
<1>4. CASE e \in slash_year_month_weekday_last(l, r)
  <2> DEFINE A == UNION {{year_month_weekday_last(year_month(y, p[1].m), p[1].wd): y \in AsYear(p[2])}:
                       p \in Sides(l, r, "month_weekday_last")}
             B == {year_month_weekday_last(x, r.wd):
                       x \in IF r.form = "weekday_last" /\ l.form = "year_month" THEN {l} ELSE {}}
  <2>1. CASE e \in A
    BY <2>1, AsPart, SidesAre DEF Joins, year_month_weekday_last, year_month
  <2>2. CASE e \in B
    BY <2>2 DEF JoinsInOrder, year_month_weekday_last
  <2>3. slash_year_month_weekday_last(l, r) = A \cup B
    BY Zenon DEF slash_year_month_weekday_last
  <2> HIDE DEF A, B
  <2> QED
    BY <1>4, <2>1, <2>2, <2>3
<1> QED
  BY <1>1, <1>2, <1>3, <1>4

LEMMA SlashJoins ==
    ASSUME NEW l, NEW r, NEW e \in Slash(l, r)
    PROVE  Joins(l, r, e) \/ Joins(r, l, e) \/ JoinsInOrder(l, r, e)
<1>1. CASE e \in slash_year_month(l, r)
  BY <1>1, AsPart DEF slash_year_month, JoinsInOrder
<1> QED
  BY <1>1, SlashMonthDays, SlashDates DEF Slash

(* No two of them take the same operands.                                  *)
LEMMA OneOverload ==
    ASSUME NEW l, NEW r, NEW x \in Slash(l, r), NEW z \in Slash(l, r)
    PROVE  x = z
<1>1. ASSUME NEW a, NEW b, Joins(a, b, x), Joins(a, b, z) PROVE x = z
  BY <1>1 DEF Joins
<1>2. ASSUME JoinsInOrder(l, r, x), JoinsInOrder(l, r, z) PROVE x = z
  BY <1>2 DEF JoinsInOrder, IsDay
<1>3. ASSUME NEW a, NEW b, NEW e, Joins(a, b, e)
      PROVE  /\ b.form \in {"month", "year", "int"}
             /\ a.form \in {"day", "last", "weekday_indexed", "weekday_last", "month_day",
                            "month_day_last", "month_weekday", "month_weekday_last"}
  BY <1>3 DEF Joins, IsMonth, IsYear
<1>4. ASSUME NEW e, JoinsInOrder(l, r, e)
      PROVE  /\ l.form \in {"year", "month", "year_month"}
             /\ l.form \in {"year", "month"} => r.form \in {"month", "int"}
  BY <1>4 DEF JoinsInOrder, IsMonth
<1>5. \A e \in Slash(l, r): Joins(l, r, e) \/ Joins(r, l, e) \/ JoinsInOrder(l, r, e)
  BY SlashJoins
<1>6. CASE Joins(l, r, x)
  <2>1. Joins(l, r, z)
    BY <1>3, <1>4, <1>5, <1>6
  <2> QED
    BY <1>1, <1>6, <2>1
<1>7. CASE Joins(r, l, x)
  <2>1. Joins(r, l, z)
    BY <1>3, <1>4, <1>5, <1>7
  <2> QED
    BY <1>1, <1>7, <2>1
<1>8. CASE JoinsInOrder(l, r, x)
  <2>1. JoinsInOrder(l, r, z)
    BY <1>3, <1>4, <1>5, <1>8
  <2> QED
    BY <1>2, <1>8, <2>1
<1> QED
  BY <1>5, <1>6, <1>7, <1>8

(* What a program may have composed, and what it may write beside it.      *)
Days == {"day", "last", "weekday_indexed", "weekday_last"}
MonthDays == {"month_day", "month_day_last", "month_weekday", "month_weekday_last"}

DayParts ==
    [form: {"day"}, d: Day] \cup {last} \cup [form: {"weekday_indexed"}, wdi: WeekdayIndexed]
    \cup [form: {"weekday_last"}, wd: Weekday]
MonthPart == [form: {"month"}, m: Month]
YearPart == [form: {"year"}, y: Year]
MonthDayParts ==
    [form: {"month_day"}, m: Month, d: Day] \cup [form: {"month_day_last"}, m: Month]
    \cup [form: {"month_weekday"}, m: Month, wdi: WeekdayIndexed]
    \cup [form: {"month_weekday_last"}, m: Month, wd: Weekday]
Dates == YearMonthDay \cup YearMonthDayLast \cup YearMonthWeekday \cup YearMonthWeekdayLast
Parts ==
    DayParts \cup MonthPart \cup YearPart \cup [form: {"weekday"}, wd: Weekday]
    \cup [form: {"year_month"}, y: Year, m: Month] \cup MonthDayParts \cup Dates
Operands == Parts \cup [form: {"int"}, n: Int]

(* The parts of a part.                                                    *)
LEMMA SplitPart ==
    /\ \A d: Split([form |-> "day", d |-> d]) = {[form |-> "day", d |-> d]}
    /\ \A m: Split([form |-> "month", m |-> m]) = {[form |-> "month", m |-> m]}
    /\ \A y: Split([form |-> "year", y |-> y]) = {[form |-> "year", y |-> y]}
    /\ \A wd: Split([form |-> "weekday", wd |-> wd]) = {[form |-> "weekday", wd |-> wd]}
    /\ \A wdi: Split([form |-> "weekday_indexed", wdi |-> wdi])
                = {[form |-> "weekday_indexed", wdi |-> wdi]}
    /\ \A wd: Split([form |-> "weekday_last", wd |-> wd])
                = {[form |-> "weekday_last", wd |-> wd]}
    /\ Split(last) = {last}
<1>1. \A d: Split([form |-> "day", d |-> d]) = {[form |-> "day", d |-> d]}
  BY DEF Split, Field
<1>2. \A m: Split([form |-> "month", m |-> m]) = {[form |-> "month", m |-> m]}
  BY DEF Split, Field
<1>3. \A y: Split([form |-> "year", y |-> y]) = {[form |-> "year", y |-> y]}
  BY DEF Split, Field
<1>4. \A wd: Split([form |-> "weekday", wd |-> wd]) = {[form |-> "weekday", wd |-> wd]}
  BY DEF Split, Field
<1>5. \A wdi: Split([form |-> "weekday_indexed", wdi |-> wdi])
                = {[form |-> "weekday_indexed", wdi |-> wdi]}
  BY DEF Split, Field
<1>6. \A wd: Split([form |-> "weekday_last", wd |-> wd])
                = {[form |-> "weekday_last", wd |-> wd]}
  BY DEF Split, Field
<1>7. Split(last) = {last}
  BY DEF Split, Field, last
<1> QED
  BY <1>1, <1>2, <1>3, <1>4, <1>5, <1>6, <1>7

LEMMA SplitComposed ==
    /\ \A y, m:
           Split([form |-> "year_month", y |-> y, m |-> m])
           = {[form |-> "year", y |-> y], [form |-> "month", m |-> m]}
    /\ \A m, d:
           Split([form |-> "month_day", m |-> m, d |-> d])
           = {[form |-> "month", m |-> m], [form |-> "day", d |-> d]}
    /\ \A m:
           Split([form |-> "month_day_last", m |-> m])
           = {[form |-> "month", m |-> m], last}
    /\ \A m, wdi:
           Split([form |-> "month_weekday", m |-> m, wdi |-> wdi])
           = {[form |-> "month", m |-> m], [form |-> "weekday_indexed", wdi |-> wdi]}
    /\ \A m, wd:
           Split([form |-> "month_weekday_last", m |-> m, wd |-> wd])
           = {[form |-> "month", m |-> m], [form |-> "weekday_last", wd |-> wd]}
    /\ \A y, m, d:
           Split([form |-> "year_month_day", y |-> y, m |-> m, d |-> d])
           = {[form |-> "year", y |-> y], [form |-> "month", m |-> m], [form |-> "day", d |-> d]}
    /\ \A y, m:
           Split([form |-> "year_month_day_last", y |-> y, m |-> m])
           = {[form |-> "year", y |-> y], [form |-> "month", m |-> m], last}
    /\ \A y, m, wdi:
           Split([form |-> "year_month_weekday", y |-> y, m |-> m, wdi |-> wdi])
           = {[form |-> "year", y |-> y], [form |-> "month", m |-> m], [form |-> "weekday_indexed", wdi |-> wdi]}
    /\ \A y, m, wd:
           Split([form |-> "year_month_weekday_last", y |-> y, m |-> m, wd |-> wd])
           = {[form |-> "year", y |-> y], [form |-> "month", m |-> m], [form |-> "weekday_last", wd |-> wd]}
<1>1. \A y, m:
         Split([form |-> "year_month", y |-> y, m |-> m])
         = {[form |-> "year", y |-> y], [form |-> "month", m |-> m]}
  BY DEF Split, Field
<1>2. \A m, d:
         Split([form |-> "month_day", m |-> m, d |-> d])
         = {[form |-> "month", m |-> m], [form |-> "day", d |-> d]}
  BY DEF Split, Field
<1>3. \A m:
         Split([form |-> "month_day_last", m |-> m])
         = {[form |-> "month", m |-> m], last}
  BY DEF Split, Field
<1>4. \A m, wdi:
         Split([form |-> "month_weekday", m |-> m, wdi |-> wdi])
         = {[form |-> "month", m |-> m], [form |-> "weekday_indexed", wdi |-> wdi]}
  BY DEF Split, Field
<1>5. \A m, wd:
         Split([form |-> "month_weekday_last", m |-> m, wd |-> wd])
         = {[form |-> "month", m |-> m], [form |-> "weekday_last", wd |-> wd]}
  BY DEF Split, Field
<1>6. \A y, m, d:
         Split([form |-> "year_month_day", y |-> y, m |-> m, d |-> d])
         = {[form |-> "year", y |-> y], [form |-> "month", m |-> m], [form |-> "day", d |-> d]}
  BY DEF Split, Field
<1>7. \A y, m:
         Split([form |-> "year_month_day_last", y |-> y, m |-> m])
         = {[form |-> "year", y |-> y], [form |-> "month", m |-> m], last}
  BY DEF Split, Field
<1>8. \A y, m, wdi:
         Split([form |-> "year_month_weekday", y |-> y, m |-> m, wdi |-> wdi])
         = {[form |-> "year", y |-> y], [form |-> "month", m |-> m], [form |-> "weekday_indexed", wdi |-> wdi]}
  BY DEF Split, Field
<1>9. \A y, m, wd:
         Split([form |-> "year_month_weekday_last", y |-> y, m |-> m, wd |-> wd])
         = {[form |-> "year", y |-> y], [form |-> "month", m |-> m], [form |-> "weekday_last", wd |-> wd]}
  BY DEF Split, Field
<1> QED
  BY <1>1, <1>2, <1>3, <1>4, <1>5, <1>6, <1>7, <1>8, <1>9

(* What an operand is read as beside another: an int by the form of that.  *)
IntPlace(form) ==
    IF form \in Days \cup {"year"} THEN "m" ELSE IF form \in {"month", "year_month"} THEN "d"
    ELSE IF form \in MonthDays THEN "y" ELSE "none"
IntMeans(place, n) ==
    IF place = "y" THEN year_part(n) ELSE IF place = "m" THEN month_part(n) ELSE day_part(n)
PlaceOf(form) ==
    IF form = "year" THEN "y" ELSE IF form = "month" THEN "m" ELSE IF form \in Days \cup {"weekday"} THEN "d"
    ELSE "none"

ReadAs(r, other) == IF r.form = "int" THEN {IntMeans(IntPlace(other.form), r.n)} ELSE Split(r)
PlaceBeside(r, other) == IF r.form = "int" THEN IntPlace(other.form) ELSE PlaceOf(r.form)

LEMMA OperandFields ==
    ASSUME NEW r \in Operands
    PROVE  /\ r.form = "int" => r.n \in Int
           /\ r.form = "month" => r = [form |-> "month", m |-> r.m] /\ r.m \in Month
           /\ r.form = "year" => r = [form |-> "year", y |-> r.y] /\ r.y \in Year
           /\ r.form = "day" => r = [form |-> "day", d |-> r.d] /\ r.d \in Day
           /\ r.form = "last" => r = last
           /\ r.form = "weekday_indexed" =>
                  r = [form |-> "weekday_indexed", wdi |-> r.wdi] /\ r.wdi \in WeekdayIndexed
           /\ r.form = "weekday_last" =>
                  r = [form |-> "weekday_last", wd |-> r.wd] /\ r.wd \in Weekday
           /\ r.form = "year_month" =>
                  r = [form |-> "year_month", y |-> r.y, m |-> r.m] /\ r.y \in Year /\ r.m \in Month
           /\ r.form = "month_day" =>
                  r = [form |-> "month_day", m |-> r.m, d |-> r.d] /\ r.m \in Month /\ r.d \in Day
           /\ r.form = "month_day_last" =>
                  r = [form |-> "month_day_last", m |-> r.m] /\ r.m \in Month
           /\ r.form = "month_weekday" =>
                  /\ r = [form |-> "month_weekday", m |-> r.m, wdi |-> r.wdi]
                  /\ r.m \in Month /\ r.wdi \in WeekdayIndexed
           /\ r.form = "month_weekday_last" =>
                  /\ r = [form |-> "month_weekday_last", m |-> r.m, wd |-> r.wd]
                  /\ r.m \in Month /\ r.wd \in Weekday
BY DEF Operands, Parts, DayParts, MonthPart, YearPart, MonthDayParts, Dates, last,
       YearMonthDay, YearMonthDayLast, YearMonthWeekday, YearMonthWeekdayLast

LEMMA MonthRead ==
    ASSUME NEW r \in Operands, NEW other, IsMonth(r), other.form \in Days \cup {"year"}
    PROVE  /\ ReadAs(r, other) = {[form |-> "month", m |-> MonthOf(r)]}
           /\ PlaceBeside(r, other) = "m" /\ MonthOf(r) \in Month
<1>1. CASE r.form = "int"
  <2>1. month(r.n) \in Month
    BY <1>1, OperandFields DEF month, Month
  <2>2. IntPlace(other.form) = "m"
    BY DEF IntPlace
  <2> QED
    BY <1>1, <2>1, <2>2 DEF ReadAs, PlaceBeside, IntMeans, month_part, MonthOf
<1>2. CASE r.form = "month"
  <2>1. r = [form |-> "month", m |-> r.m] /\ r.m \in Month
    BY <1>2, OperandFields
  <2>2. Split(r) = {[form |-> "month", m |-> r.m]}
    BY <2>1, SplitPart
  <2> QED
    BY <1>2, <2>1, <2>2 DEF ReadAs, PlaceBeside, PlaceOf, MonthOf
<1> QED
  BY <1>1, <1>2 DEF IsMonth

LEMMA YearRead ==
    ASSUME NEW r \in Operands, NEW other, IsYear(r), other.form \in MonthDays
    PROVE  /\ ReadAs(r, other) = {[form |-> "year", y |-> YearOf(r)]}
           /\ PlaceBeside(r, other) = "y" /\ YearOf(r) \in Year
<1>1. CASE r.form = "int"
  <2>1. r.n \in Int
    BY <1>1, OperandFields
  <2>2. year(r.n) \in Year
    BY <2>1, FieldsTyped
  <2>3. IntPlace(other.form) = "y"
    BY DEF IntPlace, Days, MonthDays
  <2> QED
    BY <1>1, <2>2, <2>3 DEF ReadAs, PlaceBeside, IntMeans, year_part, YearOf
<1>2. CASE r.form = "year"
  <2>1. r = [form |-> "year", y |-> r.y] /\ r.y \in Year
    BY <1>2, OperandFields
  <2>2. Split(r) = {[form |-> "year", y |-> r.y]}
    BY <2>1, SplitPart
  <2> QED
    BY <1>2, <2>1, <2>2 DEF ReadAs, PlaceBeside, PlaceOf, YearOf
<1> QED
  BY <1>1, <1>2 DEF IsYear

LEMMA DayRead ==
    ASSUME NEW r \in Operands, NEW other, IsDay(r), other.form \in {"month", "year_month"}
    PROVE  /\ ReadAs(r, other) = {[form |-> "day", d |-> DayOf(r)]}
           /\ PlaceBeside(r, other) = "d" /\ DayOf(r) \in Day
<1>1. CASE r.form = "int"
  <2>1. day(r.n) \in Day
    BY <1>1, OperandFields DEF day, Day
  <2>2. IntPlace(other.form) = "d"
    BY DEF IntPlace, Days
  <2> QED
    BY <1>1, <2>1, <2>2 DEF ReadAs, PlaceBeside, IntMeans, day_part, DayOf
<1>2. CASE r.form = "day"
  <2>1. r = [form |-> "day", d |-> r.d] /\ r.d \in Day
    BY <1>2, OperandFields
  <2>2. Split(r) = {[form |-> "day", d |-> r.d]}
    BY <2>1, SplitPart
  <2> QED
    BY <1>2, <2>1, <2>2 DEF ReadAs, PlaceBeside, PlaceOf, DayOf, Days
<1> QED
  BY <1>1, <1>2 DEF IsDay

DateForms == {"year_month_day", "year_month_day_last", "year_month_weekday", "year_month_weekday_last"}

(* What is made of two operands is made of the parts that they are read as.*)
LEMMA DayAndMonth ==
    ASSUME NEW a \in Operands, NEW b \in Operands, NEW e, Joins(a, b, e), a.form \in Days
    PROVE  /\ e \in MonthDayParts /\ Split(e) = ReadAs(a, b) \cup ReadAs(b, a)
           /\ PlaceBeside(a, b) = "d" /\ PlaceBeside(b, a) = "m"
<1> DEFINE m == MonthOf(b)
<1>1. IsMonth(b)
  BY DEF Joins, Days
<1>2. /\ ReadAs(b, a) = {[form |-> "month", m |-> m]} /\ PlaceBeside(b, a) = "m" /\ m \in Month
  BY <1>1, MonthRead
<1>3. ReadAs(a, b) = Split(a) /\ PlaceBeside(a, b) = "d"
  BY DEF ReadAs, PlaceBeside, PlaceOf, Days
<1> HIDE DEF m
<1>4. CASE a.form = "day"
  <2>1. e = [form |-> "month_day", m |-> m, d |-> a.d]
    BY <1>4 DEF Joins, m
  <2>2. a = [form |-> "day", d |-> a.d] /\ a.d \in Day
    BY <1>4, OperandFields
  <2>3. Split(a) = {[form |-> "day", d |-> a.d]}
    BY <2>2, SplitPart
  <2>4. Split(e) = {[form |-> "month", m |-> m], [form |-> "day", d |-> a.d]}
    BY <2>1, SplitComposed
  <2>5. e \in MonthDayParts
    BY <1>2, <2>1, <2>2 DEF MonthDayParts
  <2> QED
    BY <1>2, <1>3, <2>3, <2>4, <2>5
<1>5. CASE a.form = "last"
  <2>1. e = [form |-> "month_day_last", m |-> m]
    BY <1>5 DEF Joins, m
  <2>2. a = last
    BY <1>5, OperandFields
  <2>3. Split(a) = {last}
    BY <2>2, SplitPart
  <2>4. Split(e) = {[form |-> "month", m |-> m], last}
    BY <2>1, SplitComposed
  <2>5. e \in MonthDayParts
    BY <1>2, <2>1, <2>2 DEF MonthDayParts
  <2> QED
    BY <1>2, <1>3, <2>3, <2>4, <2>5
<1>6. CASE a.form = "weekday_indexed"
  <2>1. e = [form |-> "month_weekday", m |-> m, wdi |-> a.wdi]
    BY <1>6 DEF Joins, m
  <2>2. a = [form |-> "weekday_indexed", wdi |-> a.wdi] /\ a.wdi \in WeekdayIndexed
    BY <1>6, OperandFields
  <2>3. Split(a) = {[form |-> "weekday_indexed", wdi |-> a.wdi]}
    BY <2>2, SplitPart
  <2>4. Split(e) = {[form |-> "month", m |-> m], [form |-> "weekday_indexed", wdi |-> a.wdi]}
    BY <2>1, SplitComposed
  <2>5. e \in MonthDayParts
    BY <1>2, <2>1, <2>2 DEF MonthDayParts
  <2> QED
    BY <1>2, <1>3, <2>3, <2>4, <2>5
<1>7. CASE a.form = "weekday_last"
  <2>1. e = [form |-> "month_weekday_last", m |-> m, wd |-> a.wd]
    BY <1>7 DEF Joins, m
  <2>2. a = [form |-> "weekday_last", wd |-> a.wd] /\ a.wd \in Weekday
    BY <1>7, OperandFields
  <2>3. Split(a) = {[form |-> "weekday_last", wd |-> a.wd]}
    BY <2>2, SplitPart
  <2>4. Split(e) = {[form |-> "month", m |-> m], [form |-> "weekday_last", wd |-> a.wd]}
    BY <2>1, SplitComposed
  <2>5. e \in MonthDayParts
    BY <1>2, <2>1, <2>2 DEF MonthDayParts
  <2> QED
    BY <1>2, <1>3, <2>3, <2>4, <2>5
<1> QED
  BY <1>4, <1>5, <1>6, <1>7 DEF Days

LEMMA MonthDayAndYear ==
    ASSUME NEW a \in Operands, NEW b \in Operands, NEW e, Joins(a, b, e), a.form \in MonthDays
    PROVE  e \in Dates /\ Split(e) = ReadAs(a, b) \cup ReadAs(b, a)
<1> DEFINE y == YearOf(b)
<1>1. IsYear(b)
  BY DEF Joins, MonthDays
<1>2. ReadAs(b, a) = {[form |-> "year", y |-> y]} /\ y \in Year
  BY <1>1, YearRead
<1>3. ReadAs(a, b) = Split(a)
  BY DEF ReadAs, MonthDays
<1> HIDE DEF y
<1>4. CASE a.form = "month_day"
  <2>1. e = [form |-> "year_month_day", y |-> y, m |-> a.m, d |-> a.d]
    BY <1>4 DEF Joins, y
  <2>2. a = [form |-> "month_day", m |-> a.m, d |-> a.d] /\ a.m \in Month /\ a.d \in Day
    BY <1>4, OperandFields
  <2>3. Split(a) = {[form |-> "month", m |-> a.m], [form |-> "day", d |-> a.d]}
    BY <2>2, SplitComposed
  <2>4. Split(e) = {[form |-> "year", y |-> y], [form |-> "month", m |-> a.m], [form |-> "day", d |-> a.d]}
    BY <2>1, SplitComposed
  <2>5. e \in Dates
    BY <1>2, <2>1, <2>2 DEF Dates, YearMonthDay
  <2> QED
    BY <1>2, <1>3, <2>3, <2>4, <2>5
<1>5. CASE a.form = "month_day_last"
  <2>1. e = [form |-> "year_month_day_last", y |-> y, m |-> a.m]
    BY <1>5 DEF Joins, y
  <2>2. a = [form |-> "month_day_last", m |-> a.m] /\ a.m \in Month
    BY <1>5, OperandFields
  <2>3. Split(a) = {[form |-> "month", m |-> a.m], last}
    BY <2>2, SplitComposed
  <2>4. Split(e) = {[form |-> "year", y |-> y], [form |-> "month", m |-> a.m], last}
    BY <2>1, SplitComposed
  <2>5. e \in Dates
    BY <1>2, <2>1, <2>2 DEF Dates, YearMonthDayLast
  <2> QED
    BY <1>2, <1>3, <2>3, <2>4, <2>5
<1>6. CASE a.form = "month_weekday"
  <2>1. e = [form |-> "year_month_weekday", y |-> y, m |-> a.m, wdi |-> a.wdi]
    BY <1>6 DEF Joins, y
  <2>2. a = [form |-> "month_weekday", m |-> a.m, wdi |-> a.wdi] /\ a.m \in Month /\ a.wdi \in WeekdayIndexed
    BY <1>6, OperandFields
  <2>3. Split(a) = {[form |-> "month", m |-> a.m], [form |-> "weekday_indexed", wdi |-> a.wdi]}
    BY <2>2, SplitComposed
  <2>4. Split(e) = {[form |-> "year", y |-> y], [form |-> "month", m |-> a.m], [form |-> "weekday_indexed", wdi |-> a.wdi]}
    BY <2>1, SplitComposed
  <2>5. e \in Dates
    BY <1>2, <2>1, <2>2 DEF Dates, YearMonthWeekday
  <2> QED
    BY <1>2, <1>3, <2>3, <2>4, <2>5
<1>7. CASE a.form = "month_weekday_last"
  <2>1. e = [form |-> "year_month_weekday_last", y |-> y, m |-> a.m, wd |-> a.wd]
    BY <1>7 DEF Joins, y
  <2>2. a = [form |-> "month_weekday_last", m |-> a.m, wd |-> a.wd] /\ a.m \in Month /\ a.wd \in Weekday
    BY <1>7, OperandFields
  <2>3. Split(a) = {[form |-> "month", m |-> a.m], [form |-> "weekday_last", wd |-> a.wd]}
    BY <2>2, SplitComposed
  <2>4. Split(e) = {[form |-> "year", y |-> y], [form |-> "month", m |-> a.m], [form |-> "weekday_last", wd |-> a.wd]}
    BY <2>1, SplitComposed
  <2>5. e \in Dates
    BY <1>2, <2>1, <2>2 DEF Dates, YearMonthWeekdayLast
  <2> QED
    BY <1>2, <1>3, <2>3, <2>4, <2>5
<1> QED
  BY <1>4, <1>5, <1>6, <1>7 DEF MonthDays

LEMMA InOrderSplit ==
    ASSUME NEW l \in Operands, NEW r \in Operands, NEW e, JoinsInOrder(l, r, e)
    PROVE  /\ Split(e) = ReadAs(l, r) \cup ReadAs(r, l)
           /\ \/ /\ e \in [form: {"year_month"}, y: Year, m: Month]
                 /\ PlaceBeside(l, r) = "y" /\ PlaceBeside(r, l) = "m"
              \/ /\ e \in [form: {"month_day"}, m: Month, d: Day]
                 /\ PlaceBeside(l, r) = "m" /\ PlaceBeside(r, l) = "d"
              \/ e \in Dates
<1>1. CASE l.form = "year" /\ IsMonth(r)
  <2>1. e = [form |-> "year_month", y |-> l.y, m |-> MonthOf(r)]
    BY <1>1 DEF JoinsInOrder
  <2>2. l = [form |-> "year", y |-> l.y] /\ l.y \in Year
    BY <1>1, OperandFields
  <2>3. ReadAs(l, r) = {[form |-> "year", y |-> l.y]} /\ PlaceBeside(l, r) = "y"
    BY <1>1, <2>2, SplitPart DEF ReadAs, PlaceBeside, PlaceOf
  <2>4. /\ ReadAs(r, l) = {[form |-> "month", m |-> MonthOf(r)]} /\ PlaceBeside(r, l) = "m"
        /\ MonthOf(r) \in Month
    BY <1>1, MonthRead
  <2>5. Split(e) = {[form |-> "year", y |-> l.y], [form |-> "month", m |-> MonthOf(r)]}
    BY <2>1, SplitComposed
  <2> QED
    BY <2>1, <2>2, <2>3, <2>4, <2>5
<1>2. CASE l.form = "month" /\ r.form = "int"
  <2>1. e = [form |-> "month_day", m |-> l.m, d |-> DayOf(r)]
    BY <1>2 DEF JoinsInOrder
  <2>2. l = [form |-> "month", m |-> l.m] /\ l.m \in Month
    BY <1>2, OperandFields
  <2>3. ReadAs(l, r) = {[form |-> "month", m |-> l.m]} /\ PlaceBeside(l, r) = "m"
    BY <1>2, <2>2, SplitPart DEF ReadAs, PlaceBeside, PlaceOf
  <2>4. /\ ReadAs(r, l) = {[form |-> "day", d |-> DayOf(r)]} /\ PlaceBeside(r, l) = "d"
        /\ DayOf(r) \in Day
    BY <1>2, DayRead DEF IsDay
  <2>5. Split(e) = {[form |-> "month", m |-> l.m], [form |-> "day", d |-> DayOf(r)]}
    BY <2>1, SplitComposed
  <2> QED
    BY <2>1, <2>2, <2>3, <2>4, <2>5
<1>3. CASE l.form = "year_month"
  <2>1. /\ l = [form |-> "year_month", y |-> l.y, m |-> l.m] /\ l.y \in Year /\ l.m \in Month
    BY <1>3, OperandFields
  <2>2. ReadAs(l, r) = {[form |-> "year", y |-> l.y], [form |-> "month", m |-> l.m]}
    BY <1>3, <2>1, SplitComposed DEF ReadAs
  <2>3. CASE IsDay(r)
    <3>1. e = [form |-> "year_month_day", y |-> l.y, m |-> l.m, d |-> DayOf(r)]
      BY <1>3, <2>3 DEF JoinsInOrder, IsDay
    <3>2. ReadAs(r, l) = {[form |-> "day", d |-> DayOf(r)]} /\ DayOf(r) \in Day
      BY <1>3, <2>3, DayRead
    <3>3. Split(e) = {[form |-> "year", y |-> l.y], [form |-> "month", m |-> l.m], [form |-> "day", d |-> DayOf(r)]}
      BY <3>1, SplitComposed
    <3>4. e \in Dates
      BY <2>1, <3>1, <3>2 DEF Dates, YearMonthDay
    <3> QED
      BY <2>2, <3>2, <3>3, <3>4
  <2>4. CASE r.form = "last"
    <3>1. e = [form |-> "year_month_day_last", y |-> l.y, m |-> l.m]
      BY <1>3, <2>4 DEF JoinsInOrder, IsDay
    <3>2. r = last
      BY <2>4, OperandFields
    <3>3. ReadAs(r, l) = {last}
      BY <2>4, <3>2, SplitPart DEF ReadAs
    <3>4. Split(e) = {[form |-> "year", y |-> l.y], [form |-> "month", m |-> l.m], last}
      BY <3>1, SplitComposed
    <3>5. e \in Dates
      BY <2>1, <3>1, <3>2 DEF Dates, YearMonthDayLast
    <3> QED
      BY <2>2, <3>3, <3>4, <3>5
  <2>5. CASE r.form = "weekday_indexed"
    <3>1. e = [form |-> "year_month_weekday", y |-> l.y, m |-> l.m, wdi |-> r.wdi]
      BY <1>3, <2>5 DEF JoinsInOrder, IsDay
    <3>2. r = [form |-> "weekday_indexed", wdi |-> r.wdi] /\ r.wdi \in WeekdayIndexed
      BY <2>5, OperandFields
    <3>3. ReadAs(r, l) = {[form |-> "weekday_indexed", wdi |-> r.wdi]}
      BY <2>5, <3>2, SplitPart DEF ReadAs
    <3>4. Split(e) = {[form |-> "year", y |-> l.y], [form |-> "month", m |-> l.m], [form |-> "weekday_indexed", wdi |-> r.wdi]}
      BY <3>1, SplitComposed
    <3>5. e \in Dates
      BY <2>1, <3>1, <3>2 DEF Dates, YearMonthWeekday
    <3> QED
      BY <2>2, <3>3, <3>4, <3>5
  <2>6. CASE r.form = "weekday_last"
    <3>1. e = [form |-> "year_month_weekday_last", y |-> l.y, m |-> l.m, wd |-> r.wd]
      BY <1>3, <2>6 DEF JoinsInOrder, IsDay
    <3>2. r = [form |-> "weekday_last", wd |-> r.wd] /\ r.wd \in Weekday
      BY <2>6, OperandFields
    <3>3. ReadAs(r, l) = {[form |-> "weekday_last", wd |-> r.wd]}
      BY <2>6, <3>2, SplitPart DEF ReadAs
    <3>4. Split(e) = {[form |-> "year", y |-> l.y], [form |-> "month", m |-> l.m], [form |-> "weekday_last", wd |-> r.wd]}
      BY <3>1, SplitComposed
    <3>5. e \in Dates
      BY <2>1, <3>1, <3>2 DEF Dates, YearMonthWeekdayLast
    <3> QED
      BY <2>2, <3>3, <3>4, <3>5
  <2> QED
    BY <1>3, <2>3, <2>4, <2>5, <2>6 DEF JoinsInOrder
<1> QED
  BY <1>1, <1>2, <1>3 DEF JoinsInOrder

Single == {"year", "month", "weekday"} \cup Days
PlacedAs(form, places) ==
    /\ form \in Single => places = <<PlaceOf(form)>>
    /\ form = "year_month" => places = <<"y", "m">>
    /\ form \in MonthDays => places \in {<<"m", "d">>, <<"d", "m">>}

(* The part is made of what is meant, and what is written so far tells the *)
(* place of an int beside it.                                              *)
PartsInOrder == part \in Parts /\ Split(part) = meant /\ PlacedAs(part.form, order)

LEMMA Joined ==
    ASSUME NEW l \in Operands, NEW r \in Operands, NEW e \in Slash(l, r)
    PROVE  /\ e \in Parts /\ Split(e) = ReadAs(l, r) \cup ReadAs(r, l)
           /\ \/ e \in Dates
              \/ /\ PlaceBeside(l, r) \in {"y", "m", "d"} /\ PlaceBeside(r, l) \in {"y", "m", "d"}
                 /\ PlacedAs(e.form, <<PlaceBeside(l, r), PlaceBeside(r, l)>>)
<1>1. \A f: f \in MonthDays => f \notin Single /\ f # "year_month"
  BY DEF MonthDays, Single, Days
<1>2. \A a, b: <<a, b>> = <<"m", "d">> => <<a, b>> \in {<<"m", "d">>, <<"d", "m">>}
  OBVIOUS
<1>3. \A x \in MonthDayParts: x \in Parts /\ x.form \in MonthDays
  BY DEF MonthDayParts, MonthDays, Parts
<1>4. \A x \in Dates: x \in Parts
  BY DEF Parts
<1>5. ASSUME NEW a \in Operands, NEW b \in Operands, Joins(a, b, e)
      PROVE  /\ e \in Parts /\ Split(e) = ReadAs(a, b) \cup ReadAs(b, a)
             /\ e \in Dates \/ /\ PlaceBeside(a, b) = "d" /\ PlaceBeside(b, a) = "m"
                               /\ e.form \in MonthDays
  <2>1. CASE a.form \in Days
    BY <1>3, <1>5, <2>1, DayAndMonth
  <2>2. CASE a.form \in MonthDays
    BY <1>4, <1>5, <2>2, MonthDayAndYear
  <2> QED
    BY <1>5, <2>1, <2>2 DEF Joins, Days, MonthDays
<1>6. CASE Joins(l, r, e)
  BY <1>1, <1>5, <1>6 DEF PlacedAs
<1>7. CASE Joins(r, l, e)
  BY <1>1, <1>5, <1>7 DEF PlacedAs
<1>8. CASE JoinsInOrder(l, r, e)
  <2>1. CASE e \in Dates
    BY <1>4, <1>8, <2>1, InOrderSplit
  <2>2. CASE e \in [form: {"month_day"}, m: Month, d: Day] /\ PlaceBeside(l, r) = "m" /\ PlaceBeside(r, l) = "d"
    <3>1. e \in MonthDayParts
      BY <2>2 DEF MonthDayParts
    <3> QED
      BY <1>1, <1>3, <1>8, <2>2, <3>1, InOrderSplit DEF PlacedAs
  <2>3. CASE /\ e \in [form: {"year_month"}, y: Year, m: Month]
             /\ PlaceBeside(l, r) = "y" /\ PlaceBeside(r, l) = "m"
    <3>1. e \in Parts /\ e.form = "year_month"
      BY <2>3 DEF Parts
    <3>2. "year_month" \notin Single /\ "year_month" \notin MonthDays
      BY DEF Single, MonthDays, Days
    <3> QED
      BY <1>8, <2>3, <3>1, <3>2, InOrderSplit DEF PlacedAs
  <2> QED
    BY <1>8, <2>1, <2>2, <2>3, InOrderSplit
<1> QED
  BY <1>6, <1>7, <1>8, SlashJoins

(* Which places an int may take.                                           *)
LEMMA OrderOfPlaces ==
    /\ \A a, b: InOrder(<<a, b>>) => <<a, b>> \in {<<"y", "m">>, <<"m", "d">>, <<"d", "m">>}
    /\ \A a, b, c: InOrder(<<a, b, c>>) => <<a, b, c>> \in Orders
<1>1. ASSUME NEW o \in Orders, NEW n \in 1..3
      PROVE  \A i \in 1..n: SubSeq(o, 1, n)[i] = o[i]
  <2>1. \A i \in 1..3: o[i] \in {"y", "m", "d"}
    BY DEF Orders
  <2> QED
    BY <2>1, SubSeqProperties
<1>2. ASSUME NEW a, NEW b, InOrder(<<a, b>>)
      PROVE  <<a, b>> \in {<<"y", "m">>, <<"m", "d">>, <<"d", "m">>}
  <2>1. Len(<<a, b>>) = 2 /\ <<a, b>>[1] = a /\ <<a, b>>[2] = b
    OBVIOUS
  <2>2. PICK o \in Orders: <<a, b>> = SubSeq(o, 1, 2)
    BY <1>2, <2>1 DEF InOrder
  <2>3. a = o[1] /\ b = o[2]
    BY <1>1, <2>1, <2>2
  <2> QED
    BY <2>3 DEF Orders
<1>3. ASSUME NEW a, NEW b, NEW c, InOrder(<<a, b, c>>) PROVE <<a, b, c>> \in Orders
  <2>1. Len(<<a, b, c>>) = 3 /\ <<a, b, c>>[1] = a /\ <<a, b, c>>[2] = b /\ <<a, b, c>>[3] = c
    OBVIOUS
  <2>2. PICK o \in Orders: <<a, b, c>> = SubSeq(o, 1, 3)
    BY <1>3, <2>1 DEF InOrder
  <2>3. a = o[1] /\ b = o[2] /\ c = o[3]
    BY <1>1, <2>1, <2>2
  <2> QED
    BY <2>3 DEF Orders
<1> QED
  BY <1>2, <1>3

LEMMA IndexedTyped ==
    ASSUME NEW wd \in Int, NEW index \in Int
    PROVE  weekday_indexed(wd, index) \in WeekdayIndexed
<1>1. wd % 16 \in 0..15 /\ index % 16 \in 0..15
  OBVIOUS
<1> DEFINE v == wd % 16
<1>2. weekday(v) \in 0..15
  <2>1. v \in 0..15
    BY <1>1
  <2> HIDE DEF v
  <2> QED
    BY <2>1 DEF weekday
<1> QED
  BY <1>1, <1>2 DEF weekday_indexed, WeekdayIndexed

LEMMA TermRead ==
    ASSUME NEW t \in TypedTerms \cup IntTerms, NEW other,
           t.operand.form = "int" => t.place = IntPlace(other.form)
    PROVE  /\ t.operand \in Operands /\ t.place \in {"y", "m", "d"}
           /\ ReadAs(t.operand, other) = {t.means} /\ PlaceBeside(t.operand, other) = t.place
<1>1. ASSUME NEW n \in Int
      PROVE  /\ day_part(n) = [form |-> "day", d |-> day(n)] /\ day_part(n) \in Parts
             /\ month_part(n) = [form |-> "month", m |-> month(n)] /\ month_part(n) \in Parts
             /\ year_part(n) = [form |-> "year", y |-> year(n)] /\ year_part(n) \in Parts
             /\ int(n) \in Operands
  <2>1. day(n) \in Day /\ month(n) \in Month /\ year(n) \in Year
    BY FieldsTyped
  <2> QED
    BY <2>1 DEF day_part, month_part, year_part, int, Parts, DayParts, MonthPart, YearPart, Operands
<1>2. ASSUME NEW place, NEW x \in Parts, t = Typed(place, x), place = PlaceOf(x.form),
             place \in {"y", "m", "d"}, Split(x) = {x}, x.form # "int"
      PROVE  /\ t.operand \in Operands /\ t.place \in {"y", "m", "d"}
             /\ ReadAs(t.operand, other) = {t.means} /\ PlaceBeside(t.operand, other) = t.place
  BY <1>2 DEF Typed, Term, ReadAs, PlaceBeside, Operands
<1>3. ASSUME NEW n \in Int, NEW place \in {"y", "m", "d"}, t = Term(place, IntMeans(place, n), int(n))
      PROVE  /\ t.operand \in Operands /\ t.place \in {"y", "m", "d"}
             /\ ReadAs(t.operand, other) = {t.means} /\ PlaceBeside(t.operand, other) = t.place
  BY <1>1, <1>3 DEF Term, int, ReadAs, PlaceBeside
<1>4. CASE \E n \in WrittenYears: t = Typed("y", year_part(n))
  BY <1>1, <1>2, <1>4, SplitPart, WrittenAssumption DEF PlaceOf
<1>5. CASE \E n \in WrittenMonths: t = Typed("m", month_part(n))
  BY <1>1, <1>2, <1>5, SplitPart, WrittenAssumption DEF PlaceOf
<1>6. CASE \E n \in WrittenDays: t = Typed("d", day_part(n))
  BY <1>1, <1>2, <1>6, SplitPart, WrittenAssumption DEF PlaceOf, Days
<1>7. CASE \E n \in WrittenWeekdays, i \in WrittenIndexes: t = Typed("d", indexed_part(weekday(n), i))
  <2>1. PICK n \in WrittenWeekdays, i \in WrittenIndexes: t = Typed("d", indexed_part(weekday(n), i))
    BY <1>7
  <2> DEFINE x == indexed_part(weekday(n), i)
  <2>2. x = [form |-> "weekday_indexed", wdi |-> weekday_indexed(weekday(n), i)]
    BY DEF indexed_part
  <2>3. weekday(n) \in Int
    BY FieldsTyped, WrittenAssumption DEF Weekday
  <2>4. weekday_indexed(weekday(n), i) \in WeekdayIndexed
    BY <2>3, IndexedTyped, WrittenAssumption
  <2>5. x \in Parts
    BY <2>2, <2>4 DEF Parts, DayParts
  <2>6. Split(x) = {x}
    BY <2>2, SplitPart
  <2>7. x.form = "weekday_indexed" /\ PlaceOf("weekday_indexed") = "d"
    BY <2>2 DEF PlaceOf, Days
  <2> HIDE DEF x
  <2> QED
    BY <1>2, <2>1, <2>5, <2>6, <2>7 DEF x
<1>8. CASE \E n \in WrittenWeekdays: t = Typed("d", last_part(weekday(n)))
  <2>1. PICK n \in WrittenWeekdays: t = Typed("d", last_part(weekday(n)))
    BY <1>8
  <2> DEFINE x == last_part(weekday(n))
  <2>2. x = [form |-> "weekday_last", wd |-> weekday(n)] /\ weekday(n) \in Weekday
    BY FieldsTyped, WrittenAssumption DEF last_part
  <2>3. x \in Parts
    BY <2>2 DEF Parts, DayParts
  <2>4. Split(x) = {x}
    BY <2>2, SplitPart
  <2>5. x.form = "weekday_last" /\ PlaceOf("weekday_last") = "d"
    BY <2>2 DEF PlaceOf, Days
  <2> HIDE DEF x
  <2> QED
    BY <1>2, <2>1, <2>3, <2>4, <2>5 DEF x
<1>9. CASE t = Typed("d", last)
  <2>1. last \in Parts /\ last.form = "last" /\ PlaceOf("last") = "d"
    BY DEF last, Parts, DayParts, PlaceOf, Days
  <2> QED
    BY <1>2, <1>9, <2>1, SplitPart
<1>10. CASE t \in IntTerms
  BY <1>3, <1>10, WrittenAssumption DEF IntTerms, IntMeans
<1> QED
  BY <1>4, <1>5, <1>6, <1>7, <1>8, <1>9, <1>10 DEF TypedTerms

(* What stands on a side of a part is a term that has an overload with it. *)
LEMMA SlashForms ==
    ASSUME NEW l, NEW r, NEW e \in Slash(l, r)
    PROVE  /\ l.form # "int" => l.form \in (Single \ {"weekday"}) \cup {"year_month"} \cup MonthDays
           /\ r.form # "int" => r.form \in (Single \ {"weekday"}) \cup MonthDays
           /\ l.form = "int" => r.form \in Days \cup MonthDays
<1>1. Joins(l, r, e) \/ Joins(r, l, e) \/ JoinsInOrder(l, r, e)
  BY SlashJoins
<1>2. ASSUME NEW a, NEW b, Joins(a, b, e)
      PROVE  a.form \in Days \cup MonthDays /\ b.form \in {"month", "year", "int"}
  BY <1>2 DEF Joins, Days, MonthDays, IsMonth, IsYear
<1>3. ASSUME JoinsInOrder(l, r, e)
      PROVE  /\ l.form \in {"year", "month", "year_month"}
             /\ r.form \in {"month", "int"} \cup Days
  BY <1>3 DEF JoinsInOrder, Days, IsMonth, IsDay
<1>4. "int" \notin Days \cup MonthDays
  BY DEF Days, MonthDays
<1>5. Days \subseteq Single /\ "weekday" \notin Days /\ {"year", "month"} \subseteq Single
  BY DEF Single, Days
<1> QED
  BY <1>1, <1>2, <1>3, <1>4, <1>5

LEMMA ShortSequences ==
    /\ \A a, b: Append(<<a>>, b) = <<a, b>> /\ <<b>> \o <<a>> = <<b, a>>
    /\ \A a, b, c: Append(<<a, b>>, c) = <<a, b, c>> /\ <<c>> \o <<a, b>> = <<c, a, b>>
<1>1. /\ \A a: Len(<<a>>) = 1 /\ <<a>>[1] = a
      /\ \A a, b: Len(<<a, b>>) = 2 /\ <<a, b>>[1] = a /\ <<a, b>>[2] = b
      /\ \A a, b, c: Len(<<a, b, c>>) = 3 /\ <<a, b, c>>[1] = a /\ <<a, b, c>>[2] = b /\ <<a, b, c>>[3] = c
  OBVIOUS
<1>2. ASSUME NEW S, NEW s \in Seq(S), NEW t \in Seq(S), Len(s) = 2, Len(t) = 2, s[1] = t[1], s[2] = t[2]
      PROVE  s = t
  <2>1. \A i \in 1..Len(s): s[i] = t[i]
    BY <1>2
  <2> QED
    BY ONLY <1>2, <2>1, SeqEqual
<1>3. ASSUME NEW S, NEW s \in Seq(S), NEW t \in Seq(S), Len(s) = 3, Len(t) = 3,
             s[1] = t[1], s[2] = t[2], s[3] = t[3]
      PROVE  s = t
  <2>1. \A i \in 1..Len(s): s[i] = t[i]
    BY <1>3
  <2> QED
    BY ONLY <1>3, <2>1, SeqEqual
<1>4. ASSUME NEW a, NEW b PROVE Append(<<a>>, b) = <<a, b>> /\ <<b>> \o <<a>> = <<b, a>>
  <2> DEFINE S == {a, b}
             u == <<a>>
             v == <<b>>
  <2>1. a \in S /\ b \in S
    OBVIOUS
  <2> HIDE DEF S
  <2>2. u \in Seq(S) /\ v \in Seq(S) /\ <<a, b>> \in Seq(S) /\ <<b, a>> \in Seq(S)
    BY <2>1
  <2>3. Len(u) = 1 /\ u[1] = a /\ Len(v) = 1 /\ v[1] = b
    BY <1>1
  <2>4. Append(u, b) = <<a, b>>
    <3> HIDE DEF u, v
    <3>1. /\ Append(u, b) \in Seq(S) /\ Len(Append(u, b)) = Len(u) + 1
          /\ \A i \in 1..Len(u): Append(u, b)[i] = u[i]
          /\ Append(u, b)[Len(u) + 1] = b
      BY ONLY <2>1, <2>2, AppendProperties
    <3>2. /\ Append(u, b) \in Seq(S) /\ Len(Append(u, b)) = 2
          /\ Append(u, b)[1] = a /\ Append(u, b)[2] = b
      BY ONLY <2>3, <3>1
    <3> QED
      BY <1>1, <1>2, <2>2, <3>2
  <2>5. v \o u = <<b, a>>
    <3> HIDE DEF u, v
    <3>1. /\ v \o u \in Seq(S) /\ Len(v \o u) = Len(v) + Len(u)
          /\ \A i \in 1..Len(v) + Len(u): (v \o u)[i] = IF i <= Len(v) THEN v[i] ELSE u[i - Len(v)]
      BY ONLY <2>2, ConcatProperties
    <3>2. /\ v \o u \in Seq(S) /\ Len(v \o u) = 2
          /\ (v \o u)[1] = b /\ (v \o u)[2] = a
      BY ONLY <2>3, <3>1
    <3> QED
      BY <1>1, <1>2, <2>2, <3>2
  <2> QED
    BY <2>4, <2>5
<1>5. ASSUME NEW a, NEW b, NEW c
      PROVE  Append(<<a, b>>, c) = <<a, b, c>> /\ <<c>> \o <<a, b>> = <<c, a, b>>
  <2> DEFINE S == {a, b, c}
             u == <<a, b>>
             v == <<c>>
  <2>1. a \in S /\ b \in S /\ c \in S
    OBVIOUS
  <2> HIDE DEF S
  <2>2. u \in Seq(S) /\ v \in Seq(S) /\ <<a, b, c>> \in Seq(S) /\ <<c, a, b>> \in Seq(S)
    BY <2>1
  <2>3. Len(u) = 2 /\ u[1] = a /\ u[2] = b /\ Len(v) = 1 /\ v[1] = c
    BY <1>1
  <2>4. Append(u, c) = <<a, b, c>>
    <3> HIDE DEF u, v
    <3>1. /\ Append(u, c) \in Seq(S) /\ Len(Append(u, c)) = Len(u) + 1
          /\ \A i \in 1..Len(u): Append(u, c)[i] = u[i]
          /\ Append(u, c)[Len(u) + 1] = c
      BY ONLY <2>1, <2>2, AppendProperties
    <3>2. /\ Append(u, c) \in Seq(S) /\ Len(Append(u, c)) = 3
          /\ Append(u, c)[1] = a /\ Append(u, c)[2] = b /\ Append(u, c)[3] = c
      BY ONLY <2>3, <3>1
    <3> QED
      BY <1>1, <1>3, <2>2, <3>2
  <2>5. v \o u = <<c, a, b>>
    <3> HIDE DEF u, v
    <3>1. /\ v \o u \in Seq(S) /\ Len(v \o u) = Len(v) + Len(u)
          /\ \A i \in 1..Len(v) + Len(u): (v \o u)[i] = IF i <= Len(v) THEN v[i] ELSE u[i - Len(v)]
      BY ONLY <2>2, ConcatProperties
    <3>2. /\ v \o u \in Seq(S) /\ Len(v \o u) = 3
          /\ (v \o u)[1] = c /\ (v \o u)[2] = a /\ (v \o u)[3] = b
      BY ONLY <2>3, <3>1
    <3> QED
      BY <1>1, <1>3, <2>2, <3>2
  <2> QED
    BY <2>4, <2>5
<1> QED
  BY <1>4, <1>5

(* An int is written in the place that it is read as.                      *)
LEMMA IntAfter ==
    ASSUME NEW form, NEW places, NEW place, PlacedAs(form, places),
           form \in (Single \ {"weekday"}) \cup {"year_month"} \cup MonthDays,
           InOrder(Append(places, place))
    PROVE  place = IntPlace(form)
<1>1. \A a, b: Append(<<a>>, b) = <<a, b>>
  BY ShortSequences
<1>2. \A a, b, c: Append(<<a, b>>, c) = <<a, b, c>>
  BY ShortSequences
<1>3. CASE form \in Single \ {"weekday"}
  <2>1. <<PlaceOf(form), place>> \in {<<"y", "m">>, <<"m", "d">>, <<"d", "m">>}
    <3>1. places = <<PlaceOf(form)>>
      BY <1>3 DEF PlacedAs
    <3>2. InOrder(<<PlaceOf(form), place>>)
      BY <1>1, <3>1
    <3> QED
      BY ONLY <3>2, OrderOfPlaces
  <2>2. CASE form = "year"
    BY <2>1, <2>2 DEF PlaceOf, IntPlace
  <2>3. CASE form = "month"
    BY <2>1, <2>3 DEF PlaceOf, IntPlace, Days
  <2>4. CASE form \in Days
    <3>1. form # "year" /\ form # "month"
      BY <2>4 DEF Days
    <3> QED
      BY <2>1, <2>4, <3>1 DEF PlaceOf, IntPlace
  <2> QED
    BY <1>3, <2>2, <2>3, <2>4 DEF Single
<1>4. CASE form = "year_month"
  <2>1. <<"y", "m", place>> \in Orders
    <3>1. places = <<"y", "m">>
      BY <1>4 DEF PlacedAs
    <3>2. InOrder(<<"y", "m", place>>)
      BY <1>2, <3>1
    <3> QED
      BY ONLY <3>2, OrderOfPlaces
  <2> QED
    BY <1>4, <2>1 DEF Orders, IntPlace, Days
<1>5. CASE form \in MonthDays
  <2>1. <<"m", "d", place>> \in Orders \/ <<"d", "m", place>> \in Orders
    <3>1. places = <<"m", "d">> \/ places = <<"d", "m">>
      BY <1>5 DEF PlacedAs
    <3>2. InOrder(<<"m", "d", place>>) \/ InOrder(<<"d", "m", place>>)
      BY <1>2, <3>1
    <3> QED
      BY ONLY <3>2, OrderOfPlaces
  <2>2. form \notin Days \cup {"year", "month", "year_month"}
    BY <1>5 DEF MonthDays, Days
  <2> QED
    BY <1>5, <2>1, <2>2 DEF Orders, IntPlace
<1> QED
  BY <1>3, <1>4, <1>5

LEMMA IntBefore ==
    ASSUME NEW form, NEW places, NEW place, PlacedAs(form, places),
           form \in Days \cup MonthDays, InOrder(<<place>> \o places)
    PROVE  place = IntPlace(form)
<1>1. \A a, b: <<b>> \o <<a>> = <<b, a>>
  BY ShortSequences
<1>2. \A a, b, c: <<c>> \o <<a, b>> = <<c, a, b>>
  BY ShortSequences
<1>3. CASE form \in Days
  <2>1. form \in Single /\ PlaceOf(form) = "d" /\ IntPlace(form) = "m"
    BY <1>3 DEF Single, PlaceOf, IntPlace, Days
  <2>2. <<place, "d">> \in {<<"y", "m">>, <<"m", "d">>, <<"d", "m">>}
    <3>1. places = <<"d">>
      BY <2>1 DEF PlacedAs
    <3>2. InOrder(<<place, "d">>)
      BY <1>1, <3>1
    <3> QED
      BY ONLY <3>2, OrderOfPlaces
  <2> QED
    BY <2>1, <2>2
<1>4. CASE form \in MonthDays
  <2>1. <<place, "m", "d">> \in Orders \/ <<place, "d", "m">> \in Orders
    <3>1. places = <<"m", "d">> \/ places = <<"d", "m">>
      BY <1>4 DEF PlacedAs
    <3>2. InOrder(<<place, "m", "d">>) \/ InOrder(<<place, "d", "m">>)
      BY <1>2, <3>1
    <3> QED
      BY ONLY <3>2, OrderOfPlaces
  <2>2. form \notin Days \cup {"year", "month", "year_month"}
    BY <1>4 DEF MonthDays, Days
  <2> QED
    BY <1>4, <2>1, <2>2 DEF Orders, IntPlace
<1> QED
  BY <1>3, <1>4

LEMMA PartForms ==
    ASSUME NEW x \in Parts
    PROVE  x \in Operands /\ x.form # "int"
<1>1. x \in Operands
  BY DEF Operands
<1>2. x.form # "int"
  BY DEF Parts, DayParts, MonthPart, YearPart, MonthDayParts, Dates, last,
         YearMonthDay, YearMonthDayLast, YearMonthWeekday, YearMonthWeekdayLast
<1> QED
  BY <1>1, <1>2

LEMMA DateNotPlaced ==
    ASSUME NEW x \in Dates, NEW places
    PROVE  PlacedAs(x.form, places)
<1>1. x.form \in DateForms
  BY DEF Dates, DateForms, YearMonthDay, YearMonthDayLast, YearMonthWeekday, YearMonthWeekdayLast
<1> QED
  BY <1>1 DEF PlacedAs, DateForms, Single, Days, MonthDays

LEMMA PlaceOfSingle ==
    ASSUME NEW form, PlaceOf(form) \in {"y", "m", "d"}
    PROVE  form \in Single
BY DEF PlaceOf, Single

(* So every way of writing on keeps the parts in order.                    *)
LEMMA WrittenAfter ==
    ASSUME PartsInOrder, NEW t \in TypedTerms \cup IntTerms, WriteAfter(t)
    PROVE  PartsInOrder'
<1> DEFINE op == t.operand
<1>1. part' \in Slash(part, op) /\ meant' = meant \cup {t.means} /\ order' = Append(order, t.place)
  BY DEF WriteAfter, Write
<1>2. part \in Operands /\ part.form # "int"
  BY PartForms DEF PartsInOrder
<1>3. op.form = "int" => t.place = IntPlace(part.form)
  BY <1>1, <1>2, SlashForms, IntAfter DEF WriteAfter, Write, PartsInOrder
<1>4. /\ op \in Operands /\ ReadAs(op, part) = {t.means} /\ PlaceBeside(op, part) = t.place
  BY <1>3, TermRead
<1>5. ReadAs(part, op) = meant /\ PlaceBeside(part, op) = PlaceOf(part.form)
  BY <1>2 DEF ReadAs, PlaceBeside, PartsInOrder
<1> HIDE DEF op
<1>6. /\ part' \in Parts /\ Split(part') = meant \cup {t.means}
      /\ \/ part' \in Dates
         \/ /\ PlaceOf(part.form) \in {"y", "m", "d"}
            /\ PlacedAs(part'.form, <<PlaceOf(part.form), t.place>>)
  BY <1>1, <1>2, <1>4, <1>5, Joined
<1>7. PlacedAs(part'.form, order')
  <2>1. CASE part' \in Dates
    BY <2>1, DateNotPlaced
  <2>2. CASE part' \notin Dates
    <3>1. order = <<PlaceOf(part.form)>>
      BY <1>6, <2>2, PlaceOfSingle DEF PartsInOrder, PlacedAs
    <3>2. order' = <<PlaceOf(part.form), t.place>>
      BY <1>1, <3>1, ShortSequences
    <3> QED
      BY <1>6, <2>2, <3>2
  <2> QED
    BY <2>1, <2>2
<1> QED
  BY <1>1, <1>6, <1>7 DEF PartsInOrder

LEMMA WrittenBefore ==
    ASSUME PartsInOrder, NEW t \in TypedTerms \cup IntTerms, WriteBefore(t)
    PROVE  PartsInOrder'
<1> DEFINE op == t.operand
<1>1. part' \in Slash(op, part) /\ meant' = meant \cup {t.means} /\ order' = <<t.place>> \o order
  BY DEF WriteBefore, Write
<1>2. part \in Operands /\ part.form # "int"
  BY PartForms DEF PartsInOrder
<1>3. op.form = "int" => t.place = IntPlace(part.form)
  BY <1>1, <1>2, SlashForms, IntBefore DEF WriteBefore, Write, PartsInOrder
<1>4. /\ op \in Operands /\ ReadAs(op, part) = {t.means} /\ PlaceBeside(op, part) = t.place
  BY <1>3, TermRead
<1>5. ReadAs(part, op) = meant /\ PlaceBeside(part, op) = PlaceOf(part.form)
  BY <1>2 DEF ReadAs, PlaceBeside, PartsInOrder
<1> HIDE DEF op
<1>6. /\ part' \in Parts /\ Split(part') = meant \cup {t.means}
      /\ \/ part' \in Dates
         \/ /\ PlaceOf(part.form) \in {"y", "m", "d"}
            /\ PlacedAs(part'.form, <<t.place, PlaceOf(part.form)>>)
  BY <1>1, <1>2, <1>4, <1>5, Joined
<1>7. PlacedAs(part'.form, order')
  <2>1. CASE part' \in Dates
    BY <2>1, DateNotPlaced
  <2>2. CASE part' \notin Dates
    <3>1. order = <<PlaceOf(part.form)>>
      BY <1>6, <2>2, PlaceOfSingle DEF PartsInOrder, PlacedAs
    <3>2. order' = <<t.place, PlaceOf(part.form)>>
      BY <1>1, <3>1, ShortSequences
    <3> QED
      BY <1>6, <2>2, <3>2
  <2> QED
    BY <2>1, <2>2
<1> QED
  BY <1>1, <1>6, <1>7 DEF PartsInOrder

(* The step of a part is the only value that is as far away, in its cycle. *)
LEMMA DayAfterStep ==
    ASSUME NEW d \in Day, NEW n \in Int
    PROVE  /\ day(day_plus(d, n)) = day_plus(d, n) /\ day_plus(d, n) \in Day
           /\ {x \in Day: (x - d - n) % 256 = 0} = {day_plus(d, n)}
<1> DEFINE e == (d + n) % 256
           Reached(x) == (x - d - n) % 256 = 0
<1>1. d \in Int
  BY DEF Day
<1>2. e \in Day /\ e % 256 = e /\ Reached(e)
  BY <1>1, SMT DEF Day
<1>3. ASSUME NEW x \in Day, Reached(x) PROVE x = e
  BY <1>1, <1>3, SMT DEF Day
<1>4. day_plus(d, n) = e /\ day(e) = e % 256
  BY DEF day_plus, day
<1> HIDE DEF e, Reached
<1>5. {x \in Day: Reached(x)} = {e}
  BY ONLY <1>2, <1>3, Zenon
<1>6. day(day_plus(d, n)) = e /\ day_plus(d, n) = e
  BY ONLY <1>2, <1>4, Zenon
<1> QED
  BY ONLY <1>2, <1>5, <1>6, Zenon DEF Reached

LEMMA MonthAfterStep ==
    ASSUME NEW m \in Month, NEW n \in Int
    PROVE  /\ month(month_plus(m, n)) = month_plus(m, n) /\ month_plus(m, n) \in Month
           /\ {x \in 1..12: (x - m - n) % 12 = 0} = {month_plus(m, n)}
<1> DEFINE mu == m + n - 1
           yr == Quot(IF mu >= 0 THEN mu ELSE mu - 11, 12)
           e == mu - yr * 12 + 1
<1>1. m \in Int /\ mu \in Int
  BY DEF Month
<1>2. yr \in Int /\ 12 * yr <= mu /\ mu < 12 * yr + 12
  <2> HIDE DEF mu
  <2> QED
    BY <1>1, SMT DEF Quot
<1> HIDE DEF yr
<1>3. e \in 1..12 /\ e % 256 = e
  BY <1>1, <1>2, SMT
<1>4. (e - m - n) % 12 = 0
  <2>1. e - m - n = 12 * (-yr)
    BY <1>1, <1>2, SMT
  <2> QED
    BY <1>2, <2>1, SMT
<1>5. ASSUME NEW x \in 1..12, (x - m - n) % 12 = 0 PROVE x = e
  <2>1. (x - e) % 12 = 0
    <3>1. x - e = (x - m - n) + 12 * yr
      BY <1>1, <1>2, SMT
    <3> QED
      BY <1>1, <1>2, <1>5, <3>1, SMT
  <2>2. x - e \in -11..11
    BY <1>3, SMT
  <2> QED
    BY <1>1, <1>2, <2>1, <2>2, SMT
<1>6. month_plus(m, n) = e % 256 /\ month(e) = e % 256
  BY DEF month_plus, month, yr
<1> DEFINE T == {x \in 1..12: (x - m - n) % 12 = 0}
<1> HIDE DEF e
<1>7. T = {e}
  BY <1>3, <1>4, <1>5, Zenon
<1>8. e \in Month
  BY <1>3, SMT DEF Month
<1> HIDE DEF T
<1>9. month(month_plus(m, n)) = e /\ month_plus(m, n) = e
  BY <1>3, <1>6, Zenon
<1> QED
  BY <1>7, <1>8, <1>9, Zenon DEF T

LEMMA WeekdayAfterStep ==
    ASSUME NEW wd \in Weekday, NEW n \in Int
    PROVE  /\ weekday(weekday_plus(wd, n)) = weekday_plus(wd, n) /\ weekday_plus(wd, n) \in Weekday
           /\ {x \in 0..6: (x - wd - n) % 7 = 0} = {weekday_plus(wd, n)}
<1> DEFINE wdu == wd + n
           wk == Quot(IF wdu >= 0 THEN wdu ELSE wdu - 6, 7)
           e == wdu - wk * 7
<1>1. wd \in Int /\ wdu \in Int
  BY DEF Weekday
<1>2. wk \in Int /\ 7 * wk <= wdu /\ wdu < 7 * wk + 7
  <2> HIDE DEF wdu
  <2> QED
    BY <1>1, SMT DEF Quot
<1> HIDE DEF wk
<1>3. e \in 0..6 /\ weekday(e) = e
  BY <1>1, <1>2, SMT DEF weekday
<1>4. (e - wd - n) % 7 = 0
  <2>1. e - wd - n = 7 * (-wk)
    BY <1>1, <1>2, SMT
  <2> QED
    BY <1>2, <2>1, SMT
<1>5. ASSUME NEW x \in 0..6, (x - wd - n) % 7 = 0 PROVE x = e
  <2>1. (x - e) % 7 = 0
    <3>1. x - e = (x - wd - n) + 7 * wk
      BY <1>1, <1>2, SMT
    <3> QED
      BY <1>1, <1>2, <1>5, <3>1, SMT
  <2>2. x - e \in -6..6
    BY <1>3, SMT
  <2> QED
    BY <1>1, <1>2, <2>1, <2>2, SMT
<1>6. weekday_plus(wd, n) = weekday(e)
  BY DEF weekday_plus, wk
<1> DEFINE T == {x \in 0..6: (x - wd - n) % 7 = 0}
<1> HIDE DEF e
<1>7. T = {e}
  BY <1>3, <1>4, <1>5, Zenon
<1>8. e \in Weekday
  BY <1>3, SMT DEF Weekday
<1> HIDE DEF T
<1>9. weekday(weekday_plus(wd, n)) = e /\ weekday_plus(wd, n) = e
  BY <1>3, <1>6, Zenon
<1> QED
  BY <1>7, <1>8, <1>9, Zenon DEF T

LEMMA ShortRange == \A z: z \in Year <=> z \in Int /\ -32768 <= z /\ z <= 32767
<1> DEFINE a == -32768
           b == 32767
<1>1. a \in Int /\ b \in Int /\ ShortMin = a /\ ShortMax = b
  BY SMT DEF ShortMin, ShortMax
<1> HIDE DEF a, b
<1>2. \A z: z \in a..b <=> z \in Int /\ a <= z /\ z <= b
  BY <1>1, SMT
<1>3. Year = a..b
  BY <1>1, Zenon DEF Year
<1>4. \A z: z \in Year <=> z \in Int /\ a <= z /\ z <= b
  BY <1>2, <1>3, Zenon
<1> QED
  BY <1>4, SMT DEF a, b

\* The years that n years from y may be stored as.
Turns(y, n) == {y + n - 65536, y + n, y + n + 65536}

LEMMA YearAfterStep ==
    ASSUME NEW y \in Year, NEW n \in Int, -65536 <= n, n <= 65536
    PROVE  /\ year(year_plus(y, n)) = year_plus(y, n) /\ year_plus(y, n) \in Year
           /\ \A z \in Year: year(z) = z
           /\ Turns(y, n) \cap Year = {year_plus(y, n)}
<1> DEFINE e == ((y + n + 32768) % 65536) - 32768
<1>1. \A z: z \in Year <=> z \in Int /\ -32768 <= z /\ z <= 32767
  BY ShortRange
<1>2. \A z \in Year: year(z) = z
  BY <1>1, SMT DEF year
<1>3. y \in Int /\ -32768 <= y /\ y <= 32767
  BY <1>1
<1>4. e \in Int /\ -32768 <= e /\ e <= 32767
  BY <1>3, SMT
<1>5. e = y + n - 65536 \/ e = y + n \/ e = y + n + 65536
  BY <1>3, SMT
<1>6. year_plus(y, n) = e
  BY SMT DEF year_plus, year
<1> HIDE DEF e
<1>7. \A z \in Turns(y, n): z \in Int /\ -32768 <= z /\ z <= 32767 => z = e
  BY <1>3, <1>4, <1>5, SMT DEF Turns
<1>8. e \in Year
  BY <1>1, <1>4
<1>9. e \in Turns(y, n)
  BY <1>5, SMT DEF Turns
<1>10. Turns(y, n) \cap Year = {e}
  <2>1. \A z \in Turns(y, n): z \in Year => z = e
    BY ONLY <1>1, <1>7
  <2> QED
    BY ONLY <1>8, <1>9, <2>1, Zenon
<1>11. year(e) = e
  BY ONLY <1>2, <1>8, Zenon
<1>12. Turns(y, n) \cap Year = {year_plus(y, n)}
  BY ONLY <1>6, <1>10, Zenon
<1>13. year(year_plus(y, n)) = year_plus(y, n) /\ year_plus(y, n) \in Year
  BY ONLY <1>6, <1>8, <1>11, Zenon
<1> QED
  BY ONLY <1>2, <1>12, <1>13, Zenon

LEMMA YearMonthAfterStep ==
    ASSUME NEW y \in Year, NEW m \in Month, NEW n \in Int
    PROVE  LET x == year_month_plus_months([y |-> y, m |-> m], n)
               k == 12 * y + m - 1 + n
           IN  /\ x.y = year(k \div 12) /\ x.m = month((k % 12) + 1)
               /\ k \div 12 \in Int /\ (k % 12) + 1 \in Int
<1> DEFINE dmi == m - 1 + n
           dy == Quot(IF dmi >= 0 THEN dmi ELSE dmi - 11, 12)
           k == 12 * y + m - 1 + n
           x == year_month_plus_months([y |-> y, m |-> m], n)
<1>1. y \in Int /\ m \in Int /\ dmi \in Int
  <2>1. y \in Int
    BY ShortRange
  <2>2. m \in Int
    BY DEF Month
  <2> QED
    BY ONLY <2>1, <2>2, n \in Int, SMT
<1>2. dy \in Int /\ 12 * dy <= dmi /\ dmi < 12 * dy + 12
  <2> HIDE DEF dmi
  <2> QED
    BY <1>1, SMT DEF Quot
<1>3. x.y = year(y + dy) /\ x.m = month(dmi - dy * 12 + 1)
  BY DEF year_month_plus_months, year_month, year_plus
<1> HIDE DEF dy, x
<1>4. k \in Int /\ k = 12 * (y + dy) + (dmi - dy * 12)
  BY <1>1, <1>2, SMT
<1>5. dmi - dy * 12 \in 0..11 /\ y + dy \in Int
  BY <1>1, <1>2, SMT
<1>6. k \div 12 = y + dy /\ k % 12 = dmi - dy * 12
  <2> DEFINE q == y + dy
             r == dmi - dy * 12
  <2> HIDE DEF q, r, k
  <2>1. k = 12 * q + r /\ r \in 0..11 /\ q \in Int
    BY <1>4, <1>5 DEF q, r
  <2>2. k \div 12 = q /\ k % 12 = r
    BY <2>1, SMT
  <2> QED
    BY <2>2 DEF q, r
<1> HIDE DEF k
<1> QED
  BY <1>3, <1>4, <1>5, <1>6 DEF x, k

(* A part that has only one place keeps it.                                *)
LEMMA SinglePart ==
    ASSUME NEW x \in Parts, NEW form \in Single, x.form = form, PlacedAs(form, order),
           part' \in Parts, part'.form \in Single, PlaceOf(part'.form) = PlaceOf(form),
           Split(part') = meant', order' = order
    PROVE  PartsInOrder'
<1>1. \A f \in Single: f # "year_month" /\ f \notin MonthDays
  BY DEF Single, MonthDays, Days
<1>2. order = <<PlaceOf(form)>>
  BY DEF PlacedAs
<1>3. PlacedAs(part'.form, order')
  BY <1>1, <1>2 DEF PlacedAs
<1> QED
  BY <1>3 DEF PartsInOrder

LEMMA PartFields ==
    ASSUME NEW x \in Parts
    PROVE  /\ x.form = "day" => x.d \in Day
           /\ x.form = "month" => x.m \in Month
           /\ x.form = "year" => x.y \in Year
           /\ x.form = "weekday" => x.wd \in Weekday
           /\ x.form = "year_month" => /\ x = [form |-> "year_month", y |-> x.y, m |-> x.m]
                                       /\ x.y \in Year /\ x.m \in Month
BY DEF Parts, DayParts, MonthPart, YearPart, MonthDayParts, Dates, last,
       YearMonthDay, YearMonthDayLast, YearMonthWeekday, YearMonthWeekdayLast

LEMMA Places ==
    /\ {"day", "month", "year", "weekday", "weekday_indexed", "weekday_last"} \subseteq Single
    /\ PlaceOf("day") = "d" /\ PlaceOf("month") = "m" /\ PlaceOf("year") = "y"
    /\ PlaceOf("weekday") = "d" /\ PlaceOf("weekday_indexed") = "d" /\ PlaceOf("weekday_last") = "d"
BY DEF Single, PlaceOf, Days

LEMMA Stepped ==
    ASSUME PartsInOrder, NEW n \in PartSteps,
           StepDay(n) \/ StepMonth(n) \/ StepYear(n) \/ StepWeekday(n)
    PROVE  PartsInOrder'
<1>1. part \in Parts /\ PlacedAs(part.form, order)
  BY DEF PartsInOrder
<1>2. n \in Int
  BY PartStepsAssumption
<1>3. n \in Int /\ -65536 <= n /\ n <= 65536
  BY PartStepsAssumption
<1>4. CASE StepDay(n)
  <2> DEFINE e == day_plus(part.d, n)
  <2>1. part.form = "day" /\ part.d \in Day
    BY <1>1, <1>4, PartFields DEF StepDay
  <2>2. day(e) = e /\ e \in Day /\ {x \in Day: (x - part.d - n) % 256 = 0} = {e}
    BY ONLY <1>2, <2>1, DayAfterStep
  <2>3. part' = [form |-> "day", d |-> e] /\ meant' = {[form |-> "day", d |-> e]} /\ order' = order
    BY <1>4, <2>2 DEF StepDay, day_part
  <2> HIDE DEF e
  <2>4. part' \in Parts /\ part'.form = "day" /\ Split(part') = meant'
    BY <2>2, <2>3, SplitPart DEF Parts, DayParts
  <2> QED
    BY <1>1, <2>1, <2>3, <2>4, SinglePart, Places
<1>5. CASE StepMonth(n)
  <2> DEFINE e == month_plus(part.m, n)
  <2>1. part.form = "month" /\ part.m \in Month
    BY <1>1, <1>5, PartFields DEF StepMonth
  <2>2. month(e) = e /\ e \in Month /\ {x \in 1..12: (x - part.m - n) % 12 = 0} = {e}
    BY ONLY <1>2, <2>1, MonthAfterStep
  <2>3. part' = [form |-> "month", m |-> e] /\ meant' = {[form |-> "month", m |-> e]} /\ order' = order
    BY <1>5, <2>2 DEF StepMonth, month_part
  <2> HIDE DEF e
  <2>4. part' \in Parts /\ part'.form = "month" /\ Split(part') = meant'
    BY <2>2, <2>3, SplitPart DEF Parts, MonthPart
  <2> QED
    BY <1>1, <2>1, <2>3, <2>4, SinglePart, Places
<1>6. CASE StepYear(n)
  <2> DEFINE e == year_plus(part.y, n)
             T == Turns(part.y, n) \cap Year
  <2>1. part.form = "year" /\ part.y \in Year
    BY <1>1, <1>6, PartFields DEF StepYear
  <2>2. year(e) = e /\ e \in Year /\ T = {e}
    BY ONLY <1>3, <2>1, YearAfterStep
  <2>3. part' = year_part(e) /\ meant' = {year_part(z): z \in T} /\ order' = order
    BY <1>6, SMT DEF StepYear, Turns
  <2> HIDE DEF e, T
  <2>4. part' = [form |-> "year", y |-> e] /\ meant' = {[form |-> "year", y |-> e]}
    BY <2>2, <2>3 DEF year_part
  <2>5. part' \in Parts /\ part'.form = "year" /\ Split(part') = meant'
    BY <2>2, <2>4, SplitPart DEF Parts, YearPart
  <2> QED
    BY <1>1, <2>1, <2>3, <2>5, SinglePart, Places
<1>7. CASE StepWeekday(n)
  <2> DEFINE e == weekday_plus(part.wd, n)
  <2>1. part.form = "weekday" /\ part.wd \in Weekday
    BY <1>1, <1>7, PartFields DEF StepWeekday
  <2>2. weekday(e) = e /\ e \in Weekday /\ {x \in 0..6: (x - part.wd - n) % 7 = 0} = {e}
    BY ONLY <1>2, <2>1, WeekdayAfterStep
  <2>3. part' = [form |-> "weekday", wd |-> e] /\ meant' = {[form |-> "weekday", wd |-> e]} /\ order' = order
    BY <1>7, <2>2 DEF StepWeekday, weekday_part
  <2> HIDE DEF e
  <2>4. part' \in Parts /\ part'.form = "weekday" /\ Split(part') = meant'
    BY <2>2, <2>3, SplitPart DEF Parts
  <2> QED
    BY <1>1, <2>1, <2>3, <2>4, SinglePart, Places
<1> QED
  BY <1>4, <1>5, <1>6, <1>7

LEMMA Indexed ==
    ASSUME PartsInOrder, (\E i \in WrittenIndexes: Index(i)) \/ IndexLast
    PROVE  PartsInOrder'
<1>1. part \in Parts /\ PlacedAs(part.form, order)
  BY DEF PartsInOrder
<1>2. part.form = "weekday" /\ part.wd \in Weekday
  BY <1>1, PartFields DEF Index, IndexLast
<1>3. CASE \E i \in WrittenIndexes: Index(i)
  <2> PICK i \in WrittenIndexes: Index(i)
    BY <1>3
  <2> DEFINE w == weekday_indexed(part.wd, i)
  <2>1. part.wd \in Int /\ i \in Int
    BY <1>2, WrittenAssumption DEF Weekday
  <2>2. w \in WeekdayIndexed
    BY <2>1, IndexedTyped
  <2>3. part' = [form |-> "weekday_indexed", wdi |-> w] /\ meant' = {part'} /\ order' = order
    BY DEF Index, indexed_part
  <2> HIDE DEF w
  <2>4. part' \in Parts /\ part'.form = "weekday_indexed" /\ Split(part') = meant'
    BY <2>2, <2>3, SplitPart DEF Parts, DayParts
  <2> QED
    BY <1>1, <1>2, <2>3, <2>4, SinglePart, Places
<1>4. CASE IndexLast
  <2>1. part' = [form |-> "weekday_last", wd |-> part.wd] /\ meant' = {part'} /\ order' = order
    BY <1>4 DEF IndexLast, last_part
  <2>2. part' \in Parts /\ part'.form = "weekday_last" /\ Split(part') = meant'
    BY <1>2, <2>1, SplitPart DEF Parts, DayParts
  <2> QED
    BY <1>1, <1>2, <2>1, <2>2, SinglePart, Places
<1> QED
  BY <1>3, <1>4

LEMMA FieldsReplaced ==
    ASSUME NEW y, NEW m, NEW a, NEW b
    PROVE  [[form |-> "year_month", y |-> y, m |-> m] EXCEPT !.y = a, !.m = b]
           = [form |-> "year_month", y |-> a, m |-> b]
<1> DEFINE r == [form |-> "year_month", y |-> y, m |-> m]
           s == [r EXCEPT !.y = a, !.m = b]
           f == [field \in {"form", "y", "m"} |->
                     IF field = "form" THEN "year_month" ELSE IF field = "y" THEN a ELSE b]
<1>1. DOMAIN r = {"form", "y", "m"} /\ r.form = "year_month"
  OBVIOUS
<1>2. s = f
  <2> HIDE DEF r
  <2> QED
    BY <1>1
<1>3. [form |-> "year_month", y |-> a, m |-> b] = f
  OBVIOUS
<1> QED
  BY <1>2, <1>3

LEMMA YearMonthStepped ==
    ASSUME PartsInOrder, NEW n \in PartSteps, NEW unit \in {"months", "years"}, StepYearMonth(n, unit)
    PROVE  PartsInOrder'
<1> DEFINE x == IF unit = "months" THEN year_month_plus_months(part, n) ELSE year_month_plus_years(part, n)
           k == 12 * part.y + part.m - 1 + n
<1>1. part \in Parts /\ PlacedAs(part.form, order) /\ part.form = "year_month"
  BY DEF PartsInOrder, StepYearMonth
<1>2. n \in Int /\ part = [form |-> "year_month", y |-> part.y, m |-> part.m]
      /\ part.y \in Year /\ part.m \in Month
  BY <1>1, PartFields, PartStepsAssumption
<1>3. part' = [part EXCEPT !.y = x.y, !.m = x.m] /\ order' = order
  BY Zenon DEF StepYearMonth
<1>4. meant' = IF unit = "months" THEN {year_part(k \div 12), month_part((k % 12) + 1)}
               ELSE {year_part(part.y + n), month_part(part.m)}
  BY Zenon DEF StepYearMonth
<1>5. /\ meant' = {[form |-> "year", y |-> x.y], [form |-> "month", m |-> x.m]}
      /\ x.y \in Year /\ x.m \in Month
  <2>1. CASE unit = "months"
    <3> DEFINE z == year_month_plus_months([y |-> part.y, m |-> part.m], n)
    <3>1. /\ z.y = year(k \div 12) /\ z.m = month((k % 12) + 1)
          /\ k \div 12 \in Int /\ (k % 12) + 1 \in Int
      BY <1>2, YearMonthAfterStep
    <3>2. x = z
      BY <2>1 DEF year_month_plus_months
    <3> HIDE DEF x, z, k
    <3>3. z.y \in Year /\ z.m \in Month
      BY <3>1, FieldsTyped
    <3> QED
      BY <1>4, <2>1, <3>1, <3>2, <3>3 DEF year_part, month_part
  <2>2. CASE unit = "years"
    <3>1. x.y = year(part.y + n) /\ x.m = part.m
      BY <2>2 DEF year_month_plus_years, year_month, year_plus
    <3>2. part.y + n \in Int
      BY <1>2, ShortRange
    <3>3. month(part.m) = part.m
      BY <1>2 DEF month, Month
    <3> HIDE DEF x, k
    <3>4. x.y \in Year
      BY <3>1, <3>2, FieldsTyped
    <3> QED
      BY <1>2, <1>4, <2>2, <3>1, <3>3, <3>4 DEF year_part, month_part
  <2> QED
    BY <2>1, <2>2
<1> HIDE DEF x, k
<1>6. part' = [form |-> "year_month", y |-> x.y, m |-> x.m]
  <2>1. \A y, m, a, b: [[form |-> "year_month", y |-> y, m |-> m] EXCEPT !.y = a, !.m = b]
                        = [form |-> "year_month", y |-> a, m |-> b]
    BY FieldsReplaced
  <2>2. part' = [[form |-> "year_month", y |-> part.y, m |-> part.m] EXCEPT !.y = x.y, !.m = x.m]
    BY ONLY <1>2, <1>3, Zenon
  <2> QED
    BY ONLY <2>1, <2>2, Zenon
<1>7. part' \in Parts /\ part'.form = "year_month" /\ Split(part') = meant'
  BY <1>5, <1>6, SplitComposed DEF Parts
<1> QED
  BY <1>1, <1>3, <1>7 DEF PartsInOrder

LEMMA WeekdayTerm ==
    ASSUME NEW n \in WrittenWeekdays
    PROVE  /\ weekday_part(n) \in Parts /\ weekday_part(n).form = "weekday"
           /\ Split(weekday_part(n)) = {weekday_part(n)}
<1>1. weekday_part(n) = [form |-> "weekday", wd |-> weekday(n)] /\ weekday(n) \in Weekday
  BY FieldsTyped, WrittenAssumption DEF weekday_part
<1> QED
  BY <1>1, SplitPart DEF Parts

LEMMA FirstPart == InitParts => PartsInOrder
<1> SUFFICES ASSUME InitParts PROVE PartsInOrder
  OBVIOUS
<1>1. \A f \in Single: f # "year_month" /\ f \notin MonthDays
  BY DEF Single, MonthDays, Days
<1>2. PICK t \in TypedTerms \cup {Typed("d", weekday_part(n)): n \in WrittenWeekdays}:
          part = t.operand /\ meant = {t.means} /\ order = <<t.place>>
  BY Zenon DEF InitParts
<1>3. CASE t \in TypedTerms
  <2>1. \E place, means: t = Typed(place, means)
    BY <1>3 DEF TypedTerms
  <2>2. t.operand = t.means
    BY <2>1 DEF Typed, Term
  <2>3. t.operand.form # "int"
    BY <1>3 DEF TypedTerms, Typed, Term, year_part, month_part, day_part, indexed_part, last_part, last
  <2>4. t \in TypedTerms \cup IntTerms
    BY <1>3
  <2>5. /\ t.operand \in Operands /\ t.place \in {"y", "m", "d"}
        /\ ReadAs(t.operand, last) = {t.means} /\ PlaceBeside(t.operand, last) = t.place
    BY <2>3, <2>4, TermRead
  <2>6. Split(part) = meant /\ PlaceOf(part.form) = t.place
    BY <1>2, <2>3, <2>5 DEF ReadAs, PlaceBeside
  <2>7. part \in Parts
    BY <1>2, <2>3, <2>5 DEF Operands
  <2>8. part.form \in Single
    BY <2>5, <2>6, PlaceOfSingle
  <2> QED
    BY <1>1, <1>2, <2>6, <2>7, <2>8 DEF PartsInOrder, PlacedAs
<1>4. CASE \E n \in WrittenWeekdays: t = Typed("d", weekday_part(n))
  <2>1. PICK n \in WrittenWeekdays: t = Typed("d", weekday_part(n))
    BY <1>4
  <2>2. part = weekday_part(n) /\ meant = {weekday_part(n)} /\ order = <<"d">>
    BY <1>2, <2>1 DEF Typed, Term
  <2>3. part.form = "weekday" /\ "weekday" \in Single /\ PlaceOf("weekday") = "d"
    BY <2>2, WeekdayTerm, Places
  <2> QED
    BY <1>1, <2>2, <2>3, WeekdayTerm DEF PartsInOrder, PlacedAs
<1> QED
  BY <1>2, <1>3, <1>4

LEMMA PartsStayInOrder ==
    ASSUME PartsInOrder, [NextParts]_<<part, meant, order>> PROVE PartsInOrder'
<1>1. CASE \E t \in TypedTerms \cup IntTerms: WriteAfter(t) \/ WriteBefore(t)
  BY <1>1, WrittenAfter, WrittenBefore
<1>2. CASE \E n \in PartSteps: StepDay(n) \/ StepMonth(n) \/ StepYear(n) \/ StepWeekday(n)
  BY <1>2, Stepped
<1>3. CASE (\E i \in WrittenIndexes: Index(i)) \/ IndexLast
  BY <1>3, Indexed
<1>4. CASE \E n \in PartSteps, unit \in {"months", "years"}: StepYearMonth(n, unit)
  BY <1>4, YearMonthStepped
<1>5. CASE UNCHANGED <<part, meant, order>>
  BY <1>5 DEF PartsInOrder
<1> QED
  BY <1>1, <1>2, <1>3, <1>4, <1>5 DEF NextParts

(* In whatever order the parts of a date are written, as typed values or   *)
(* as ints, and whatever was added to them before, operator/ makes the date*)
(* of the parts that are meant, and no two overloads compete.              *)
THEOREM AsWrittenCorrect == SpecParts => []AsWritten
<1>1. PartsInOrder => AsWritten
  BY OneOverload DEF PartsInOrder, AsWritten
<1>2. PartsInOrder /\ [NextParts]_vars => PartsInOrder'
  BY PartsStayInOrder DEF vars
<1> QED
  BY FirstPart, <1>1, <1>2, PTL DEF SpecParts

-----------------------------------------------------------------------------
(* The years and the leap years by centuries.                              *)
InCenturies(y, q, r, s, u) ==
    /\ q \in Int /\ r \in 0..99 /\ s \in 0..24 /\ u \in Int
    /\ y = 100 * q + r /\ s = r \div 4 /\ u = y \div 400
    /\ LeapYearsTo(y) = 24 * q + s + u

LEMMA Centuries ==
    ASSUME NEW y \in Int
    PROVE  \E q, r, s, u: InCenturies(y, q, r, s, u)
<1> DEFINE q == y \div 100
           r == y % 100
           s == r \div 4
           u == y \div 400
           v == y \div 4
<1>1. q \in Int /\ r \in 0..99 /\ y = 100 * q + r /\ u \in Int
  BY SMT
<1>2. LeapYearsTo(y) = v - q + u
  BY DEF LeapYearsTo
<1> HIDE DEF q, r, u
<1>3. s \in 0..24 /\ v = 25 * q + s
  BY <1>1, SMT
<1>4. u = y \div 400 /\ s = r \div 4
  BY DEF u
<1> HIDE DEF s, v
<1>5. LeapYearsTo(y) = 24 * q + s + u
  BY <1>1, <1>2, <1>3, SMT
<1>6. InCenturies(y, q, r, s, u)
  BY <1>1, <1>3, <1>4, <1>5 DEF InCenturies
<1> QED
  BY <1>6, Zenon

(* Leap days are only ever added.                                         *)
LEMMA LeapYearsGrow ==
    ASSUME NEW a \in Int, NEW b \in Int, a <= b
    PROVE  LeapYearsTo(a) <= LeapYearsTo(b)
<1>1. PICK q, r, s, u: InCenturies(a, q, r, s, u)
  BY Centuries, Zenon
<1>2. PICK q2, r2, s2, u2: InCenturies(b, q2, r2, s2, u2)
  BY Centuries, Zenon
<1>3. u <= u2
  BY <1>1, <1>2, SMT DEF InCenturies
<1>4. q <= q2 /\ (q = q2 => r <= r2)
  BY <1>1, <1>2, SMT DEF InCenturies
<1>5. q = q2 => s <= s2
  BY <1>1, <1>2, <1>4, SMT DEF InCenturies
<1> QED
  BY <1>1, <1>2, <1>3, <1>4, <1>5, SMT DEF InCenturies

(* A month has ended when a later one begins.                              *)
LEMMA MonthsFollow ==
    ASSUME NEW y \in Int, NEW m \in 1..12, NEW y2 \in Int, NEW m2 \in 1..12,
           y < y2 \/ (y = y2 /\ m < m2)
    PROVE  Serial(y, m, 1) + Length(y, m) <= Serial(y2, m2, 1)
<1> DEFINE L == Length(y, m)
           B == LengthsBefore(y, m)
           B2 == LengthsBefore(y2, m2)
           C == LeapYearsTo(1969)
           E == LeapYearsTo(y - 1)
           E2 == LeapYearsTo(y2 - 1)
           l == LeapDay(y)
<1>1. B = CommonDays(m) + (IF m > 2 THEN l ELSE 0) /\ B2 = CommonDays(m2) + (IF m2 > 2 THEN LeapDay(y2) ELSE 0)
  BY LengthsSum
<1>2. /\ L = CASE m \in {4, 6, 9, 11} -> 30 [] m = 2 -> 28 + l [] OTHER -> 31
      /\ l \in {0, 1} /\ LeapDay(y2) \in {0, 1}
  BY LeapYears DEF Length, LeapDay
<1>3. E \in Int /\ E2 \in Int /\ C \in Int
  BY LeapYears
<1>4. LeapYearsTo(y) = E + l
  BY LeapYears
<1>5. /\ Serial(y, m, 1) = 365 * (y - 1970) + E - C + B + 1 - 1
      /\ Serial(y2, m2, 1) = 365 * (y2 - 1970) + E2 - C + B2 + 1 - 1
  BY DEF Serial
<1> HIDE DEF L, B, B2, C, E, E2, l
<1>6. B \in Int /\ L \in Int /\ B + L <= 365 + l /\ B2 \in Int /\ 0 <= B2
  BY <1>1, <1>2, SMT DEF CommonDays
<1>7. CASE y < y2
  <2>1. E + l <= E2
    <3>1. y2 - 1 \in Int /\ y <= y2 - 1
      BY <1>7
    <3> QED
      BY <1>4, <3>1, LeapYearsGrow DEF E2
  <2> QED
    BY <1>2, <1>3, <1>5, <1>6, <1>7, <2>1, SMT DEF L
<1>8. CASE y = y2 /\ m < m2
  <2>1. E = E2 /\ LeapDay(y2) = l
    BY <1>8 DEF E, E2, l
  <2>2. B + L <= B2
    BY <1>1, <1>2, <1>8, <2>1, SMT DEF CommonDays
  <2> QED
    BY <1>3, <1>5, <1>6, <1>8, <2>1, <2>2, SMT DEF L
<1> QED
  BY <1>7, <1>8

Earlier(y, m, d, y2, m2, d2) == y < y2 \/ (y = y2 /\ (m < m2 \/ (m = m2 /\ d < d2)))
InSequence(y, m, d, y2, m2, d2) ==
    /\ Serial(y, m, d) < Serial(y2, m2, d2) <=> Earlier(y, m, d, y2, m2, d2)
    /\ Serial(y, m, d) = Serial(y2, m2, d2) <=> y = y2 /\ m = m2 /\ d = d2

(* A day of an earlier month is an earlier day.                            *)
LEMMA DaysFollow ==
    ASSUME NEW y \in Int, NEW m \in 1..12, NEW d \in 1..Length(y, m),
           NEW y2 \in Int, NEW m2 \in 1..12, NEW d2 \in 1..Length(y2, m2)
    PROVE  InSequence(y, m, d, y2, m2, d2)
<1>1. ASSUME NEW a \in Int, NEW k \in 1..12
      PROVE  Length(a, k) \in 28..31
  <2> DEFINE x == [y |-> a, m |-> k]
  <2>1. x.y = a /\ x.m = k
    OBVIOUS
  <2> QED
    BY <2>1, LastDay
<1> DEFINE F == Serial(y, m, 1)
           F2 == Serial(y2, m2, 1)
           L == Length(y, m)
           L2 == Length(y2, m2)
<1>2. L \in 28..31 /\ L2 \in 28..31 /\ d \in 1..L /\ d2 \in 1..L2
  BY <1>1
<1>3. d \in Int /\ d2 \in Int
  BY <1>2, SMT
<1>4. Serial(y, m, d) = F + d - 1 /\ F \in Int /\ Serial(y2, m2, d2) = F2 + d2 - 1 /\ F2 \in Int
  <2>1. 1 \in Int
    OBVIOUS
  <2>2. F \in Int /\ F2 \in Int
    BY ONLY <2>1, SerialCounts, y \in Int, m \in 1..12, y2 \in Int, m2 \in 1..12 DEF F, F2
  <2>3. Serial(y, m, d) = F + d - 1
    BY ONLY <1>3, SerialCounts, y \in Int, m \in 1..12 DEF F
  <2>4. Serial(y2, m2, d2) = F2 + d2 - 1
    BY ONLY <1>3, SerialCounts, y2 \in Int, m2 \in 1..12 DEF F2
  <2> QED
    BY <2>2, <2>3, <2>4
<1>5. y < y2 \/ (y = y2 /\ m < m2) => F + L <= F2
  BY MonthsFollow
<1>6. y2 < y \/ (y = y2 /\ m2 < m) => F2 + L2 <= F
  BY MonthsFollow
<1>7. y = y2 /\ m = m2 => F = F2
  OBVIOUS
<1> HIDE DEF F, F2, L, L2
<1> QED
  BY <1>2, <1>3, <1>4, <1>5, <1>6, <1>7, SMT DEF InSequence, Earlier

(* What can be written instead of a part: the widths of the classes do not *)
(* bound the ints.                                                         *)
DayShapes ==
    [form: {"day"}, d: Int] \cup [form: {"month"}, m: Int] \cup [form: {"year"}, y: Int]
    \cup [form: {"year_month"}, y: Int, m: Int] \cup [form: {"month_day"}, m: Int, d: Int]
    \cup [form: {"year_month_day"}, y: Int, m: Int, d: Int]
LastShapes ==
    {last} \cup [form: {"month_day_last"}, m: Int] \cup [form: {"year_month_day_last"}, y: Int, m: Int]
IndexedShapes ==
    [form: {"weekday_indexed"}, wdi: WeekdayIndexed] \cup [form: {"month_weekday"}, m: Int, wdi: WeekdayIndexed]
    \cup [form: {"year_month_weekday"}, y: Int, m: Int, wdi: WeekdayIndexed]
LastWeekdayShapes ==
    [form: {"weekday"}, wd: Weekday] \cup [form: {"weekday_last"}, wd: Weekday]
    \cup [form: {"month_weekday_last"}, m: Int, wd: Weekday]
    \cup [form: {"year_month_weekday_last"}, y: Int, m: Int, wd: Weekday]
Shapes == DayShapes \cup LastShapes \cup IndexedShapes \cup LastWeekdayShapes

(* The fields of a date that a part is in a year.                          *)
YearIn(x, y) == IF "y" \in DOMAIN x THEN x.y ELSE y
MonthIn(x) == IF "m" \in DOMAIN x THEN x.m ELSE 1
DayIn(x) == IF "d" \in DOMAIN x THEN x.d ELSE 1

LEMMA ShapeFields ==
    ASSUME NEW x \in Shapes, NEW y \in Int
    PROVE  YearIn(x, y) \in Int /\ MonthIn(x) \in Int /\ DayIn(x) \in Int
BY DEF Shapes, DayShapes, LastShapes, IndexedShapes, LastWeekdayShapes, last, YearIn, MonthIn, DayIn

(* The date that a part of each kind is in a year.                         *)
LEMMA DayShapeInYear ==
    ASSUME NEW x \in DayShapes, NEW y
    PROVE  InYear(x, y) = year_month_day(year_month(YearIn(x, y), MonthIn(x)), DayIn(x))
<1>1. DOMAIN x \subseteq {"form", "y", "m", "d"}
  BY DEF DayShapes
<1>2. last \notin Split(x)
  <2>1. x.form \notin {"last", "month_day_last", "year_month_day_last"}
    BY DEF DayShapes
  <2>2. \A f \in {"y", "m", "d"}: Field(x, f) # last
    BY DEF Field, last
  <2>3. \A f \in DOMAIN x \ {"form"}: Field(x, f) # last
    BY <1>1, <2>2
  <2> QED
    BY <2>1, <2>3, Zenon DEF Split
<1>3. "wdi" \notin DOMAIN x /\ "wd" \notin DOMAIN x
  BY <1>1
<1> QED
  BY <1>2, <1>3, Zenon DEF InYear, YearIn, MonthIn, DayIn

LEMMA LastShapeInYear ==
    ASSUME NEW x \in LastShapes, NEW y
    PROVE  InYear(x, y) = year_month_day_last(year_month(YearIn(x, y), MonthIn(x)))
<1>1. DOMAIN x \subseteq {"form", "y", "m"}
  BY DEF LastShapes, last
<1>2. x.form \in {"last", "month_day_last", "year_month_day_last"}
  BY DEF LastShapes, last
<1>3. last \in Split(x)
  BY <1>2, Zenon DEF Split
<1>4. "wdi" \notin DOMAIN x /\ "wd" \notin DOMAIN x
  BY <1>1
<1> QED
  BY <1>3, <1>4, Zenon DEF InYear, YearIn, MonthIn

LEMMA IndexedShapeInYear ==
    ASSUME NEW x \in IndexedShapes, NEW y
    PROVE  /\ InYear(x, y) = year_month_weekday(year_month(YearIn(x, y), MonthIn(x)), x.wdi)
           /\ x.wdi \in WeekdayIndexed
<1>1. "wdi" \in DOMAIN x /\ x.wdi \in WeekdayIndexed
  BY DEF IndexedShapes
<1> QED
  BY <1>1, Zenon DEF InYear, YearIn, MonthIn

LEMMA LastWeekdayShapeInYear ==
    ASSUME NEW x \in LastWeekdayShapes, NEW y
    PROVE  /\ InYear(x, y) = year_month_weekday_last(year_month(YearIn(x, y), MonthIn(x)), x.wd)
           /\ x.wd \in Weekday
<1>1. "wd" \in DOMAIN x /\ "wdi" \notin DOMAIN x /\ x.wd \in Weekday
  BY DEF LastWeekdayShapes
<1> QED
  BY <1>1, Zenon DEF InYear, YearIn, MonthIn

(* The parts have these shapes, and so has what is written instead.        *)
LEMMA PartShapes ==
    ASSUME NEW x \in Parts
    PROVE  x \in Shapes
<1>1. Day \subseteq Int /\ Month \subseteq Int /\ Year \subseteq Int
  BY ShortRange DEF Day, Month
<1>2. \A p \in DayParts: p \in Shapes
  BY <1>1 DEF DayParts, Shapes, DayShapes, LastShapes, IndexedShapes, LastWeekdayShapes
<1>3. \A p \in MonthDayParts: p \in Shapes
  BY <1>1 DEF MonthDayParts, Shapes, DayShapes, LastShapes, IndexedShapes, LastWeekdayShapes
<1>4. \A p \in Dates: p \in Shapes
  BY <1>1 DEF Dates, YearMonthDay, YearMonthDayLast, YearMonthWeekday, YearMonthWeekdayLast,
              Shapes, DayShapes, LastShapes, IndexedShapes, LastWeekdayShapes
<1>5. \A p \in MonthPart \cup YearPart \cup [form: {"weekday"}, wd: Weekday]
                \cup [form: {"year_month"}, y: Year, m: Month]: p \in Shapes
  BY <1>1 DEF MonthPart, YearPart, Shapes, DayShapes, LastWeekdayShapes
<1> QED
  BY <1>2, <1>3, <1>4, <1>5 DEF Parts

(* What is written instead of a part fits it: it has the same fields.      *)
Holds(f) == IF f \in {"y", "m", "d"} THEN Int ELSE IF f = "wdi" THEN WeekdayIndexed ELSE Weekday
Fits(z, x) ==
    /\ z = [f \in DOMAIN x |-> z[f]]
    /\ \A f \in DOMAIN x: IF f = "form" THEN z[f] = x[f] ELSE z[f] \in Holds(f)

LEMMA ShapeFits ==
    ASSUME NEW x \in Shapes
    PROVE  Fits(x, x) /\ "form" \in DOMAIN x /\ DOMAIN x \subseteq {"form", "y", "m", "d", "wdi", "wd"}
<1>1. DOMAIN x \subseteq {"form", "y", "m", "d", "wdi", "wd"} /\ "form" \in DOMAIN x
  BY DEF Shapes, DayShapes, LastShapes, IndexedShapes, LastWeekdayShapes, last
<1>2. x = [f \in DOMAIN x |-> x[f]]
  BY DEF Shapes, DayShapes, LastShapes, IndexedShapes, LastWeekdayShapes, last
<1>3. /\ "y" \in DOMAIN x => x.y \in Int
      /\ "m" \in DOMAIN x => x.m \in Int
      /\ "d" \in DOMAIN x => x.d \in Int
      /\ "wdi" \in DOMAIN x => x.wdi \in WeekdayIndexed
      /\ "wd" \in DOMAIN x => x.wd \in Weekday
  BY DEF Shapes, DayShapes, LastShapes, IndexedShapes, LastWeekdayShapes, last
<1>4. \A f \in DOMAIN x: f # "form" => x[f] \in Holds(f)
  BY <1>1, <1>3 DEF Holds
<1> QED
  BY <1>1, <1>2, <1>4 DEF Fits

LEMMA VaryFits ==
    ASSUME NEW x, NEW S, \A z \in S: Fits(z, x), NEW f, f # "form",
           NEW values, \A v \in values: v \in Holds(f)
    PROVE  \A z \in Vary(S, f, values): Fits(z, x)
<1> SUFFICES ASSUME NEW z0 \in S, NEW v \in values, NEW z,
                    z = IF f \in DOMAIN z0 THEN [z0 EXCEPT ![f] = v] ELSE z0
             PROVE  Fits(z, x)
  BY DEF Vary
<1>1. Fits(z0, x) /\ DOMAIN z0 = DOMAIN x
  BY DEF Fits
<1>2. CASE f \in DOMAIN z0
  <2>1. z = [g \in DOMAIN z0 |-> IF g = f THEN v ELSE z0[g]]
    BY <1>2
  <2>2. z = [g \in DOMAIN x |-> z[g]] /\ \A g \in DOMAIN x: z[g] = IF g = f THEN v ELSE z0[g]
    BY <1>1, <2>1
  <2> QED
    BY <1>1, <2>2 DEF Fits
<1>3. CASE f \notin DOMAIN z0
  BY <1>1, <1>3
<1> QED
  BY <1>2, <1>3

LEMMA PeerFits ==
    ASSUME NEW x \in Shapes, NEW z \in Peers(x)
    PROVE  Fits(z, x)
<1> DEFINE wdis == {weekday_indexed(weekday(wd), i): wd \in WrittenWeekdays, i \in WrittenIndexes}
           wds == {weekday(wd): wd \in WrittenWeekdays}
           A == Vary({x}, "y", WrittenYears)
           B == Vary(A, "m", WrittenMonths)
           C == Vary(B, "d", WrittenDays)
           D == Vary(C, "wdi", wdis)
<1>1. \A v \in WrittenYears \cup WrittenMonths \cup WrittenDays: v \in Int
  BY WrittenAssumption
<1>2. \A v \in wds: v \in Weekday
  BY FieldsTyped, WrittenAssumption
<1>3. \A v \in wdis: v \in WeekdayIndexed
  <2>1. ASSUME NEW wd \in WrittenWeekdays, NEW i \in WrittenIndexes
        PROVE  weekday_indexed(weekday(wd), i) \in WeekdayIndexed
    <3>1. weekday(wd) \in Weekday /\ wd \in Int /\ i \in Int
      BY FieldsTyped, WrittenAssumption
    <3>2. weekday(wd) \in Int
      BY <3>1 DEF Weekday
    <3> QED
      BY <3>1, <3>2, IndexedTyped
  <2> QED
    BY <2>1
<1>4. Peers(x) = Vary(D, "wd", wds)
  BY SMT DEF Peers
<1> HIDE DEF wdis, wds, A, B, C, D
<1>5. /\ \A v \in WrittenYears: v \in Holds("y")
      /\ \A v \in WrittenMonths: v \in Holds("m")
      /\ \A v \in WrittenDays: v \in Holds("d")
      /\ \A v \in wdis: v \in Holds("wdi")
      /\ \A v \in wds: v \in Holds("wd")
  BY <1>1, <1>2, <1>3 DEF Holds
<1>6. \A w \in {x}: Fits(w, x)
  BY ShapeFits
<1>7. \A w \in A: Fits(w, x)
  BY ONLY <1>5, <1>6, VaryFits DEF A
<1>8. \A w \in B: Fits(w, x)
  BY ONLY <1>5, <1>7, VaryFits DEF B
<1>9. \A w \in C: Fits(w, x)
  BY ONLY <1>5, <1>8, VaryFits DEF C
<1>10. \A w \in D: Fits(w, x)
  BY ONLY <1>5, <1>9, VaryFits DEF D
<1>11. \A w \in Vary(D, "wd", wds): Fits(w, x)
  BY ONLY <1>5, <1>10, VaryFits
<1> QED
  BY <1>4, <1>11

(* So it is of the same kind.                                              *)
LEMMA PeerShapes ==
    ASSUME NEW x \in Shapes, NEW z \in Peers(x)
    PROVE  /\ z.form = x.form
           /\ x \in DayShapes => z \in DayShapes
           /\ x \in LastShapes => z \in LastShapes
           /\ x \in IndexedShapes => z \in IndexedShapes
           /\ x \in LastWeekdayShapes => z \in LastWeekdayShapes
<1>1. /\ z = [f \in DOMAIN x |-> z[f]] /\ "form" \in DOMAIN x
      /\ \A f \in DOMAIN x: IF f = "form" THEN z[f] = x[f] ELSE z[f] \in Holds(f)
  BY PeerFits, ShapeFits DEF Fits
<1>2. z.form = x.form
  BY <1>1
<1>3. /\ "y" \in DOMAIN x => z.y \in Int
      /\ "m" \in DOMAIN x => z.m \in Int
      /\ "d" \in DOMAIN x => z.d \in Int
      /\ "wdi" \in DOMAIN x => z.wdi \in WeekdayIndexed
      /\ "wd" \in DOMAIN x => z.wd \in Weekday
  BY <1>1 DEF Holds
<1>4. ASSUME x \in [form: {"day"}, d: Int]
      PROVE  z \in [form: {"day"}, d: Int]
  <2>1. DOMAIN x = {"form", "d"} /\ x.form = "day"
    BY <1>4
  <2> QED
    BY <1>1, <1>2, <1>3, <2>1
<1>5. ASSUME x \in [form: {"month"}, m: Int]
      PROVE  z \in [form: {"month"}, m: Int]
  <2>1. DOMAIN x = {"form", "m"} /\ x.form = "month"
    BY <1>5
  <2> QED
    BY <1>1, <1>2, <1>3, <2>1
<1>6. ASSUME x \in [form: {"year"}, y: Int]
      PROVE  z \in [form: {"year"}, y: Int]
  <2>1. DOMAIN x = {"form", "y"} /\ x.form = "year"
    BY <1>6
  <2> QED
    BY <1>1, <1>2, <1>3, <2>1
<1>7. ASSUME x \in [form: {"year_month"}, y: Int, m: Int]
      PROVE  z \in [form: {"year_month"}, y: Int, m: Int]
  <2>1. DOMAIN x = {"form", "y", "m"} /\ x.form = "year_month"
    BY <1>7
  <2> QED
    BY <1>1, <1>2, <1>3, <2>1
<1>8. ASSUME x \in [form: {"month_day"}, m: Int, d: Int]
      PROVE  z \in [form: {"month_day"}, m: Int, d: Int]
  <2>1. DOMAIN x = {"form", "m", "d"} /\ x.form = "month_day"
    BY <1>8
  <2> QED
    BY <1>1, <1>2, <1>3, <2>1
<1>9. ASSUME x \in [form: {"year_month_day"}, y: Int, m: Int, d: Int]
      PROVE  z \in [form: {"year_month_day"}, y: Int, m: Int, d: Int]
  <2>1. DOMAIN x = {"form", "y", "m", "d"} /\ x.form = "year_month_day"
    BY <1>9
  <2> QED
    BY <1>1, <1>2, <1>3, <2>1
<1>10. ASSUME x = last PROVE z = last
  <2>1. DOMAIN x = {"form"} /\ x.form = "last"
    BY <1>10 DEF last
  <2> QED
    BY <1>1, <1>2, <2>1 DEF last
<1>11. ASSUME x \in [form: {"month_day_last"}, m: Int]
      PROVE  z \in [form: {"month_day_last"}, m: Int]
  <2>1. DOMAIN x = {"form", "m"} /\ x.form = "month_day_last"
    BY <1>11
  <2> QED
    BY <1>1, <1>2, <1>3, <2>1
<1>12. ASSUME x \in [form: {"year_month_day_last"}, y: Int, m: Int]
      PROVE  z \in [form: {"year_month_day_last"}, y: Int, m: Int]
  <2>1. DOMAIN x = {"form", "y", "m"} /\ x.form = "year_month_day_last"
    BY <1>12
  <2> QED
    BY <1>1, <1>2, <1>3, <2>1
<1>13. ASSUME x \in [form: {"weekday_indexed"}, wdi: WeekdayIndexed]
      PROVE  z \in [form: {"weekday_indexed"}, wdi: WeekdayIndexed]
  <2>1. DOMAIN x = {"form", "wdi"} /\ x.form = "weekday_indexed"
    BY <1>13
  <2> QED
    BY <1>1, <1>2, <1>3, <2>1
<1>14. ASSUME x \in [form: {"month_weekday"}, m: Int, wdi: WeekdayIndexed]
      PROVE  z \in [form: {"month_weekday"}, m: Int, wdi: WeekdayIndexed]
  <2>1. DOMAIN x = {"form", "m", "wdi"} /\ x.form = "month_weekday"
    BY <1>14
  <2> QED
    BY <1>1, <1>2, <1>3, <2>1
<1>15. ASSUME x \in [form: {"year_month_weekday"}, y: Int, m: Int, wdi: WeekdayIndexed]
      PROVE  z \in [form: {"year_month_weekday"}, y: Int, m: Int, wdi: WeekdayIndexed]
  <2>1. DOMAIN x = {"form", "y", "m", "wdi"} /\ x.form = "year_month_weekday"
    BY <1>15
  <2> QED
    BY <1>1, <1>2, <1>3, <2>1
<1>16. ASSUME x \in [form: {"weekday"}, wd: Weekday]
      PROVE  z \in [form: {"weekday"}, wd: Weekday]
  <2>1. DOMAIN x = {"form", "wd"} /\ x.form = "weekday"
    BY <1>16
  <2> QED
    BY <1>1, <1>2, <1>3, <2>1
<1>17. ASSUME x \in [form: {"weekday_last"}, wd: Weekday]
      PROVE  z \in [form: {"weekday_last"}, wd: Weekday]
  <2>1. DOMAIN x = {"form", "wd"} /\ x.form = "weekday_last"
    BY <1>17
  <2> QED
    BY <1>1, <1>2, <1>3, <2>1
<1>18. ASSUME x \in [form: {"month_weekday_last"}, m: Int, wd: Weekday]
      PROVE  z \in [form: {"month_weekday_last"}, m: Int, wd: Weekday]
  <2>1. DOMAIN x = {"form", "m", "wd"} /\ x.form = "month_weekday_last"
    BY <1>18
  <2> QED
    BY <1>1, <1>2, <1>3, <2>1
<1>19. ASSUME x \in [form: {"year_month_weekday_last"}, y: Int, m: Int, wd: Weekday]
      PROVE  z \in [form: {"year_month_weekday_last"}, y: Int, m: Int, wd: Weekday]
  <2>1. DOMAIN x = {"form", "y", "m", "wd"} /\ x.form = "year_month_weekday_last"
    BY <1>19
  <2> QED
    BY <1>1, <1>2, <1>3, <2>1
<1>20. x \in DayShapes => z \in DayShapes
  BY <1>4, <1>5, <1>6, <1>7, <1>8, <1>9 DEF DayShapes
<1>21. x \in LastShapes => z \in LastShapes
  BY <1>10, <1>11, <1>12 DEF LastShapes
<1>22. x \in IndexedShapes => z \in IndexedShapes
  BY <1>13, <1>14, <1>15 DEF IndexedShapes
<1>23. x \in LastWeekdayShapes => z \in LastWeekdayShapes
  BY <1>16, <1>17, <1>18, <1>19 DEF LastWeekdayShapes
<1> QED
  BY <1>2, <1>20, <1>21, <1>22, <1>23

(* When a year, a month and a day are one of the calendar.                 *)
IsDate(y, m, d) == year_ok(y) /\ m \in 1..12 /\ d \in 1..Length(y, m)

\* The day of the month that a weekday with an index, and a last weekday, is.
DayOfIndexed(y, m, wdi) == ((wdi.wd - weekday_from_days(Serial(y, m, 1))) % 7) + 7 * (wdi.index - 1) + 1
DayOfLast(y, m, wd) ==
    Length(y, m) - ((weekday_from_days(Serial(y, m, Length(y, m))) - wd) % 7)

(* When the four forms of a date are ok, and which days they are.          *)
LEMMA DateOfDay ==
    ASSUME NEW y \in Int, NEW m \in Int, NEW d \in Int
    PROVE  LET e == year_month_day(year_month(y, m), d)
           IN  /\ date_ok(e) <=> IsDate(y, m, d)
               /\ m \in 1..12 => date_days(e) = Serial(y, m, d)
<1> DEFINE e == year_month_day(year_month(y, m), d)
<1>1. e.y = y /\ e.m = m /\ e.d = d /\ e.form = "year_month_day"
  BY DEF year_month_day, year_month
<1>2. date_ok(e) = ymd_ok(e) /\ date_days(e) = ymd_to_days(e)
  BY <1>1 DEF date_ok, date_days
<1> HIDE DEF e
<1>3. m \in 1..12 => ymdl_day(e) = Length(y, m) /\ ymd_to_days(e) = Serial(y, m, d)
  BY ONLY <1>1, LastDay, ToDaysIsSerial, y \in Int, m \in Int, d \in Int
<1>4. date_ok(e) <=> year_ok(y) /\ m \in 1..12 /\ d \in 1..ymdl_day(e)
  BY <1>1, <1>2, Zenon DEF ymd_ok, month_ok
<1>5. date_ok(e) <=> IsDate(y, m, d)
  BY <1>3, <1>4, Zenon DEF IsDate
<1>6. m \in 1..12 => date_days(e) = Serial(y, m, d)
  BY <1>2, <1>3, Zenon
<1> QED
  BY <1>5, <1>6, Zenon DEF e

LEMMA DateOfLast ==
    ASSUME NEW y \in Int, NEW m \in Int
    PROVE  LET e == year_month_day_last(year_month(y, m))
           IN  /\ date_ok(e) <=> year_ok(y) /\ m \in 1..12
               /\ m \in 1..12 => /\ date_days(e) = Serial(y, m, Length(y, m))
                                 /\ Length(y, m) \in 28..31
<1> DEFINE e == year_month_day_last(year_month(y, m))
<1>1. e.y = y /\ e.m = m /\ e.form = "year_month_day_last"
  BY DEF year_month_day_last, year_month
<1>2. date_ok(e) = ymdl_ok(e) /\ date_days(e) = ymd_to_days(ymd_from_last(e))
  BY <1>1 DEF date_ok, date_days, ymdl_to_days
<1> HIDE DEF e
<1>3. m \in 1..12 => /\ ymd_to_days(ymd_from_last(e)) = Serial(y, m, Length(y, m))
                     /\ Length(y, m) \in 28..31
  BY ONLY <1>1, FirstIsSerial, LastDay, y \in Int, m \in Int
<1>4. date_ok(e) <=> year_ok(y) /\ m \in 1..12
  BY <1>1, <1>2, Zenon DEF ymdl_ok, month_ok
<1>5. m \in 1..12 => date_days(e) = Serial(y, m, Length(y, m)) /\ Length(y, m) \in 28..31
  BY <1>2, <1>3, Zenon
<1> QED
  BY <1>4, <1>5, Zenon DEF e

LEMMA DateOfIndexed ==
    ASSUME NEW y \in Int, NEW m \in Int, NEW wdi \in WeekdayIndexed
    PROVE  LET e == year_month_weekday(year_month(y, m), wdi)
               d == DayOfIndexed(y, m, wdi)
           IN  /\ date_ok(e) <=> /\ year_ok(y) /\ m \in 1..12 /\ wdi.wd <= 6 /\ wdi.index >= 1
                                 /\ wdi.index > 4 => d <= Length(y, m)
               /\ m \in 1..12 => /\ date_days(e) = Serial(y, m, d) /\ d \in Int
                                 /\ wdi.index >= 1 => d >= 1
                                 /\ date_ok(e) => IsDate(y, m, d)
<1> DEFINE e == year_month_weekday(year_month(y, m), wdi)
           F == Serial(y, m, 1)
           w == weekday_from_days(F)
           r == (wdi.wd - w) % 7
           d == DayOfIndexed(y, m, wdi)
<1>1. e.y = y /\ e.m = m /\ e.wdi = wdi /\ e.form = "year_month_weekday"
  BY DEF year_month_weekday, year_month
<1>2. date_ok(e) = ymwd_ok(e) /\ date_days(e) = ymwd_to_days(e)
  BY <1>1 DEF date_ok, date_days
<1>3. wdi.wd \in 0..15 /\ wdi.index \in 0..15
  BY DEF WeekdayIndexed
<1>4. d = r + 7 * (wdi.index - 1) + 1
  BY DEF DayOfIndexed
<1>5. ASSUME m \in 1..12
      PROVE  /\ FirstOf(e) = F /\ ymdl_day(e) = Length(y, m) /\ F \in Int
             /\ Length(y, m) \in 28..31
             /\ weekday_minus(wdi.wd, w) = r /\ r \in 0..6
             /\ d \in Int => Serial(y, m, d) = F + d - 1
  <2> HIDE DEF e, d
  <2>1. FirstOf(e) = F /\ ymdl_day(e) = Length(y, m) /\ Length(y, m) \in 28..31
    BY ONLY <1>1, <1>5, FirstIsSerial, LastDay, y \in Int, m \in Int
  <2>2. F \in Int
    <3>1. 1 \in Int
      OBVIOUS
    <3> QED
      BY ONLY <1>5, <3>1, SerialCounts, y \in Int DEF F
  <2>3. w \in Weekday /\ wdi.wd \in Weekday
    <3> HIDE DEF F
    <3>1. w \in 0..6
      BY <2>2, WeekdayOfDays
    <3> QED
      BY <1>3, <3>1 DEF Weekday
  <2>4. weekday_minus(wdi.wd, w) = r /\ r \in 0..6
    <3> HIDE DEF w
    <3> QED
      BY ONLY <2>3, WeekdayMinus DEF r
  <2>5. d \in Int => Serial(y, m, d) = F + d - 1
    BY ONLY <1>5, SerialCounts, y \in Int DEF F
  <2> QED
    BY <2>1, <2>2, <2>4, <2>5
<1> HIDE DEF e, F, r, d
<1>6. ASSUME m \in 1..12
      PROVE  /\ d \in Int /\ ymwd_to_days(e) = Serial(y, m, d)
             /\ wdi.index >= 1 => d >= 1
             /\ ymwd_ok(e) <=> /\ year_ok(y) /\ wdi.wd <= 6 /\ wdi.index >= 1
                               /\ wdi.index > 4 => d <= Length(y, m)
  <2>1. d \in Int /\ (wdi.index >= 1 => d >= 1)
    BY <1>3, <1>4, <1>5, <1>6
  <2>2. ymwd_to_days(e) = F + r + (wdi.index - 1) * 7
    BY <1>1, <1>5, <1>6 DEF ymwd_to_days
  <2>3. F + r + (wdi.index - 1) * 7 = F + d - 1
    BY <1>3, <1>4, <1>5, <1>6
  <2>4. ymwd_ok(e) <=> /\ year_ok(y) /\ wdi.wd <= 6 /\ wdi.index >= 1
                       /\ wdi.index > 4 => r + (wdi.index - 1) * 7 + 1 <= Length(y, m)
    BY <1>1, <1>5, <1>6 DEF ymwd_ok, month_ok, weekday_ok
  <2>5. r + (wdi.index - 1) * 7 + 1 = d
    BY <1>3, <1>4, <1>5, <1>6
  <2> QED
    BY <1>5, <1>6, <2>1, <2>2, <2>3, <2>4, <2>5
<1>7. ymwd_ok(e) => m \in 1..12
  BY <1>1 DEF ymwd_ok, month_ok
<1>8. ASSUME m \in 1..12, date_ok(e) PROVE IsDate(y, m, d)
  BY <1>2, <1>3, <1>4, <1>5, <1>6, <1>8, SMT DEF IsDate
<1>9. date_ok(e) <=> /\ year_ok(y) /\ m \in 1..12 /\ wdi.wd <= 6 /\ wdi.index >= 1
                     /\ wdi.index > 4 => d <= Length(y, m)
  BY <1>2, <1>6, <1>7, Zenon
<1>10. m \in 1..12 => /\ date_days(e) = Serial(y, m, d) /\ d \in Int
                      /\ wdi.index >= 1 => d >= 1
                      /\ date_ok(e) => IsDate(y, m, d)
  BY <1>2, <1>6, <1>8, Zenon
<1> QED
  BY <1>9, <1>10, Zenon DEF e, d

LEMMA DateOfLastWeekday ==
    ASSUME NEW y \in Int, NEW m \in Int, NEW wd \in Weekday
    PROVE  LET e == year_month_weekday_last(year_month(y, m), wd)
               d == DayOfLast(y, m, wd)
           IN  /\ date_ok(e) <=> year_ok(y) /\ m \in 1..12 /\ wd <= 6
               /\ m \in 1..12 => date_days(e) = Serial(y, m, d) /\ d \in 1..Length(y, m)
<1> DEFINE e == year_month_weekday_last(year_month(y, m), wd)
           L == Length(y, m)
           F == Serial(y, m, L)
           w == weekday_from_days(F)
           r == (w - wd) % 7
           d == DayOfLast(y, m, wd)
<1>1. e.y = y /\ e.m = m /\ e.wd = wd /\ e.form = "year_month_weekday_last"
  BY DEF year_month_weekday_last, year_month
<1>2. date_ok(e) = ymwdl_ok(e) /\ date_days(e) = ymwdl_to_days(e)
  BY <1>1 DEF date_ok, date_days
<1>3. d = L - r
  BY DEF DayOfLast
<1>4. ASSUME m \in 1..12
      PROVE  /\ ymdl_to_days(e) = F /\ L \in 28..31
             /\ weekday_minus(w, wd) = r /\ r \in 0..6
             /\ Serial(y, m, L) = Serial(y, m, 1) + L - 1 /\ Serial(y, m, 1) \in Int
             /\ d \in Int => Serial(y, m, d) = Serial(y, m, 1) + d - 1
  <2> HIDE DEF e, d
  <2>1. ymdl_to_days(e) = F /\ L \in 28..31
    <3>1. ymd_to_days(ymd_from_last(e)) = F /\ L \in 28..31
      BY ONLY <1>1, <1>4, FirstIsSerial, LastDay, y \in Int, m \in Int DEF F, L
    <3> QED
      BY <3>1 DEF ymdl_to_days
  <2> HIDE DEF L
  <2>2. L \in Int
    BY <2>1
  <2>3. F \in Int /\ Serial(y, m, L) = Serial(y, m, 1) + L - 1 /\ Serial(y, m, 1) \in Int
    <3>1. 1 \in Int
      OBVIOUS
    <3> QED
      BY ONLY <1>4, <2>2, <3>1, SerialCounts, y \in Int DEF F
  <2>4. w \in Weekday
    <3> HIDE DEF F
    <3>1. w \in 0..6
      BY <2>3, WeekdayOfDays
    <3> QED
      BY <3>1 DEF Weekday
  <2>5. weekday_minus(w, wd) = r /\ r \in 0..6
    <3> HIDE DEF w
    <3> QED
      BY ONLY <2>4, WeekdayMinus, wd \in Weekday DEF r
  <2>6. d \in Int => Serial(y, m, d) = Serial(y, m, 1) + d - 1
    BY ONLY <1>4, SerialCounts, y \in Int
  <2> QED
    BY <2>1, <2>3, <2>5, <2>6
<1> HIDE DEF e, r, d, w
<1>5. ASSUME m \in 1..12
      PROVE  d \in 1..L /\ ymwdl_to_days(e) = Serial(y, m, d)
  <2> HIDE DEF L
  <2>1. d \in 1..L /\ d \in Int
    BY <1>3, <1>4, <1>5
  <2>2. ymwdl_to_days(e) = F - r
    BY <1>1, <1>4, <1>5 DEF ymwdl_to_days, w
  <2> QED
    BY <1>3, <1>4, <1>5, <2>1, <2>2
<1>6. date_ok(e) <=> year_ok(y) /\ m \in 1..12 /\ wd <= 6
  BY <1>1, <1>2, Zenon DEF ymwdl_ok, month_ok, weekday_ok
<1>7. m \in 1..12 => date_days(e) = Serial(y, m, d) /\ d \in 1..L
  BY <1>2, <1>5, Zenon
<1> QED
  BY <1>6, <1>7, Zenon DEF e, d

\* The year in which days are compared.
ALeapYear == 2000

LEMMA TheYears ==
    /\ ALeapYear \in SomeYears
    /\ \A y \in SomeYears: y \in Int /\ year_ok(y)
<1> QED
  BY SMT DEF SomeYears, year_ok, ALeapYear

(* No month is longer than in a leap year.                                 *)
LEMMA MonthLengths ==
    ASSUME NEW y \in Int, NEW m \in 1..12
    PROVE  LET L == CASE m = 2 -> 29 [] m \in {4, 6, 9, 11} -> 30 [] OTHER -> 31
           IN  /\ Length(ALeapYear, m) = L
               /\ Length(y, m) \in 28..L
               /\ m = 1 => Length(y, m) = 31
<1>1. Leap(ALeapYear)
  BY DEF Leap, ALeapYear
<1> QED
  BY <1>1, SMT DEF Length

(* A part that is a day of a month is ok if it is a date of some year, and *)
(* then it is one of a leap year.                                          *)
LEMMA DayPartOk ==
    ASSUME NEW x \in DayShapes, NEW y \in SomeYears
    PROVE  /\ part_ok(x) => IsDate(YearIn(x, ALeapYear), MonthIn(x), DayIn(x))
           /\ IsDate(YearIn(x, y), MonthIn(x), DayIn(x)) => part_ok(x)
<1>1. /\ ALeapYear \in SomeYears /\ year_ok(ALeapYear) /\ year_ok(y) /\ y \in Int /\ ALeapYear \in Int
  BY TheYears
<1>2. /\ 1 \in 1..12
      /\ \A k \in Int: Length(k, 1) = 31
      /\ \A k \in Int, m \in 1..12: 1 \in 1..Length(k, m)
  <2>1. \A k \in Int: Length(k, 1) = 31
    <3>1. 1 \in 1..12
      OBVIOUS
    <3> QED
      BY <3>1, MonthLengths
  <2>2. ASSUME NEW k \in Int, NEW m \in 1..12 PROVE 1 \in 1..Length(k, m)
    <3> DEFINE e == [y |-> k, m |-> m]
    <3>1. e.y = k /\ e.m = m
      OBVIOUS
    <3>2. Length(k, m) \in 28..31
      BY ONLY <3>1, LastDay, k \in Int, m \in 1..12
    <3> HIDE DEF e
    <3> QED
      BY <3>2
  <2> QED
    BY <2>1, <2>2
<1>3. CASE x \in [form: {"day"}, d: Int]
  <2>1. x.form = "day" /\ YearIn(x, ALeapYear) = ALeapYear /\ YearIn(x, y) = y /\ MonthIn(x) = 1 /\ DayIn(x) = x.d
    BY <1>3 DEF YearIn, MonthIn, DayIn
  <2>2. part_ok(x) <=> x.d \in 1..31
    BY <2>1 DEF part_ok, date_ok, day_ok
  <2>3. Length(ALeapYear, 1) = 31 /\ Length(y, 1) = 31
    BY <1>1, <1>2, Zenon
  <2> QED
    BY <1>1, <1>2, <2>1, <2>2, <2>3, Zenon DEF IsDate
<1>4. CASE x \in [form: {"month"}, m: Int]
  <2>1. x.form = "month" /\ YearIn(x, ALeapYear) = ALeapYear /\ YearIn(x, y) = y /\ MonthIn(x) = x.m /\ DayIn(x) = 1
    BY <1>4 DEF YearIn, MonthIn, DayIn
  <2>2. part_ok(x) <=> x.m \in 1..12
    BY <2>1 DEF part_ok, date_ok, month_ok
  <2> QED
    BY <1>1, <1>2, <2>1, <2>2, Zenon DEF IsDate
<1>5. CASE x \in [form: {"year"}, y: Int]
  <2>1. x.form = "year" /\ YearIn(x, ALeapYear) = x.y /\ YearIn(x, y) = x.y /\ MonthIn(x) = 1 /\ DayIn(x) = 1
        /\ x.y \in Int
    BY <1>5 DEF YearIn, MonthIn, DayIn
  <2>2. part_ok(x) = year_ok(x.y)
    BY <2>1 DEF part_ok, date_ok
  <2> QED
    BY <1>1, <1>2, <2>1, <2>2 DEF IsDate
<1>6. CASE x \in [form: {"year_month"}, y: Int, m: Int]
  <2>1. x.form = "year_month" /\ YearIn(x, ALeapYear) = x.y /\ YearIn(x, y) = x.y /\ MonthIn(x) = x.m /\ DayIn(x) = 1
        /\ x.y \in Int
    BY <1>6 DEF YearIn, MonthIn, DayIn
  <2>2. part_ok(x) <=> year_ok(x.y) /\ x.m \in 1..12
    BY <2>1 DEF part_ok, date_ok, year_month_ok, month_ok
  <2> QED
    BY <1>2, <2>1, <2>2, Zenon DEF IsDate
<1>7. CASE x \in [form: {"month_day"}, m: Int, d: Int]
  <2>1. x.form = "month_day" /\ YearIn(x, ALeapYear) = ALeapYear /\ YearIn(x, y) = y /\ MonthIn(x) = x.m /\ DayIn(x) = x.d
        /\ x.d \in Int
    BY <1>7 DEF YearIn, MonthIn, DayIn
  <2> DEFINE L == CASE x.m = 2 -> 29 [] x.m \in {4, 6, 9, 11} -> 30 [] OTHER -> 31
  <2>2. part_ok(x) <=> x.m \in 1..12 /\ x.d \in 1..L
    BY <2>1, SMT DEF part_ok, date_ok, month_day_ok, month_ok
  <2>3. x.m \in 1..12 => Length(ALeapYear, x.m) = L /\ Length(y, x.m) \in 28..L
    BY <1>1, MonthLengths
  <2>4. L \in Int
    OBVIOUS
  <2> HIDE DEF L
  <2>5. x.m \in 1..12 /\ x.d \in 1..Length(y, x.m) => x.d \in 1..L
    BY <2>1, <2>3, <2>4
  <2> QED
    BY <1>1, <2>1, <2>2, <2>3, <2>5 DEF IsDate
<1>8. CASE x \in [form: {"year_month_day"}, y: Int, m: Int, d: Int]
  <2>1. /\ x.form = "year_month_day" /\ YearIn(x, ALeapYear) = x.y /\ YearIn(x, y) = x.y
        /\ MonthIn(x) = x.m /\ DayIn(x) = x.d
        /\ x.y \in Int /\ x.m \in Int
    BY <1>8 DEF YearIn, MonthIn, DayIn
  <2>2. part_ok(x) <=> year_ok(x.y) /\ x.m \in 1..12 /\ x.d \in 1..ymdl_day(x)
    BY <2>1 DEF part_ok, date_ok, ymd_ok, month_ok
  <2>3. x.m \in 1..12 => ymdl_day(x) = Length(x.y, x.m)
    BY <2>1, LastDay
  <2> QED
    BY <2>1, <2>2, <2>3, Zenon DEF IsDate
<1> QED
  BY <1>3, <1>4, <1>5, <1>6, <1>7, <1>8 DEF DayShapes

LEMMA LastPartOk ==
    ASSUME NEW x \in LastShapes, NEW y \in SomeYears
    PROVE  part_ok(x) <=> year_ok(YearIn(x, y)) /\ MonthIn(x) \in 1..12
<1>1. year_ok(y) /\ 1 \in 1..12
  BY TheYears
<1>2. CASE x = last
  <2>1. x.form = "last" /\ YearIn(x, y) = y /\ MonthIn(x) = 1
    BY <1>2 DEF YearIn, MonthIn, last
  <2>2. part_ok(x) = TRUE
    BY <2>1 DEF part_ok, date_ok
  <2> QED
    BY <1>1, <2>1, <2>2
<1>3. CASE x \in [form: {"month_day_last"}, m: Int]
  <2>1. x.form = "month_day_last" /\ YearIn(x, y) = y /\ MonthIn(x) = x.m
    BY <1>3 DEF YearIn, MonthIn
  <2>2. part_ok(x) = month_day_last_ok(x)
    BY <2>1 DEF part_ok, date_ok
  <2> QED
    BY <1>1, <2>1, <2>2 DEF month_day_last_ok, month_ok
<1>4. CASE x \in [form: {"year_month_day_last"}, y: Int, m: Int]
  <2>1. x.form = "year_month_day_last" /\ YearIn(x, y) = x.y /\ MonthIn(x) = x.m
    BY <1>4 DEF YearIn, MonthIn
  <2>2. part_ok(x) = ymdl_ok(x)
    BY <2>1 DEF part_ok, date_ok
  <2> QED
    BY <1>1, <2>1, <2>2 DEF ymdl_ok, month_ok
<1> QED
  BY <1>2, <1>3, <1>4 DEF LastShapes

LEMMA LastWeekdayPartOk ==
    ASSUME NEW x \in LastWeekdayShapes, NEW y \in SomeYears
    PROVE  part_ok(x) <=> year_ok(YearIn(x, y)) /\ MonthIn(x) \in 1..12 /\ x.wd <= 6
<1>1. year_ok(y) /\ 1 \in 1..12
  BY TheYears
<1>2. CASE x \in [form: {"weekday"}, wd: Weekday] \cup [form: {"weekday_last"}, wd: Weekday]
  <2>1. x.form \in {"weekday", "weekday_last"} /\ YearIn(x, y) = y /\ MonthIn(x) = 1
    BY <1>2 DEF YearIn, MonthIn
  <2>2. part_ok(x) = weekday_ok(x.wd)
    BY <2>1 DEF part_ok, date_ok
  <2> QED
    BY <1>1, <2>1, <2>2 DEF weekday_ok
<1>3. CASE x \in [form: {"month_weekday_last"}, m: Int, wd: Weekday]
  <2>1. x.form = "month_weekday_last" /\ YearIn(x, y) = y /\ MonthIn(x) = x.m
    BY <1>3 DEF YearIn, MonthIn
  <2>2. part_ok(x) = month_weekday_last_ok(x)
    BY <2>1 DEF part_ok, date_ok
  <2> QED
    BY <1>1, <2>1, <2>2 DEF month_weekday_last_ok, month_ok, weekday_ok
<1>4. CASE x \in [form: {"year_month_weekday_last"}, y: Int, m: Int, wd: Weekday]
  <2>1. x.form = "year_month_weekday_last" /\ YearIn(x, y) = x.y /\ MonthIn(x) = x.m
    BY <1>4 DEF YearIn, MonthIn
  <2>2. part_ok(x) = ymwdl_ok(x)
    BY <2>1 DEF part_ok, date_ok
  <2> QED
    BY <1>1, <2>1, <2>2 DEF ymwdl_ok, month_ok, weekday_ok
<1> QED
  BY <1>2, <1>3, <1>4 DEF LastWeekdayShapes

(* operator< and operator== compare the year, the month and the day.       *)
LEMMA OrderOfDays ==
    ASSUME NEW x \in DayShapes, NEW z \in DayShapes, x.form = z.form, NEW k \in Int
    PROVE  /\ before(x, z) <=> Earlier(YearIn(x, k), MonthIn(x), DayIn(x), YearIn(z, k), MonthIn(z), DayIn(z))
           /\ x = z <=> YearIn(x, k) = YearIn(z, k) /\ MonthIn(x) = MonthIn(z) /\ DayIn(x) = DayIn(z)
<1>1. CASE x \in [form: {"day"}, d: Int]
  <2>1. z \in [form: {"day"}, d: Int] /\ x.form = "day"
    BY <1>1 DEF DayShapes, last
  <2>2. /\ YearIn(x, k) = k /\ MonthIn(x) = 1 /\ DayIn(x) = x.d
        /\ x.d \in Int
        /\ YearIn(z, k) = k /\ MonthIn(z) = 1 /\ DayIn(z) = z.d
        /\ z.d \in Int
    BY <1>1, <2>1 DEF YearIn, MonthIn, DayIn
  <2>3. before(x, z) <=> x.d < z.d
    BY <2>1 DEF before, day_before
  <2>4. x = z <=> x.d = z.d
    BY <1>1, <2>1
  <2> QED
    BY ONLY <2>2, <2>3, <2>4, SMT, k \in Int DEF Earlier
<1>2. CASE x \in [form: {"month"}, m: Int]
  <2>1. z \in [form: {"month"}, m: Int] /\ x.form = "month"
    BY <1>2 DEF DayShapes, last
  <2>2. /\ YearIn(x, k) = k /\ MonthIn(x) = x.m /\ DayIn(x) = 1
        /\ x.m \in Int
        /\ YearIn(z, k) = k /\ MonthIn(z) = z.m /\ DayIn(z) = 1
        /\ z.m \in Int
    BY <1>2, <2>1 DEF YearIn, MonthIn, DayIn
  <2>3. before(x, z) <=> x.m < z.m
    BY <2>1 DEF before, month_before
  <2>4. x = z <=> x.m = z.m
    BY <1>2, <2>1
  <2> QED
    BY ONLY <2>2, <2>3, <2>4, SMT, k \in Int DEF Earlier
<1>3. CASE x \in [form: {"year"}, y: Int]
  <2>1. z \in [form: {"year"}, y: Int] /\ x.form = "year"
    BY <1>3 DEF DayShapes, last
  <2>2. /\ YearIn(x, k) = x.y /\ MonthIn(x) = 1 /\ DayIn(x) = 1
        /\ x.y \in Int
        /\ YearIn(z, k) = z.y /\ MonthIn(z) = 1 /\ DayIn(z) = 1
        /\ z.y \in Int
    BY <1>3, <2>1 DEF YearIn, MonthIn, DayIn
  <2>3. before(x, z) <=> x.y < z.y
    BY <2>1 DEF before, year_before
  <2>4. x = z <=> x.y = z.y
    BY <1>3, <2>1
  <2> QED
    BY ONLY <2>2, <2>3, <2>4, SMT, k \in Int DEF Earlier
<1>4. CASE x \in [form: {"year_month"}, y: Int, m: Int]
  <2>1. z \in [form: {"year_month"}, y: Int, m: Int] /\ x.form = "year_month"
    BY <1>4 DEF DayShapes, last
  <2>2. /\ YearIn(x, k) = x.y /\ MonthIn(x) = x.m /\ DayIn(x) = 1
        /\ x.y \in Int /\ x.m \in Int
        /\ YearIn(z, k) = z.y /\ MonthIn(z) = z.m /\ DayIn(z) = 1
        /\ z.y \in Int /\ z.m \in Int
    BY <1>4, <2>1 DEF YearIn, MonthIn, DayIn
  <2>3. before(x, z) <=> x.y < z.y \/ (x.y = z.y /\ x.m < z.m)
    BY <2>1 DEF before, year_month_before
  <2>4. x = z <=> x.y = z.y /\ x.m = z.m
    BY <1>4, <2>1
  <2> QED
    BY ONLY <2>2, <2>3, <2>4, SMT, k \in Int DEF Earlier
<1>5. CASE x \in [form: {"month_day"}, m: Int, d: Int]
  <2>1. z \in [form: {"month_day"}, m: Int, d: Int] /\ x.form = "month_day"
    BY <1>5 DEF DayShapes, last
  <2>2. /\ YearIn(x, k) = k /\ MonthIn(x) = x.m /\ DayIn(x) = x.d
        /\ x.m \in Int /\ x.d \in Int
        /\ YearIn(z, k) = k /\ MonthIn(z) = z.m /\ DayIn(z) = z.d
        /\ z.m \in Int /\ z.d \in Int
    BY <1>5, <2>1 DEF YearIn, MonthIn, DayIn
  <2>3. before(x, z) <=> x.m < z.m \/ (x.m = z.m /\ x.d < z.d)
    BY <2>1 DEF before, month_day_before
  <2>4. x = z <=> x.m = z.m /\ x.d = z.d
    BY <1>5, <2>1
  <2> QED
    BY ONLY <2>2, <2>3, <2>4, SMT, k \in Int DEF Earlier
<1>6. CASE x \in [form: {"year_month_day"}, y: Int, m: Int, d: Int]
  <2>1. z \in [form: {"year_month_day"}, y: Int, m: Int, d: Int] /\ x.form = "year_month_day"
    BY <1>6 DEF DayShapes, last
  <2>2. /\ YearIn(x, k) = x.y /\ MonthIn(x) = x.m /\ DayIn(x) = x.d
        /\ x.y \in Int /\ x.m \in Int /\ x.d \in Int
        /\ YearIn(z, k) = z.y /\ MonthIn(z) = z.m /\ DayIn(z) = z.d
        /\ z.y \in Int /\ z.m \in Int /\ z.d \in Int
    BY <1>6, <2>1 DEF YearIn, MonthIn, DayIn
  <2>3. before(x, z) <=> x.y < z.y \/ (x.y = z.y /\ (x.m < z.m \/ (x.m = z.m /\ x.d < z.d)))
    BY <2>1 DEF before, ymd_before, month_day_before
  <2>4. x = z <=> x.y = z.y /\ x.m = z.m /\ x.d = z.d
    BY <1>6, <2>1
  <2> QED
    BY ONLY <2>2, <2>3, <2>4, SMT, k \in Int DEF Earlier
<1> QED
  BY <1>1, <1>2, <1>3, <1>4, <1>5, <1>6 DEF DayShapes

LEMMA OrderOfLastDays ==
    ASSUME NEW x \in LastShapes, NEW z \in LastShapes, x.form = z.form, x.form # "last", NEW k \in Int
    PROVE  /\ before(x, z) <=> YearIn(x, k) < YearIn(z, k)
                               \/ (YearIn(x, k) = YearIn(z, k) /\ MonthIn(x) < MonthIn(z))
           /\ x = z <=> YearIn(x, k) = YearIn(z, k) /\ MonthIn(x) = MonthIn(z)
<1>1. CASE x \in [form: {"month_day_last"}, m: Int]
  <2>1. z \in [form: {"month_day_last"}, m: Int] /\ x.form = "month_day_last"
    BY <1>1 DEF LastShapes, last
  <2>2. /\ YearIn(x, k) = k /\ MonthIn(x) = x.m
        /\ x.m \in Int
        /\ YearIn(z, k) = k /\ MonthIn(z) = z.m
        /\ z.m \in Int
    BY <1>1, <2>1 DEF YearIn, MonthIn
  <2>3. before(x, z) <=> x.m < z.m
    BY <2>1 DEF before, month_day_last_before, month_before
  <2>4. x = z <=> x.m = z.m
    BY <1>1, <2>1
  <2> QED
    BY ONLY <2>2, <2>3, <2>4, SMT, k \in Int
<1>2. CASE x \in [form: {"year_month_day_last"}, y: Int, m: Int]
  <2>1. z \in [form: {"year_month_day_last"}, y: Int, m: Int] /\ x.form = "year_month_day_last"
    BY <1>2 DEF LastShapes, last
  <2>2. /\ YearIn(x, k) = x.y /\ MonthIn(x) = x.m
        /\ x.y \in Int /\ x.m \in Int
        /\ YearIn(z, k) = z.y /\ MonthIn(z) = z.m
        /\ z.y \in Int /\ z.m \in Int
    BY <1>2, <2>1 DEF YearIn, MonthIn
  <2>3. before(x, z) <=> x.y < z.y \/ (x.y = z.y /\ x.m < z.m)
    BY <2>1 DEF before, ymdl_before, month_day_last_before, month_before
  <2>4. x = z <=> x.y = z.y /\ x.m = z.m
    BY <1>2, <2>1
  <2> QED
    BY ONLY <2>2, <2>3, <2>4, SMT, k \in Int
<1> QED
  BY <1>1, <1>2 DEF LastShapes, last

(* The parts that have an order compare as their days do.                  *)
LEMMA DaysCompare ==
    ASSUME NEW x \in DayShapes, NEW z \in DayShapes, x.form = z.form, part_ok(x), part_ok(z)
    PROVE  /\ before(x, z) <=> date_days(InYear(x, ALeapYear)) < date_days(InYear(z, ALeapYear))
           /\ x = z <=> date_days(InYear(x, ALeapYear)) = date_days(InYear(z, ALeapYear))
<1> DEFINE y == YearIn(x, ALeapYear)
           m == MonthIn(x)
           d == DayIn(x)
           y2 == YearIn(z, ALeapYear)
           m2 == MonthIn(z)
           d2 == DayIn(z)
           a == date_days(InYear(x, ALeapYear))
           b == date_days(InYear(z, ALeapYear))
<1>1. ALeapYear \in SomeYears /\ ALeapYear \in Int
  BY TheYears
<1>2. y \in Int /\ m \in Int /\ d \in Int /\ y2 \in Int /\ m2 \in Int /\ d2 \in Int
  BY <1>1, ShapeFields DEF Shapes
<1>3. IsDate(y, m, d) /\ IsDate(y2, m2, d2)
  BY <1>1, DayPartOk
<1>4. a = Serial(y, m, d) /\ b = Serial(y2, m2, d2)
  <2>1. InYear(x, ALeapYear) = year_month_day(year_month(y, m), d)
    BY DayShapeInYear
  <2>2. InYear(z, ALeapYear) = year_month_day(year_month(y2, m2), d2)
    BY DayShapeInYear
  <2>3. m \in 1..12 /\ m2 \in 1..12
    BY <1>3 DEF IsDate
  <2> HIDE DEF y, m, d, y2, m2, d2
  <2> QED
    BY <1>2, <2>1, <2>2, <2>3, DateOfDay
<1>5. /\ before(x, z) <=> Earlier(y, m, d, y2, m2, d2)
      /\ x = z <=> y = y2 /\ m = m2 /\ d = d2
  BY <1>1, OrderOfDays
<1> HIDE DEF y, m, d, y2, m2, d2, a, b
<1>6. m \in 1..12 /\ d \in 1..Length(y, m) /\ m2 \in 1..12 /\ d2 \in 1..Length(y2, m2)
  BY <1>3 DEF IsDate
<1>7. /\ Serial(y, m, d) < Serial(y2, m2, d2) <=> Earlier(y, m, d, y2, m2, d2)
      /\ Serial(y, m, d) = Serial(y2, m2, d2) <=> y = y2 /\ m = m2 /\ d = d2
  <2>1. InSequence(y, m, d, y2, m2, d2)
    BY ONLY <1>2, <1>6, DaysFollow
  <2> QED
    BY <2>1 DEF InSequence
<1>8. before(x, z) <=> a < b
  BY ONLY <1>4, <1>5, <1>7
<1>9. x = z <=> a = b
  BY ONLY <1>4, <1>5, <1>7
<1> QED
  BY <1>8, <1>9, Zenon DEF a, b

LEMMA LastDaysCompare ==
    ASSUME NEW x \in LastShapes, NEW z \in LastShapes, x.form = z.form, x.form # "last",
           part_ok(x), part_ok(z)
    PROVE  /\ before(x, z) <=> date_days(InYear(x, ALeapYear)) < date_days(InYear(z, ALeapYear))
           /\ x = z <=> date_days(InYear(x, ALeapYear)) = date_days(InYear(z, ALeapYear))
<1> DEFINE y == YearIn(x, ALeapYear)
           m == MonthIn(x)
           d == Length(y, m)
           y2 == YearIn(z, ALeapYear)
           m2 == MonthIn(z)
           d2 == Length(y2, m2)
           a == date_days(InYear(x, ALeapYear))
           b == date_days(InYear(z, ALeapYear))
<1>1. ALeapYear \in SomeYears /\ ALeapYear \in Int
  BY TheYears
<1>2. y \in Int /\ m \in Int /\ y2 \in Int /\ m2 \in Int
  BY <1>1, ShapeFields DEF Shapes
<1>3. m \in 1..12 /\ m2 \in 1..12
  BY <1>1, LastPartOk
<1>4. a = Serial(y, m, d) /\ b = Serial(y2, m2, d2) /\ d \in 28..31 /\ d2 \in 28..31
  <2>1. InYear(x, ALeapYear) = year_month_day_last(year_month(y, m))
    BY LastShapeInYear
  <2>2. InYear(z, ALeapYear) = year_month_day_last(year_month(y2, m2))
    BY LastShapeInYear
  <2> HIDE DEF y, m, y2, m2
  <2> QED
    BY <1>2, <1>3, <2>1, <2>2, DateOfLast
<1>5. /\ before(x, z) <=> y < y2 \/ (y = y2 /\ m < m2)
      /\ x = z <=> y = y2 /\ m = m2
  BY <1>1, OrderOfLastDays
<1>6. y = y2 /\ m = m2 => d = d2
  OBVIOUS
<1> HIDE DEF y, m, y2, m2, a, b
<1>7. d \in 1..Length(y, m) /\ d2 \in 1..Length(y2, m2)
  BY <1>4
<1>8. /\ Serial(y, m, d) < Serial(y2, m2, d2) <=> Earlier(y, m, d, y2, m2, d2)
      /\ Serial(y, m, d) = Serial(y2, m2, d2) <=> y = y2 /\ m = m2 /\ d = d2
  <2> HIDE DEF d, d2
  <2>1. InSequence(y, m, d, y2, m2, d2)
    BY ONLY <1>2, <1>3, <1>7, DaysFollow
  <2> QED
    BY <2>1 DEF InSequence
<1>9. d \in Int /\ d2 \in Int
  BY <1>4
<1> HIDE DEF d, d2
<1>10. before(x, z) <=> a < b
  BY ONLY <1>4, <1>5, <1>6, <1>8, <1>9, SMT DEF Earlier
<1>11. x = z <=> a = b
  BY ONLY <1>4, <1>5, <1>6, <1>8, SMT
<1> QED
  BY <1>10, <1>11, Zenon DEF a, b

(* A part is ok if it is a date of some year.                              *)
LEMMA DayPartIsDate ==
    ASSUME NEW x \in DayShapes
    PROVE  part_ok(x) <=> \E y \in SomeYears: date_ok(InYear(x, y))
<1>1. ALeapYear \in SomeYears /\ \A y \in SomeYears: y \in Int
  BY TheYears
<1>2. ASSUME NEW y \in SomeYears
      PROVE  date_ok(InYear(x, y)) <=> IsDate(YearIn(x, y), MonthIn(x), DayIn(x))
  <2>1. YearIn(x, y) \in Int /\ MonthIn(x) \in Int /\ DayIn(x) \in Int
    BY <1>1, ShapeFields DEF Shapes
  <2>2. InYear(x, y) = year_month_day(year_month(YearIn(x, y), MonthIn(x)), DayIn(x))
    BY DayShapeInYear
  <2> QED
    BY ONLY <2>1, <2>2, DateOfDay
<1> QED
  BY <1>1, <1>2, DayPartOk, Zenon

LEMMA LastPartIsDate ==
    ASSUME NEW x \in LastShapes
    PROVE  part_ok(x) <=> \E y \in SomeYears: date_ok(InYear(x, y))
<1>1. ALeapYear \in SomeYears /\ \A y \in SomeYears: y \in Int
  BY TheYears
<1>2. ASSUME NEW y \in SomeYears
      PROVE  date_ok(InYear(x, y)) <=> year_ok(YearIn(x, y)) /\ MonthIn(x) \in 1..12
  <2>1. YearIn(x, y) \in Int /\ MonthIn(x) \in Int
    BY <1>1, ShapeFields DEF Shapes
  <2>2. InYear(x, y) = year_month_day_last(year_month(YearIn(x, y), MonthIn(x)))
    BY LastShapeInYear
  <2> QED
    BY ONLY <2>1, <2>2, DateOfLast
<1> QED
  BY <1>1, <1>2, LastPartOk, Zenon

LEMMA LastWeekdayPartIsDate ==
    ASSUME NEW x \in LastWeekdayShapes
    PROVE  part_ok(x) <=> \E y \in SomeYears: date_ok(InYear(x, y))
<1>1. ALeapYear \in SomeYears /\ \A y \in SomeYears: y \in Int
  BY TheYears
<1>2. ASSUME NEW y \in SomeYears
      PROVE  date_ok(InYear(x, y)) <=> year_ok(YearIn(x, y)) /\ MonthIn(x) \in 1..12 /\ x.wd <= 6
  <2>1. YearIn(x, y) \in Int /\ MonthIn(x) \in Int
    BY <1>1, ShapeFields DEF Shapes
  <2>2. InYear(x, y) = year_month_weekday_last(year_month(YearIn(x, y), MonthIn(x)), x.wd) /\ x.wd \in Weekday
    BY LastWeekdayShapeInYear
  <2> QED
    BY ONLY <2>1, <2>2, DateOfLastWeekday
<1> QED
  BY <1>1, <1>2, LastWeekdayPartOk, Zenon

(* The first of a month moves by 1461 days from leap year to leap year.    *)
LEMMA FirstOfLeapYears ==
    ASSUME NEW m \in 1..12
    PROVE  \E f \in Int: \A i \in 0..6: /\ 1996 + 4 * i \in SomeYears /\ Leap(1996 + 4 * i)
                                        /\ Serial(1996 + 4 * i, m, 1) = f + 1461 * i
<1> DEFINE B == CommonDays(m) + (IF m > 2 THEN 1 ELSE 0)
           C == LeapYearsTo(1969)
           f == 365 * 26 + 483 - C + B
<1>1. B \in Int
  BY SMT DEF CommonDays
<1>2. C \in Int
  BY LeapYears
<1>3. ASSUME NEW i \in 0..6
      PROVE  /\ 1996 + 4 * i \in SomeYears /\ Leap(1996 + 4 * i)
             /\ Serial(1996 + 4 * i, m, 1) = f + 1461 * i
  <2> DEFINE y == 1996 + 4 * i
  <2>1. y \in SomeYears /\ y \in Int
    BY SMT DEF SomeYears
  <2>2. Leap(y)
    BY SMT DEF Leap
  <2>3. LeapYearsTo(y - 1) = 483 + i
    BY SMT DEF LeapYearsTo
  <2> HIDE DEF y
  <2>4. LengthsBefore(y, m) = B
    BY <2>1, <2>2, LengthsSum DEF LeapDay
  <2>5. Serial(y, m, 1) = 365 * (y - 1970) + (483 + i) - C + B + 1 - 1
    BY <2>3, <2>4 DEF Serial
  <2>6. y - 1970 = 26 + 4 * i
    BY DEF y
  <2> HIDE DEF B, C
  <2>7. Serial(y, m, 1) = f + 1461 * i
    BY <1>1, <1>2, <2>5, <2>6, SMT
  <2> QED
    BY <2>1, <2>2, <2>7 DEF y
<1> HIDE DEF B, C
<1>4. f \in Int
  BY <1>1, <1>2
<1> HIDE DEF f
<1> QED
  BY <1>3, <1>4

(* Each month begins with each weekday in some leap year.                  *)
LEMMA FirstWeekdays ==
    ASSUME NEW m \in 1..12, NEW wd \in 0..6
    PROVE  \E y \in SomeYears: Leap(y) /\ weekday_from_days(Serial(y, m, 1)) = wd
<1>1. PICK f \in Int: \A i \in 0..6: /\ 1996 + 4 * i \in SomeYears /\ Leap(1996 + 4 * i)
                                     /\ Serial(1996 + 4 * i, m, 1) = f + 1461 * i
  BY FirstOfLeapYears
<1> DEFINE q == (f + 4) \div 7
           w == (f + 4) % 7
           i == (3 * (wd - w)) % 7
           y == 1996 + 4 * i
<1>2. q \in Int /\ w \in 0..6 /\ f + 4 = 7 * q + w /\ i \in 0..6
  BY SMT
<1> HIDE DEF q, w
<1>3. (w + 5 * i) % 7 = wd
  BY <1>2, SMT
<1> HIDE DEF i
<1>4. (f + 1461 * i + 4) % 7 = wd
  <2>1. f + 1461 * i + 4 = 7 * (q + 208 * i) + (w + 5 * i)
    BY <1>2
  <2>2. w + 5 * i \in Int /\ q + 208 * i \in Int
    BY <1>2
  <2> DEFINE a == q + 208 * i
             b == w + 5 * i
  <2> HIDE DEF a, b
  <2>3. (7 * a + b) % 7 = b % 7
    <3>1. a \in Int /\ b \in Int
      BY <2>2 DEF a, b
    <3> QED
      BY <3>1, SMT
  <2> QED
    BY <1>3, <2>1, <2>3 DEF a, b
<1>5. f + 1461 * i \in Int
  BY <1>2
<1>6. y \in SomeYears /\ Leap(y) /\ Serial(y, m, 1) = f + 1461 * i
  BY <1>1, <1>2
<1> HIDE DEF y
<1>7. weekday_from_days(Serial(y, m, 1)) = wd
  BY <1>4, <1>5, <1>6, WeekdayOfDays
<1> QED
  BY <1>6, <1>7

IsIndexedDate(y, m, wdi) ==
    /\ year_ok(y) /\ m \in 1..12 /\ wdi.wd <= 6 /\ wdi.index >= 1
    /\ wdi.index > 4 => DayOfIndexed(y, m, wdi) <= Length(y, m)

(* There is a fifth weekday in some year, but never a sixth.               *)
LEMMA FifthWeekdays ==
    ASSUME NEW m \in 1..12, NEW wdi \in WeekdayIndexed
    PROVE  /\ wdi.wd <= 6 /\ wdi.index \in 1..5 => \E y \in SomeYears: IsIndexedDate(y, m, wdi)
           /\ \A y \in Int: IsIndexedDate(y, m, wdi) => wdi.index \in 1..5
<1>1. wdi.wd \in 0..15 /\ wdi.index \in 0..15
  BY DEF WeekdayIndexed
<1>2. ASSUME wdi.wd <= 6, wdi.index \in 1..5
      PROVE  \E y \in SomeYears: IsIndexedDate(y, m, wdi)
  <2>1. PICK y \in SomeYears: Leap(y) /\ weekday_from_days(Serial(y, m, 1)) = wdi.wd
    <3>1. wdi.wd \in 0..6
      BY <1>1, <1>2
    <3> QED
      BY <3>1, FirstWeekdays
  <2>2. y \in Int /\ year_ok(y)
    BY TheYears
  <2>3. DayOfIndexed(y, m, wdi) = 7 * (wdi.index - 1) + 1
    BY <1>1, <2>1 DEF DayOfIndexed
  <2>4. Length(y, m) >= 29
    BY <2>1 DEF Length
  <2>5. DayOfIndexed(y, m, wdi) <= Length(y, m)
    <3>1. DayOfIndexed(y, m, wdi) <= 29
      BY <1>1, <1>2, <2>3
    <3>2. Length(y, m) \in Int /\ DayOfIndexed(y, m, wdi) \in Int
      BY <1>1, <2>3 DEF Length
    <3> QED
      BY <2>4, <3>1, <3>2
  <2> QED
    BY <1>2, <2>2, <2>5 DEF IsIndexedDate
<1>3. ASSUME NEW y \in Int, IsIndexedDate(y, m, wdi)
      PROVE  wdi.index \in 1..5
  <2> DEFINE e == year_month_weekday(year_month(y, m), wdi)
             d == DayOfIndexed(y, m, wdi)
             r == (wdi.wd - weekday_from_days(Serial(y, m, 1))) % 7
  <2>1. r \in 0..6
    <3>1. 1 \in Int
      OBVIOUS
    <3>2. Serial(y, m, 1) \in Int
      BY ONLY <3>1, SerialCounts, y \in Int, m \in 1..12
    <3>3. weekday_from_days(Serial(y, m, 1)) \in 0..6
      BY <3>2, WeekdayOfDays
    <3> QED
      BY <1>1, <3>3
  <2>2. d = r + 7 * (wdi.index - 1) + 1
    BY DEF DayOfIndexed
  <2>3. Length(y, m) \in 28..31
    BY DEF Length
  <2> HIDE DEF r, d
  <2>4. wdi.index >= 1 /\ (wdi.index > 4 => d <= Length(y, m))
    BY <1>3 DEF IsIndexedDate, d
  <2> QED
    BY <1>1, <2>1, <2>2, <2>3, <2>4
<1> QED
  BY <1>2, <1>3

LEMMA IndexedInYear ==
    ASSUME NEW x \in IndexedShapes, NEW y \in SomeYears
    PROVE  /\ date_ok(InYear(x, y)) <=> IsIndexedDate(YearIn(x, y), MonthIn(x), x.wdi)
           /\ MonthIn(x) \in 1..12 =>
                 LET d == DayOfIndexed(YearIn(x, y), MonthIn(x), x.wdi)
                 IN  /\ date_days(InYear(x, y)) = Serial(YearIn(x, y), MonthIn(x), d) /\ d \in Int
                     /\ x.wdi.index >= 1 => d >= 1
                     /\ date_ok(InYear(x, y)) => IsDate(YearIn(x, y), MonthIn(x), d)
<1> DEFINE Y == YearIn(x, y)
           M == MonthIn(x)
<1>1. Y \in Int /\ M \in Int
  BY TheYears, ShapeFields DEF Shapes
<1>2. InYear(x, y) = year_month_weekday(year_month(Y, M), x.wdi) /\ x.wdi \in WeekdayIndexed
  BY IndexedShapeInYear
<1> DEFINE e == year_month_weekday(year_month(Y, M), x.wdi)
           d == DayOfIndexed(Y, M, x.wdi)
<1> HIDE DEF Y, M
<1>3. /\ date_ok(e) <=> /\ year_ok(Y) /\ M \in 1..12 /\ x.wdi.wd <= 6 /\ x.wdi.index >= 1
                        /\ x.wdi.index > 4 => d <= Length(Y, M)
      /\ M \in 1..12 => /\ date_days(e) = Serial(Y, M, d) /\ d \in Int
                        /\ x.wdi.index >= 1 => d >= 1
                        /\ date_ok(e) => IsDate(Y, M, d)
  BY ONLY <1>1, <1>2, DateOfIndexed
<1> HIDE DEF e
<1>4. InYear(x, y) = e
  BY <1>2 DEF e
<1>5. date_ok(e) <=> IsIndexedDate(Y, M, x.wdi)
  BY <1>3, Zenon DEF IsIndexedDate
<1> HIDE DEF d
<1>6. date_ok(InYear(x, y)) <=> IsIndexedDate(Y, M, x.wdi)
  BY <1>4, <1>5, Zenon
<1>7. M \in 1..12 => /\ date_days(InYear(x, y)) = Serial(Y, M, d) /\ d \in Int
                     /\ x.wdi.index >= 1 => d >= 1
                     /\ date_ok(InYear(x, y)) => IsDate(Y, M, d)
  BY <1>3, <1>4, Zenon
<1> QED
  BY <1>6, <1>7, Zenon DEF Y, M, d

LEMMA IndexedPartIsDate ==
    ASSUME NEW x \in IndexedShapes
    PROVE  /\ part_ok(x) <=> \E y \in SomeYears: date_ok(InYear(x, y))
           /\ part_ok(x) => MonthIn(x) \in 1..12 /\ x.wdi.index >= 1
<1>1. x.wdi \in WeekdayIndexed /\ \A y \in SomeYears: y \in Int
  BY IndexedShapeInYear, TheYears
<1>2. 1 \in 1..12
  OBVIOUS
<1>3. CASE x.form = "weekday_indexed"
  <2>1. MonthIn(x) = 1 /\ \A y: YearIn(x, y) = y
    BY <1>3 DEF IndexedShapes, MonthIn, YearIn
  <2>2. part_ok(x) <=> x.wdi.wd <= 6 /\ x.wdi.index \in 1..5
    BY <1>3 DEF part_ok, date_ok, weekday_indexed_ok, weekday_ok
  <2>3. part_ok(x) <=> \E y \in SomeYears: IsIndexedDate(y, 1, x.wdi)
    <3>1. \A y \in SomeYears: IsIndexedDate(y, 1, x.wdi) => x.wdi.wd <= 6
      BY DEF IsIndexedDate
    <3> QED
      BY <1>1, <1>2, <2>2, <3>1, FifthWeekdays
  <2>4. part_ok(x) => x.wdi.index >= 1
    BY <2>2
  <2> QED
    BY <1>2, <2>1, <2>3, <2>4, IndexedInYear
<1>4. CASE x.form = "month_weekday"
  <2>1. MonthIn(x) = x.m /\ \A y: YearIn(x, y) = y
    BY <1>4 DEF IndexedShapes, MonthIn, YearIn
  <2>2. part_ok(x) <=> x.m \in 1..12 /\ x.wdi.wd <= 6 /\ x.wdi.index \in 1..5
    BY <1>4 DEF part_ok, date_ok, month_weekday_ok, month_ok, weekday_indexed_ok, weekday_ok
  <2>3. part_ok(x) <=> \E y \in SomeYears: IsIndexedDate(y, x.m, x.wdi)
    <3>1. \A y \in SomeYears: IsIndexedDate(y, x.m, x.wdi) => x.wdi.wd <= 6 /\ x.m \in 1..12
      BY DEF IsIndexedDate
    <3> QED
      BY <1>1, <2>2, <3>1, FifthWeekdays
  <2>4. part_ok(x) => x.wdi.index >= 1
    BY <2>2
  <2> QED
    BY <2>1, <2>2, <2>3, <2>4, IndexedInYear
<1>5. CASE x.form = "year_month_weekday"
  <2>1. MonthIn(x) = x.m /\ \A y: InYear(x, y) = x
    <3>1. /\ MonthIn(x) = x.m /\ \A y: YearIn(x, y) = x.y
          /\ x = [form |-> "year_month_weekday", y |-> x.y, m |-> x.m, wdi |-> x.wdi]
      BY <1>5 DEF IndexedShapes, MonthIn, YearIn
    <3>2. \A y: InYear(x, y) = year_month_weekday(year_month(YearIn(x, y), MonthIn(x)), x.wdi)
      BY IndexedShapeInYear
    <3> QED
      BY <3>1, <3>2 DEF year_month_weekday, year_month
  <2>2. part_ok(x) <=> date_ok(x)
    BY <1>5 DEF part_ok
  <2>3. part_ok(x) => x.m \in 1..12 /\ x.wdi.index >= 1
    BY <1>5 DEF part_ok, date_ok, ymwd_ok, month_ok
  <2>4. ALeapYear \in SomeYears
    BY TheYears
  <2> QED
    BY <2>1, <2>2, <2>3, <2>4
<1> QED
  BY <1>3, <1>4, <1>5 DEF IndexedShapes

(* A date is not a day of a later month.                                   *)
LEMMA NotEarlier ==
    ASSUME NEW y \in Int, NEW m \in 1..12, NEW d \in Int, IsDate(y, m, d),
           NEW y2 \in Int, NEW m2 \in 1..12, NEW d2 \in Int, d2 >= 1,
           Serial(y, m, d) = Serial(y2, m2, d2)
    PROVE  ~(y < y2 \/ (y = y2 /\ m < m2))
<1> DEFINE F == Serial(y, m, 1)
           F2 == Serial(y2, m2, 1)
           L == Length(y, m)
<1>1. F \in Int /\ F2 \in Int /\ Serial(y, m, d) = F + d - 1 /\ Serial(y2, m2, d2) = F2 + d2 - 1
  <2>1. 1 \in Int
    OBVIOUS
  <2>2. F \in Int /\ F2 \in Int
    BY ONLY <2>1, SerialCounts, y \in Int, m \in 1..12, y2 \in Int, m2 \in 1..12 DEF F, F2
  <2>3. Serial(y, m, d) = F + d - 1
    BY ONLY SerialCounts, y \in Int, m \in 1..12, d \in Int DEF F
  <2>4. Serial(y2, m2, d2) = F2 + d2 - 1
    BY ONLY SerialCounts, y2 \in Int, m2 \in 1..12, d2 \in Int DEF F2
  <2> QED
    BY <2>2, <2>3, <2>4
<1>2. d <= L /\ L \in Int
  BY DEF IsDate, Length
<1>3. y < y2 \/ (y = y2 /\ m < m2) => F + L <= F2
  BY MonthsFollow
<1> HIDE DEF F, F2, L
<1>4. F + d - 1 = F2 + d2 - 1
  BY <1>1, Zenon
<1>5. ~(F + L <= F2)
  BY ONLY <1>1, <1>2, <1>4, d \in Int, d2 \in Int, d2 >= 1, SMT
<1> QED
  BY ONLY <1>3, <1>5

(* The year of a part is the one that is given, or its own.                *)
LEMMA YearsAlike ==
    ASSUME NEW x \in IndexedShapes \cup LastWeekdayShapes, NEW z \in IndexedShapes \cup LastWeekdayShapes,
           x.form = z.form
    PROVE  \/ \A k: YearIn(x, k) = k /\ YearIn(z, k) = k
           \/ \A k: YearIn(x, k) = x.y /\ YearIn(z, k) = z.y
<1>1. CASE x.form \in {"year_month_weekday", "year_month_weekday_last"}
  <2>1. "y" \in DOMAIN x /\ "y" \in DOMAIN z
    BY <1>1 DEF IndexedShapes, LastWeekdayShapes
  <2> QED
    BY <2>1, Zenon DEF YearIn
<1>2. CASE x.form \notin {"year_month_weekday", "year_month_weekday_last"}
  <2>1. "y" \notin DOMAIN x /\ "y" \notin DOMAIN z
    BY <1>2 DEF IndexedShapes, LastWeekdayShapes
  <2> QED
    BY <2>1, Zenon DEF YearIn
<1> QED
  BY <1>1, <1>2

(* The same weekday with the same index.                                   *)
LEMMA IndexedAlike ==
    ASSUME NEW y \in Int, NEW m \in 1..12, NEW a \in WeekdayIndexed, NEW b \in WeekdayIndexed,
           a.wd <= 6, b.wd <= 6, DayOfIndexed(y, m, a) = DayOfIndexed(y, m, b)
    PROVE  a.wd = b.wd /\ a.index = b.index
<1> DEFINE w == weekday_from_days(Serial(y, m, 1))
           r == (a.wd - w) % 7
           s == (b.wd - w) % 7
<1>1. w \in 0..6
  <2>1. 1 \in Int
    OBVIOUS
  <2>2. Serial(y, m, 1) \in Int
    BY ONLY <2>1, SerialCounts, y \in Int, m \in 1..12
  <2> QED
    BY <2>2, WeekdayOfDays
<1>2. a.wd \in 0..6 /\ b.wd \in 0..6 /\ a.index \in 0..15 /\ b.index \in 0..15
  BY DEF WeekdayIndexed
<1>3. r + 7 * (a.index - 1) + 1 = s + 7 * (b.index - 1) + 1
  BY DEF DayOfIndexed
<1> HIDE DEF w
<1>4. r \in 0..6 /\ s \in 0..6
  BY <1>1, <1>2
<1>5. r = s /\ a.index = b.index
  <2> DEFINE i == a.index
             j == b.index
  <2>1. r + 7 * (i - 1) + 1 = s + 7 * (j - 1) + 1 /\ i \in 0..15 /\ j \in 0..15
    BY <1>2, <1>3
  <2> HIDE DEF r, s, i, j
  <2>2. r = s /\ i = j
    BY ONLY <1>4, <2>1, SMT
  <2> QED
    BY <2>2 DEF i, j
<1>6. a.wd = b.wd
  <2> DEFINE A == a.wd
             B == b.wd
  <2>1. (A - w) % 7 = (B - w) % 7 /\ A \in 0..6 /\ B \in 0..6
    BY <1>2, <1>5
  <2> HIDE DEF A, B
  <2>2. A = B
    BY ONLY <1>1, <2>1, SMT
  <2> QED
    BY <2>2 DEF A, B
<1> QED
  BY <1>5, <1>6

LEMMA LastWeekdayAlike ==
    ASSUME NEW y \in Int, NEW m \in 1..12, NEW a \in Weekday, NEW b \in Weekday,
           a <= 6, b <= 6, DayOfLast(y, m, a) = DayOfLast(y, m, b)
    PROVE  a = b
<1> DEFINE L == Length(y, m)
           w == weekday_from_days(Serial(y, m, L))
           r == (w - a) % 7
           s == (w - b) % 7
<1>1. L \in Int
  BY DEF Length
<1>2. w \in 0..6
  <2> HIDE DEF L
  <2>2. Serial(y, m, L) \in Int
    BY ONLY <1>1, SerialCounts, y \in Int, m \in 1..12
  <2> QED
    BY <2>2, WeekdayOfDays
<1>3. a \in 0..6 /\ b \in 0..6
  BY DEF Weekday
<1>4. L - r = L - s
  BY DEF DayOfLast
<1> HIDE DEF w, L
<1>5. r \in 0..6 /\ s \in 0..6
  BY <1>2, <1>3
<1>6. r = s
  <2> HIDE DEF r, s
  <2> QED
    BY <1>1, <1>4, <1>5
<1> QED
  BY <1>2, <1>3, <1>6, SMT

(* operator== compares the year, the month and the weekday.                *)
LEMMA EqualIndexed ==
    ASSUME NEW x \in IndexedShapes, NEW z \in IndexedShapes, x.form = z.form, NEW k
    PROVE  equal(x, z) <=> /\ YearIn(x, k) = YearIn(z, k) /\ MonthIn(x) = MonthIn(z)
                           /\ x.wdi.wd = z.wdi.wd /\ x.wdi.index = z.wdi.index
<1>1. CASE x.form = "weekday_indexed"
  <2>1. YearIn(x, k) = k /\ YearIn(z, k) = k /\ MonthIn(x) = 1 /\ MonthIn(z) = 1
    BY <1>1 DEF IndexedShapes, YearIn, MonthIn
  <2>2. equal(x, z) <=> x.wdi.wd = z.wdi.wd /\ x.wdi.index = z.wdi.index
    BY <1>1 DEF equal, weekday_indexed_equal
  <2> QED
    BY <2>1, <2>2, Zenon
<1>2. CASE x.form = "month_weekday"
  <2>1. YearIn(x, k) = k /\ YearIn(z, k) = k /\ MonthIn(x) = x.m /\ MonthIn(z) = z.m
    BY <1>2 DEF IndexedShapes, YearIn, MonthIn
  <2>2. equal(x, z) <=> x.m = z.m /\ x.wdi.wd = z.wdi.wd /\ x.wdi.index = z.wdi.index
    BY <1>2 DEF equal, month_weekday_equal, weekday_indexed_equal
  <2> QED
    BY <2>1, <2>2, Zenon
<1>3. CASE x.form = "year_month_weekday"
  <2>1. YearIn(x, k) = x.y /\ YearIn(z, k) = z.y /\ MonthIn(x) = x.m /\ MonthIn(z) = z.m
    BY <1>3 DEF IndexedShapes, YearIn, MonthIn
  <2>2. equal(x, z) <=> x.y = z.y /\ x.m = z.m /\ x.wdi.wd = z.wdi.wd /\ x.wdi.index = z.wdi.index
    BY <1>3 DEF equal, ymwd_equal, month_weekday_equal, weekday_indexed_equal
  <2> QED
    BY <2>1, <2>2, Zenon
<1> QED
  BY <1>1, <1>2, <1>3 DEF IndexedShapes

LEMMA EqualLastWeekdays ==
    ASSUME NEW x \in LastWeekdayShapes, NEW z \in LastWeekdayShapes, x.form = z.form,
           x.form # "weekday", NEW k
    PROVE  equal(x, z) <=> YearIn(x, k) = YearIn(z, k) /\ MonthIn(x) = MonthIn(z) /\ x.wd = z.wd
<1>1. CASE x.form = "weekday_last"
  <2>1. YearIn(x, k) = k /\ YearIn(z, k) = k /\ MonthIn(x) = 1 /\ MonthIn(z) = 1
    BY <1>1 DEF LastWeekdayShapes, YearIn, MonthIn
  <2>2. equal(x, z) <=> x.wd = z.wd
    BY <1>1 DEF equal, weekday_last_equal
  <2> QED
    BY <2>1, <2>2, Zenon
<1>2. CASE x.form = "month_weekday_last"
  <2>1. YearIn(x, k) = k /\ YearIn(z, k) = k /\ MonthIn(x) = x.m /\ MonthIn(z) = z.m
    BY <1>2 DEF LastWeekdayShapes, YearIn, MonthIn
  <2>2. equal(x, z) <=> x.m = z.m /\ x.wd = z.wd
    BY <1>2 DEF equal, month_weekday_last_equal, weekday_last_equal
  <2> QED
    BY <2>1, <2>2, Zenon
<1>3. CASE x.form = "year_month_weekday_last"
  <2>1. YearIn(x, k) = x.y /\ YearIn(z, k) = z.y /\ MonthIn(x) = x.m /\ MonthIn(z) = z.m
    BY <1>3 DEF LastWeekdayShapes, YearIn, MonthIn
  <2>2. equal(x, z) <=> x.y = z.y /\ x.m = z.m /\ x.wd = z.wd
    BY <1>3 DEF equal, ymwdl_equal, month_weekday_last_equal, weekday_last_equal
  <2> QED
    BY <2>1, <2>2, Zenon
<1> QED
  BY <1>1, <1>2, <1>3 DEF LastWeekdayShapes

(* The days of two parts with weekdays, in a year in which the first is a  *)
(* date: if they are equal, the first does not come in an earlier month.   *)
LEMMA IndexedNotEarlier ==
    ASSUME NEW x \in IndexedShapes, NEW z \in IndexedShapes, NEW k \in SomeYears,
           date_ok(InYear(x, k)), MonthIn(x) \in 1..12, MonthIn(z) \in 1..12, z.wdi.index >= 1,
           date_days(InYear(x, k)) = date_days(InYear(z, k))
    PROVE  ~(YearIn(x, k) < YearIn(z, k) \/ (YearIn(x, k) = YearIn(z, k) /\ MonthIn(x) < MonthIn(z)))
<1> DEFINE y == YearIn(x, k)
           m == MonthIn(x)
           d == DayOfIndexed(y, m, x.wdi)
           y2 == YearIn(z, k)
           m2 == MonthIn(z)
           d2 == DayOfIndexed(y2, m2, z.wdi)
<1>1. y \in Int /\ y2 \in Int
  BY TheYears, ShapeFields DEF Shapes
<1>2. date_days(InYear(x, k)) = Serial(y, m, d) /\ d \in Int /\ IsDate(y, m, d)
  BY IndexedInYear, Zenon
<1>3. date_days(InYear(z, k)) = Serial(y2, m2, d2) /\ d2 \in Int /\ d2 >= 1
  BY IndexedInYear, Zenon
<1>4. m \in 1..12 /\ m2 \in 1..12 /\ Serial(y, m, d) = Serial(y2, m2, d2)
  BY <1>2, <1>3
<1> HIDE DEF y, m, d, y2, m2, d2
<1>5. ~(y < y2 \/ (y = y2 /\ m < m2))
  BY ONLY <1>1, <1>2, <1>3, <1>4, NotEarlier
<1> QED
  BY <1>5 DEF y, m, y2, m2

(* The parts with a weekday are equal if they are the same days.           *)
LEMMA IndexedCompare ==
    ASSUME NEW x \in IndexedShapes, NEW z \in IndexedShapes, x.form = z.form, part_ok(x), part_ok(z)
    PROVE  equal(x, z) <=> \A k \in SomeYears: date_days(InYear(x, k)) = date_days(InYear(z, k))
<1> DEFINE Y(k) == YearIn(x, k)
           Y2(k) == YearIn(z, k)
           m == MonthIn(x)
           m2 == MonthIn(z)
<1>1. /\ m \in 1..12 /\ m2 \in 1..12 /\ x.wdi.index >= 1 /\ z.wdi.index >= 1
      /\ \E k \in SomeYears: date_ok(InYear(x, k))
      /\ \E k \in SomeYears: date_ok(InYear(z, k))
  BY IndexedPartIsDate
<1>2. ALeapYear \in SomeYears /\ \A k \in SomeYears: k \in Int /\ Y(k) \in Int /\ Y2(k) \in Int
  BY TheYears, ShapeFields DEF Shapes
<1>3. x.wdi \in WeekdayIndexed /\ z.wdi \in WeekdayIndexed
  BY IndexedShapeInYear
<1>4. ASSUME equal(x, z), NEW k \in SomeYears
      PROVE  date_days(InYear(x, k)) = date_days(InYear(z, k))
  <2>1. Y(k) = Y2(k) /\ m = m2 /\ x.wdi.wd = z.wdi.wd /\ x.wdi.index = z.wdi.index
    BY <1>4, EqualIndexed
  <2>2. DayOfIndexed(Y(k), m, x.wdi) = DayOfIndexed(Y2(k), m2, z.wdi)
    BY <2>1 DEF DayOfIndexed
  <2>3. /\ date_days(InYear(x, k)) = Serial(Y(k), m, DayOfIndexed(Y(k), m, x.wdi))
        /\ date_days(InYear(z, k)) = Serial(Y2(k), m2, DayOfIndexed(Y2(k), m2, z.wdi))
    BY <1>1, IndexedInYear, Zenon
  <2> QED
    BY <2>1, <2>2, <2>3, Zenon
<1>5. ASSUME \A k \in SomeYears: date_days(InYear(x, k)) = date_days(InYear(z, k))
      PROVE  equal(x, z)
  <2>1. PICK k1 \in SomeYears: date_ok(InYear(x, k1))
    BY <1>1
  <2>2. PICK k2 \in SomeYears: date_ok(InYear(z, k2))
    BY <1>1
  <2>3. ~(Y(k1) < Y2(k1) \/ (Y(k1) = Y2(k1) /\ m < m2))
    BY <1>1, <1>5, <2>1, IndexedNotEarlier, Zenon
  <2>4. ~(Y2(k2) < Y(k2) \/ (Y2(k2) = Y(k2) /\ m2 < m))
    BY <1>1, <1>5, <2>2, IndexedNotEarlier, Zenon
  <2>5. Y(k1) = Y2(k1) /\ m = m2
    <3>1. \/ \A k: Y(k) = k /\ Y2(k) = k
          \/ \A k: Y(k) = x.y /\ Y2(k) = z.y
      BY YearsAlike
    <3>2. Y(k1) \in Int /\ Y2(k1) \in Int /\ Y(k2) \in Int /\ Y2(k2) \in Int /\ m \in Int /\ m2 \in Int
      BY <1>1, <1>2
    <3> HIDE DEF Y, Y2, m, m2
    <3> QED
      BY ONLY <2>3, <2>4, <3>1, <3>2
  <2> DEFINE d == DayOfIndexed(Y(k1), m, x.wdi)
             d2 == DayOfIndexed(Y(k1), m, z.wdi)
  <2>6. /\ date_days(InYear(x, k1)) = Serial(Y(k1), m, d) /\ d \in Int
        /\ date_days(InYear(z, k1)) = Serial(Y(k1), m, d2) /\ d2 \in Int
    <3>1. date_days(InYear(x, k1)) = Serial(Y(k1), m, d) /\ d \in Int
      BY <1>1, IndexedInYear, Zenon
    <3>2. /\ date_days(InYear(z, k1)) = Serial(Y2(k1), m2, DayOfIndexed(Y2(k1), m2, z.wdi))
          /\ DayOfIndexed(Y2(k1), m2, z.wdi) \in Int
      BY <1>1, IndexedInYear, Zenon
    <3> QED
      BY <2>5, <3>1, <3>2, Zenon
  <2>7. x.wdi.wd <= 6 /\ z.wdi.wd <= 6
    BY <2>1, <2>2, IndexedInYear DEF IsIndexedDate
  <2>8. Serial(Y(k1), m, d) = Serial(Y(k1), m, d2)
    BY <1>5, <2>6, Zenon
  <2>9. Y(k1) \in Int
    BY <1>2
  <2> HIDE DEF Y, m
  <2>10. d = d2
    <3> HIDE DEF d, d2
    <3>1. 1 \in Int
      OBVIOUS
    <3>2. Serial(Y(k1), m, 1) \in Int
      BY ONLY <1>1, <2>9, <3>1, SerialCounts
    <3>3. Serial(Y(k1), m, d) = Serial(Y(k1), m, 1) + d - 1
      BY ONLY <1>1, <2>6, <2>9, SerialCounts
    <3>4. Serial(Y(k1), m, d2) = Serial(Y(k1), m, 1) + d2 - 1
      BY ONLY <1>1, <2>6, <2>9, SerialCounts
    <3> DEFINE F == Serial(Y(k1), m, 1)
    <3>5. F \in Int /\ d \in Int /\ d2 \in Int
      BY <2>6, <3>2
    <3>6. F + d - 1 = F + d2 - 1
      BY <2>8, <3>3, <3>4, Zenon
    <3> HIDE DEF F
    <3> QED
      BY ONLY <3>5, <3>6, SMT
  <2>11. x.wdi.wd = z.wdi.wd /\ x.wdi.index = z.wdi.index
    BY <1>1, <1>3, <2>7, <2>9, <2>10, IndexedAlike
  <2> QED
    BY <2>5, <2>11, EqualIndexed, Zenon DEF Y, m
<1> QED
  BY <1>4, <1>5

LEMMA LastWeekdaysCompare ==
    ASSUME NEW x \in LastWeekdayShapes, NEW z \in LastWeekdayShapes, x.form = z.form, x.form # "weekday",
           part_ok(x), part_ok(z)
    PROVE  equal(x, z) <=> \A k \in SomeYears: date_days(InYear(x, k)) = date_days(InYear(z, k))
<1>1. ALeapYear \in SomeYears
  BY TheYears
<1>2. ASSUME NEW k \in SomeYears
      PROVE  equal(x, z) <=> date_days(InYear(x, k)) = date_days(InYear(z, k))
  <2> DEFINE y == YearIn(x, k)
             m == MonthIn(x)
             d == DayOfLast(y, m, x.wd)
             y2 == YearIn(z, k)
             m2 == MonthIn(z)
             d2 == DayOfLast(y2, m2, z.wd)
  <2>1. y \in Int /\ y2 \in Int
    BY TheYears, ShapeFields DEF Shapes
  <2>2. m \in 1..12 /\ m2 \in 1..12 /\ x.wd <= 6 /\ z.wd <= 6
    BY LastWeekdayPartOk
  <2>3. /\ InYear(x, k) = year_month_weekday_last(year_month(y, m), x.wd) /\ x.wd \in Weekday
        /\ InYear(z, k) = year_month_weekday_last(year_month(y2, m2), z.wd) /\ z.wd \in Weekday
    BY LastWeekdayShapeInYear
  <2>4. equal(x, z) <=> y = y2 /\ m = m2 /\ x.wd = z.wd
    BY EqualLastWeekdays
  <2> HIDE DEF y, m, y2, m2
  <2>5. date_days(InYear(x, k)) = Serial(y, m, d) /\ d \in 1..Length(y, m)
    BY <2>1, <2>2, <2>3, DateOfLastWeekday
  <2>6. date_days(InYear(z, k)) = Serial(y2, m2, d2) /\ d2 \in 1..Length(y2, m2)
    BY <2>1, <2>2, <2>3, DateOfLastWeekday
  <2>7. Serial(y, m, d) = Serial(y2, m2, d2) <=> y = y2 /\ m = m2 /\ d = d2
    <3> HIDE DEF d, d2
    <3>1. InSequence(y, m, d, y2, m2, d2)
      BY ONLY <2>1, <2>2, <2>5, <2>6, DaysFollow
    <3> QED
      BY <3>1 DEF InSequence
  <2>8. y = y2 /\ m = m2 => (d = d2 <=> x.wd = z.wd)
    BY <2>1, <2>2, <2>3, LastWeekdayAlike
  <2> HIDE DEF d, d2
  <2> QED
    BY ONLY <2>4, <2>5, <2>6, <2>7, <2>8, Zenon
<1> QED
  BY <1>1, <1>2, Zenon

(* The kinds of parts that have an order, and that have only an equality.  *)
LEMMA FormsOfShapes ==
    ASSUME NEW x \in Shapes
    PROVE  /\ x.form \in HaveOrder => x \in DayShapes \/ (x \in LastShapes /\ x.form # "last")
           /\ x.form \in HaveEquality => x \in IndexedShapes \/ (x \in LastWeekdayShapes /\ x.form # "weekday")
           /\ x \in DayShapes \/ x \in LastShapes \/ x \in IndexedShapes \/ x \in LastWeekdayShapes
BY DEF Shapes, DayShapes, LastShapes, IndexedShapes, LastWeekdayShapes, last, HaveOrder, HaveEquality

(* A part without a year is ok if it is a date of some year; two parts     *)
(* compare as their days in a leap year do, and those with a weekday are   *)
(* equal if they are the same days in every year.                          *)
THEOREM PartsMeanDaysCorrect == SpecParts => []PartsMeanDays
<1>1. ASSUME NEW x \in Parts
      PROVE  /\ part_ok(x) <=> \E y \in SomeYears: date_ok(InYear(x, y))
             /\ part_ok(x) => \A z \in {z \in Peers(x): part_ok(z)}:
                    /\ x.form \in HaveOrder =>
                           /\ before(x, z) <=> date_days(InYear(x, 2000)) < date_days(InYear(z, 2000))
                           /\ x = z <=> date_days(InYear(x, 2000)) = date_days(InYear(z, 2000))
                    /\ x.form \in HaveEquality =>
                           (equal(x, z) <=> \A y \in SomeYears:
                                                date_days(InYear(x, y)) = date_days(InYear(z, y)))
  <2>1. x \in Shapes
    BY PartShapes
  <2>2. part_ok(x) <=> \E y \in SomeYears: date_ok(InYear(x, y))
    BY <2>1, FormsOfShapes, DayPartIsDate, LastPartIsDate, IndexedPartIsDate, LastWeekdayPartIsDate, Zenon
  <2>3. ASSUME part_ok(x), NEW z \in {z \in Peers(x): part_ok(z)}, x.form \in HaveOrder
        PROVE  /\ before(x, z) <=> date_days(InYear(x, ALeapYear)) < date_days(InYear(z, ALeapYear))
               /\ x = z <=> date_days(InYear(x, ALeapYear)) = date_days(InYear(z, ALeapYear))
    <3>1. z \in Peers(x) /\ part_ok(z)
      BY <2>3
    <3>2. z.form = x.form /\ (x \in DayShapes => z \in DayShapes) /\ (x \in LastShapes => z \in LastShapes)
      BY <2>1, <3>1, PeerShapes, Zenon
    <3> QED
      BY <2>1, <2>3, <3>1, <3>2, FormsOfShapes, DaysCompare, LastDaysCompare, Zenon
  <2>4. ASSUME part_ok(x), NEW z \in {z \in Peers(x): part_ok(z)}, x.form \in HaveEquality
        PROVE  equal(x, z) <=> \A y \in SomeYears: date_days(InYear(x, y)) = date_days(InYear(z, y))
    <3>1. z \in Peers(x) /\ part_ok(z)
      BY <2>4
    <3>2. /\ z.form = x.form /\ (x \in IndexedShapes => z \in IndexedShapes)
          /\ x \in LastWeekdayShapes => z \in LastWeekdayShapes
      BY <2>1, <3>1, PeerShapes, Zenon
    <3> QED
      BY <2>1, <2>4, <3>1, <3>2, FormsOfShapes, IndexedCompare, LastWeekdaysCompare, Zenon
  <2> QED
    BY <2>2, <2>3, <2>4 DEF ALeapYear
<1>2. PartsInOrder => PartsMeanDays
  BY <1>1, SMT DEF PartsInOrder, PartsMeanDays
<1>3. PartsInOrder /\ [NextParts]_vars => PartsInOrder'
  BY PartsStayInOrder DEF vars
<1> QED
  BY FirstPart, <1>2, <1>3, PTL DEF SpecParts
=============================================================================
