------------------------------- MODULE TimeOfDay -------------------------------
(***************************************************************************)
(* The time of a day in date.hpp (src/include/date/date.hpp).  A duration  *)
(* is a count of its unit, of which a second has some power of ten; hours, *)
(* minutes and seconds are integers.                                       *)
(***************************************************************************)
EXTENDS Calendar

Units == {1, 1000, 1000000, 1000000000}  \* seconds to nanoseconds

abs(d) == IF d >= 0 THEN d ELSE -d

(* class decimal_format_seconds.                                           *)
decimal_format_seconds(d, unit) ==
    [s |-> Quot(d, unit), sub_s |-> d - Quot(d, unit) * unit]
seconds_to_duration(x, unit) == x.s * unit + x.sub_s
seconds_in_conventional_range(x, unit) == x.sub_s < unit /\ x.s < 60

(* class hh_mm_ss.                                                         *)
hh_mm_ss(d, unit) ==
    LET h == Quot(abs(d), 3600 * unit)
        m == Quot(abs(d), 60 * unit) - 60 * h
    IN  [h |-> h, m |-> m,
         s |-> decimal_format_seconds(abs(d) - h * (3600 * unit) - m * (60 * unit), unit),
         neg |-> d < 0]

to_duration(x, unit) ==
    (seconds_to_duration(x.s, unit) + x.m * (60 * unit) + x.h * (3600 * unit))
        * (1 - 2 * (IF x.neg THEN 1 ELSE 0))

in_conventional_range(x, unit) ==
    ~x.neg /\ x.h < 24 /\ x.m < 60 /\ seconds_in_conventional_range(x.s, unit)

(* The clock of twelve hours.                                              *)
is_am(h) == 0 <= h /\ h < 12
is_pm(h) == 12 <= h /\ h < 24
make12(h) == IF h < 12 THEN (IF h = 0 THEN 12 ELSE h) ELSE IF h # 12 THEN h - 12 ELSE h
make24(h, pm) == IF pm THEN (IF h # 12 THEN h + 12 ELSE h) ELSE IF h = 12 THEN 0 ELSE h
=============================================================================
