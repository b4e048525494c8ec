------------------------------- MODULE Answers -------------------------------
(***************************************************************************)
(* What the library makes of the bytes it reads: the parsers of            *)
(* CoffeeMaker (src/jutta_bt_proto/CoffeeMaker.cpp).  The result is        *)
(* undefined where they read behind the data: parse_machine_status() of an *)
(* empty answer, whose size() - 1 wraps, parse_man_data() of less than 16  *)
(* bytes and parse_about_data() of less than 51.                           *)
(***************************************************************************)
EXTENDS Bytes, Sequences

-----------------------------------------------------------------------------
(* parse_machine_status(), on decoded data.  Bit i of the status is bit     *)
(* 7 - i % 8, from the high end of the byte, of byte i / 8 + 1.            *)
FromHighEnd == <<128, 64, 32, 16, 8, 4, 2, 1>>

\* Mutant: bits are counted from the low end of a byte.
StatusBitLow(data, i) == (data[(i \div 8) + 2] \div FromHighEnd[8 - (i % 8)]) % 2 = 1

StatusBit(data, i) == (data[(i \div 8) + 2] \div FromHighEnd[(i % 8) + 1]) % 2 = 1

(* The alerts of the machine file whose bit is set; an alert is [bit, name].*)
NewAlerts(data, machineAlerts) ==
    {a \in machineAlerts: a.bit < 8 * (Len(data) - 1) /\ StatusBit(data, a.bit)}

-----------------------------------------------------------------------------
(* The number that n bytes from an offset make, the high byte first.       *)
BigEndianValue(data, offset, n) ==
    LET result[i \in 0..n] == IF i = 0 THEN 0 ELSE 256 * result[i - 1] + data[offset + i]
    IN  result[n]

(* The value at an offset, zero behind the end of the data.                *)
get_stat_val(data, offset, bytesPerVal) ==
    IF Len(data) < offset * bytesPerVal + bytesPerVal THEN 0
    ELSE BigEndianValue(data, offset * bytesPerVal, bytesPerVal)

(* Values for the n texts the machine file lists, a byte or two each.      *)
MaintenancePercentages(data, n) == [i \in 1..n |-> get_stat_val(data, i - 1, 1) % 256]

MaintenanceCounters(data, n) == [i \in 1..n |-> get_stat_val(data, i - 1, 2) % 65536]

\* Mutant: a counter that was never set is stored as it is.
ProductCounterRaw(data, code) == get_stat_val(data, code, 3)

(* The counter of the product with a code: 0xFFFF stands for none.         *)
ProductCounter(data, code) ==
    LET result == get_stat_val(data, code, 3) IN IF result = 65535 THEN 0 ELSE result

StatTotalCount(data) == get_stat_val(data, 0, 3)

(* code_to_size_t() of a code's bytes.                                     *)
code_to_size_t(bytes) == BigEndianValue(bytes, 0, Len(bytes))

-----------------------------------------------------------------------------
\* Offsets are the code's, from 0.
to_uint16_t_little_endian(data, offset) == 256 * data[offset + 2] + data[offset + 1]

\* Mutant: the month takes five bits.
to_ymd_wide_month(data, offset) ==
    LET date == to_uint16_t_little_endian(data, offset)
    IN  [y |-> (date \div 512) + 1990, m |-> (date \div 32) % 32, d |-> date % 32]

(* Seven bits of year, four of month, five of day.                         *)
to_ymd(data, offset) ==
    LET date == to_uint16_t_little_endian(data, offset)
    IN  [y |-> (date \div 512) + 1990, m |-> (date \div 32) % 16, d |-> date % 32]

ManufacturerData(data) ==
    [key |-> data[1], bfMajVer |-> data[2], bfMinVer |-> data[3],
     articleNumber |-> to_uint16_t_little_endian(data, 4),
     machineNumber |-> to_uint16_t_little_endian(data, 6),
     serialNumber |-> to_uint16_t_little_endian(data, 8),
     machineProdDate |-> to_ymd(data, 10), machineProdDateUCHI |-> to_ymd(data, 12),
     unusedSecond |-> data[15], statusBits |-> data[16]]

(* The characters from one offset to another, the null bytes left out.     *)
parse_version(data, from, to) ==
    LET result[i \in from..(to + 1)] ==   \* what is in front of offset i
            IF i = from THEN <<>>
            ELSE IF data[i] = 0 THEN result[i - 1] ELSE Append(result[i - 1], data[i])
    IN  result[to + 1]

AboutData(data) ==
    [blueFrogVersion |-> parse_version(data, 27, 34),
     coffeeMachineVersion |-> parse_version(data, 35, 50)]
=============================================================================
