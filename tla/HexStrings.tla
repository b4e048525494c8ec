------------------------------ MODULE HexStrings ------------------------------
(***************************************************************************)
(* to_hex_string() and from_hex_string() (src/jutta_bt_proto/Utils.cpp).   *)
(* A character is its code.                                                *)
(***************************************************************************)
EXTENDS Bytes, Sequences

HEX_CHARS == <<48, 49, 50, 51, 52, 53, 54, 55, 56, 57, 65, 66, 67, 68, 69, 70>>

to_hex_string(data) ==
    [i \in 1..(2 * Len(data)) |->
        LET d == data[(i + 1) \div 2]
        IN  HEX_CHARS[1 + (IF i % 2 = 1 THEN d \div 16 ELSE d % 16)]]

IsHexChar(c) == c \in (48..57) \cup (65..70) \cup (97..102)

(* The value of a hexadecimal digit, whose case does not matter.           *)
get_hex_char_val(c) ==
    IF c \in 48..57 THEN c - 48 ELSE IF c \in 65..70 THEN c - 55 ELSE c - 87

(* assert(false) in get_hex_char_val(): a character that is no digit, or   *)
(* the terminating null behind a string of odd length.                     *)
HexAsserts(hex) == Len(hex) % 2 = 1 \/ \E i \in 1..Len(hex): ~IsHexChar(hex[i])

from_hex_string(hex) ==
    [i \in 1..(Len(hex) \div 2) |->
        16 * get_hex_char_val(hex[2 * i - 1]) + get_hex_char_val(hex[2 * i])]
=============================================================================
