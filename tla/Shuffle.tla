------------------------------- MODULE Shuffle -------------------------------
(***************************************************************************)
(* The arithmetic of encDecBytes() (src/bt/ByteEncDecoder.cpp): how one    *)
(* byte is encoded or decoded, given the key and its position.             *)
(***************************************************************************)
EXTENDS Bytes, Sequences

numbers1 == [i \in Nibble |-> <<14, 4, 3, 2, 1, 13, 8, 11, 6, 15, 12, 7, 10, 5, 0, 9>>[i + 1]]

\* Mutant: two entries of numbers2 are swapped.
numbers2Swapped ==
    [i \in Nibble |-> <<0, 6, 13, 12, 14, 11, 1, 9, 15, 7, 10, 5, 3, 2, 4, 8>>[i + 1]]

numbers2 == [i \in Nibble |-> <<10, 6, 13, 12, 14, 11, 1, 9, 15, 7, 0, 5, 3, 2, 4, 8>>[i + 1]]

(* mod256() subtracts or adds 256 until the value is a byte: TLA+'s % has  *)
(* the sign of the divisor.                                                *)
mod256(i) == i % 256

\* Mutant: the last step does not take the position back out.
shuffleKeyOnly(dataNibble, nibbleCount, left, right) ==
    LET i5   == mod256(nibbleCount \div 16)
        tmp1 == numbers1[mod256(dataNibble + nibbleCount + left) % 16]
        tmp2 == numbers2[mod256(tmp1 + right + i5 - nibbleCount - left) % 16]
        tmp3 == numbers1[mod256(tmp2 + left + nibbleCount - right - i5) % 16]
    IN  mod256(tmp3 - left) % 16

shuffle(dataNibble, nibbleCount, left, right) ==
    LET i5   == mod256(nibbleCount \div 16)
        tmp1 == numbers1[mod256(dataNibble + nibbleCount + left) % 16]
        tmp2 == numbers2[mod256(tmp1 + right + i5 - nibbleCount - left) % 16]
        tmp3 == numbers1[mod256(tmp2 + left + nibbleCount - right - i5) % 16]
    IN  mod256(tmp3 - nibbleCount - left) % 16

(* The byte that the loop stores for d when nibbelCount is count.          *)
EncDec(d, count, key) ==
    16 * shuffle(d \div 16, count, key \div 16, key % 16)
       + shuffle(d % 16, count + 1, key \div 16, key % 16)

(* The whole of encDecBytes(): each byte at its position, two nibbles to a *)
(* byte.  ByteEncDecoder runs the loop and has the same result (Progress). *)
encDecBytes(data, key) ==
    [i \in 1..Len(data) |-> EncDec(data[i], 2 * (i - 1), key)]
=============================================================================
