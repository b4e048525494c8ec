-------------------------------- MODULE Bytes --------------------------------
(***************************************************************************)
(* uint8_t, and the halves that hexadecimal strings and the codec work on. *)
(***************************************************************************)
EXTENDS Integers

Byte == 0..255
Nibble == 0..15
=============================================================================
