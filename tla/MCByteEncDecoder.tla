--------------------------- MODULE MCByteEncDecoder ---------------------------
(***************************************************************************)
(* ByteEncDecoder on the messages the repository documents, the empty      *)
(* message, every message of one byte and one so long that the number of   *)
(* nibbles before a byte exceeds 16, which shuffle() then adds (i5).       *)
(***************************************************************************)
EXTENDS ByteEncDecoder

MCKeys == {0, 1, 15, 16, 42, 170, 240, 255}

MCMessages == {<<>>, [i \in 1..20 |-> (i * 37) % 256]}
                \cup {<<b>> : b \in Byte}
                \cup {v.clear : v \in Known}
=============================================================================
