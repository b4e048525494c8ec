---------------------------- MODULE ByteEncDecoder ----------------------------
(***************************************************************************)
(* encDecBytes() (src/bt/ByteEncDecoder.cpp), the obfuscation of every     *)
(* message between the library and the coffee maker.  One side encodes a   *)
(* message, the other decodes it with the same function and the same key.  *)
(***************************************************************************)
EXTENDS Shuffle

CONSTANTS
    Keys,     \* the keys a coffee maker may advertise
    Messages  \* the messages that are encoded

ASSUME CodecAssumption == Keys \subseteq Byte /\ Messages \subseteq Seq(Byte)

-----------------------------------------------------------------------------
VARIABLES
    message,      \* the message the sender encodes
    key,          \* the key both sides use
    decoding,     \* the receiver is at work, on what the sender sent
    data,         \* argument of encDecBytes()
    result,       \* its result
    offset,       \* its loop counter
    nibbelCount   \* the nibbles it has consumed

vars == <<message, key, decoding, data, result, offset, nibbelCount>>

Call(d) ==
    /\ data' = d
    /\ result' = [i \in 1..Len(d) |-> 0]
    /\ offset' = 0
    /\ nibbelCount' = 0

Init ==
    /\ message \in Messages
    /\ key \in Keys
    /\ decoding = FALSE
    /\ data = message
    /\ result = [i \in 1..Len(message) |-> 0]
    /\ offset = 0
    /\ nibbelCount = 0

Returned == offset = Len(data)

\* Mutant: both nibbles of a byte count as one.
LoopCountsBytes ==
    /\ offset < Len(data)
    /\ result' = [result EXCEPT ![offset + 1] = EncDec(data[offset + 1], nibbelCount, key)]
    /\ offset' = offset + 1
    /\ nibbelCount' = nibbelCount + 1
    /\ UNCHANGED <<message, key, decoding, data>>

(* One turn of the loop.                                                   *)
Loop ==
    /\ offset < Len(data)
    /\ result' = [result EXCEPT ![offset + 1] = EncDec(data[offset + 1], nibbelCount, key)]
    /\ offset' = offset + 1
    /\ nibbelCount' = nibbelCount + 2
    /\ UNCHANGED <<message, key, decoding, data>>

(* The encoded message arrives and is decoded.                             *)
Receive ==
    /\ ~decoding /\ Returned
    /\ decoding' = TRUE
    /\ Call(result)
    /\ UNCHANGED <<message, key>>

Finished == decoding /\ Returned /\ UNCHANGED vars

Next == Loop \/ Receive \/ Finished

Spec == Init /\ [][Next]_vars

-----------------------------------------------------------------------------
(* Every variable has its type.                                            *)
TypeOK ==
    /\ message \in Seq(Byte)
    /\ key \in Byte
    /\ decoding \in BOOLEAN
    /\ data \in Seq(Byte)
    /\ result \in [1..Len(data) -> Byte]
    /\ offset \in 0..Len(data)
    /\ nibbelCount \in Nat

(* The receiver gets the message back: encDecBytes() is its own inverse,   *)
(* for every key, byte and position.                                       *)
RoundTrip == decoding /\ Returned => result = message

(* No byte of a message is sent in clear: numbers2 has no fixed point and  *)
(* the rest of shuffle() only renames nibbles before and after it.         *)
NothingInClear ==
    ~decoding => \A i \in 1..offset: result[i] # message[i]

(* What the documented vectors say of key 42: the sent bytes for a message.*)
Known == {
    [clear |-> <<24>>, sent |-> <<66>>],
    [clear |-> <<42, 127, 128>>, sent |-> <<119, 101, 109>>],
    [clear |-> <<42, 1>>, sent |-> <<119, 224>>],
    [clear |-> <<42, 0>>, sent |-> <<119, 225>>],
    [clear |-> <<42, 3, 0, 4, 20, 0, 0, 1, 0, 1, 0, 0, 0, 0, 0, 42>>,
     sent |-> <<119, 233, 61, 213, 83, 129, 211, 219,
                163, 43, 250, 152, 164, 163, 250, 249>>]}

(* The tests, the README and the comments of the code give the same bytes  *)
(* for the same message: Tests.cpp:18-24, README.md:104-105, 176 and 185,  *)
(* CoffeeMaker.cpp:349 (a command to brew coffee).                         *)
KnownAnswers ==
    \A v \in Known:
        key = 42 /\ message = v.clear /\ ~decoding /\ Returned => result = v.sent

(* Why: the loop has encoded, or decoded, everything up to offset, each    *)
(* byte at the position nibbelCount gave it on the sender's side.          *)
Encoded(i) == EncDec(message[i], 2 * (i - 1), key)

Progress ==
    /\ nibbelCount = 2 * offset
    /\ Len(data) = Len(message)
    /\ ~decoding => data = message /\ \A i \in 1..offset: result[i] = Encoded(i)
    /\ decoding => /\ \A i \in 1..Len(data): data[i] = Encoded(i)
                   /\ \A i \in 1..offset: result[i] = message[i]

Inductive == TypeOK /\ Progress
=============================================================================
