------------------------ MODULE ByteEncDecoderProofs ------------------------
(***************************************************************************)
(* The loop of encDecBytes(): what one side encodes the other decodes, for *)
(* every key and every message of any length.                              *)
(***************************************************************************)
EXTENDS ByteEncDecoder, BytesProofs

LEMMA TypeInit == Init => TypeOK
  <1> SUFFICES ASSUME Init PROVE TypeOK
    OBVIOUS
  <1>1. message \in Seq(Byte) /\ key \in Byte
    BY CodecAssumption DEF Init
  <1>2. Len(message) \in Nat
    BY <1>1, LenProperties
  <1>3. result \in [1..Len(message) -> Byte]
    BY DEF Init, Byte
  <1>4. decoding \in BOOLEAN
    BY Zenon DEF Init
  <1> QED
    BY <1>1, <1>2, <1>3, <1>4 DEF Init, TypeOK

LEMMA TypeNext == ASSUME TypeOK, [Next]_vars PROVE TypeOK'
  <1> USE DEF TypeOK
  <1>1. CASE Loop
    <2>1. offset + 1 \in 1..Len(data) /\ data[offset + 1] \in Byte
      BY <1>1 DEF Loop
    <2>2. EncDec(data[offset + 1], nibbelCount, key) \in Byte
      BY <2>1, EncDecInverse
    <2> QED
      BY <1>1, <2>1, <2>2 DEF Loop
  <1>2. CASE Receive
    <2>1. result \in Seq(Byte) /\ Len(result) = Len(data)
      BY LenProperties, FunctionIsSequence
    <2> QED
      BY <1>2, <2>1 DEF Receive, Call, Byte
  <1>3. CASE Finished
    BY <1>3 DEF Finished, vars
  <1>4. CASE UNCHANGED vars
    BY <1>4 DEF vars
  <1> QED
    BY <1>1, <1>2, <1>3, <1>4 DEF Next

LEMMA ProgressInit == Init => Progress
  BY CodecAssumption DEF Init, Progress

LEMMA ProgressNext ==
  ASSUME TypeOK, Progress, [Next]_vars PROVE Progress'
  <1> USE DEF TypeOK, Progress
  <1>1. CASE Loop
    <2>1. offset + 1 \in 1..Len(data) /\ data[offset + 1] \in Byte /\ offset \in Nat
      BY <1>1 DEF Loop
    <2>2. \A i \in 1..(offset + 1) : i \in 1..offset \/ i = offset + 1
      BY <2>1
    <2>3. result'[offset + 1] = EncDec(data[offset + 1], 2 * ((offset + 1) - 1), key)
      BY <1>1, <2>1 DEF Loop
    <2>4. \A i \in 1..offset: result'[i] = result[i]
      BY <1>1, <2>1 DEF Loop
    <2>5. CASE ~decoding
      BY <1>1, <2>1, <2>2, <2>3, <2>4, <2>5 DEF Loop, Encoded
    <2>6. CASE decoding
      <3>1. message[offset + 1] \in Byte
        BY <2>1
      <3>2. result'[offset + 1] = message[offset + 1]
        BY <2>1, <2>3, <2>6, <3>1, EncDecInverse DEF Encoded
      <3> QED
        BY <1>1, <2>1, <2>2, <2>4, <2>6, <3>2 DEF Loop, Encoded
    <2> QED
      BY <2>5, <2>6
  <1>2. CASE Receive
    BY <1>2 DEF Receive, Call, Returned, Encoded
  <1>3. CASE Finished
    BY <1>3 DEF Finished, vars, Encoded
  <1>4. CASE UNCHANGED vars
    BY <1>4 DEF vars, Encoded
  <1> QED
    BY <1>1, <1>2, <1>3, <1>4 DEF Next

(* Every variable keeps its type.                                          *)
THEOREM CodecTypeCorrect == Spec => []TypeOK
  BY TypeInit, TypeNext, PTL DEF Spec

(* encDecBytes() is its own inverse: the receiver gets the message back.   *)
THEOREM RoundTripCorrect == Spec => []RoundTrip
  <1>1. TypeOK /\ Progress => RoundTrip
    <2> SUFFICES ASSUME TypeOK, Progress, decoding, Returned PROVE result = message
      BY DEF RoundTrip
    <2>1. result \in [1..Len(message) -> Byte]
      BY DEF TypeOK, Progress
    <2>2. message \in [1..Len(message) -> Byte]
      BY DEF TypeOK
    <2>3. \A i \in 1..Len(message): result[i] = message[i]
      BY DEF TypeOK, Progress, Returned
    <2> QED
      BY <2>1, <2>2, <2>3
  <1> QED
    BY <1>1, TypeInit, TypeNext, ProgressInit, ProgressNext, PTL DEF Spec

(* No byte of a message is sent in clear.                                  *)
THEOREM NothingInClearCorrect == Spec => []NothingInClear
  <1>1. TypeOK /\ Progress => NothingInClear
    <2> SUFFICES ASSUME TypeOK, Progress, ~decoding, NEW i \in 1..offset
                 PROVE  result[i] # message[i]
      BY DEF NothingInClear
    <2>1. i \in 1..Len(message) /\ 2 * (i - 1) \in Nat
      BY DEF TypeOK, Progress
    <2>2. message[i] \in Byte /\ result[i] = EncDec(message[i], 2 * (i - 1), key)
      BY <2>1 DEF TypeOK, Progress, Encoded
    <2> QED
      BY <2>1, <2>2, EncDecInverse DEF TypeOK
  <1> QED
    BY <1>1, TypeInit, TypeNext, ProgressInit, ProgressNext, PTL DEF Spec

(* Why: the loop has encoded, or decoded, everything up to offset.         *)
THEOREM ProgressCorrect == Spec => []Progress
  BY TypeInit, TypeNext, ProgressInit, ProgressNext, PTL DEF Spec

(* What the loop returns is the function that the other modules use.       *)
THEOREM LoopComputesEncDecBytes ==
  Spec => [](~decoding /\ Returned => result = encDecBytes(message, key))
  <1>1. TypeOK /\ Progress => (~decoding /\ Returned => result = encDecBytes(message, key))
    <2> SUFFICES ASSUME TypeOK, Progress, ~decoding, Returned
                 PROVE  result = encDecBytes(message, key)
      OBVIOUS
    <2>1. result \in [1..Len(message) -> Byte]
      BY DEF TypeOK, Progress
    <2>2. \A i \in 1..Len(message): result[i] = EncDec(message[i], 2 * (i - 1), key)
      BY DEF TypeOK, Progress, Returned, Encoded
    <2> QED
      BY <2>1, <2>2 DEF encDecBytes
  <1> QED
    BY <1>1, TypeInit, TypeNext, ProgressInit, ProgressNext, PTL DEF Spec

(* Both together are inductive, for every message and key.                 *)
THEOREM InductiveCorrect == Spec => []Inductive
  BY CodecTypeCorrect, ProgressCorrect, PTL DEF Inductive

(* The entries of the two tables.                                          *)
LEMMA Entries ==
    /\ numbers1[0] = 14 /\ numbers1[1] = 4 /\ numbers1[2] = 3 /\ numbers1[3] = 2
    /\ numbers1[4] = 1 /\ numbers1[5] = 13 /\ numbers1[6] = 8 /\ numbers1[7] = 11
    /\ numbers1[8] = 6 /\ numbers1[9] = 15 /\ numbers1[10] = 12 /\ numbers1[11] = 7
    /\ numbers1[12] = 10 /\ numbers1[13] = 5 /\ numbers1[14] = 0 /\ numbers1[15] = 9
    /\ numbers2[0] = 10 /\ numbers2[1] = 6 /\ numbers2[2] = 13 /\ numbers2[3] = 12
    /\ numbers2[4] = 14 /\ numbers2[5] = 11 /\ numbers2[6] = 1 /\ numbers2[7] = 9
    /\ numbers2[8] = 15 /\ numbers2[9] = 7 /\ numbers2[10] = 0 /\ numbers2[11] = 5
    /\ numbers2[12] = 3 /\ numbers2[13] = 2 /\ numbers2[14] = 4 /\ numbers2[15] = 8
  BY SMT DEF numbers1, numbers2, Nibble

(* A result of which every byte is known.                                  *)
LEMMA ByteByByte ==
  ASSUME NEW s, NEW t, NEW n \in Nat, DOMAIN t = 1..n, t = [i \in 1..n |-> t[i]],
         s \in [1..n -> Byte], \A i \in 1..n: s[i] = t[i]
  PROVE  s = t
  OBVIOUS

(* The documented messages are sent as the documents say.                  *)
THEOREM KnownAnswersCorrect == Spec => []KnownAnswers
  <1>1. TypeOK /\ Progress => KnownAnswers
    <2> SUFFICES ASSUME TypeOK, Progress, NEW v \in Known,
                        key = 42, message = v.clear, ~decoding, Returned
                 PROVE  result = v.sent
      BY DEF KnownAnswers
    <2>1. /\ result \in [1..Len(message) -> Byte]
          /\ \A i \in 1..Len(message): result[i] = EncDec(message[i], 2 * (i - 1), 42)
      BY DEF TypeOK, Progress, Returned, Encoded
    <2>2. CASE v = [clear |-> <<24>>, sent |-> <<66>>]
      <3> DEFINE c == <<24>>
                 s == <<66>>
      <3>1. message = c /\ v.sent = s
        BY <2>2
      <3>2. Len(c) = 1
        OBVIOUS
      <3>3. /\ c[1] = 24 /\ s[1] = EncDec(24, 0, 42)
        BY Entries, SMT DEF EncDec, shuffle, mod256
      <3>4. DOMAIN s = 1..1 /\ s = [i \in 1..1 |-> s[i]]
        OBVIOUS
      <3> HIDE DEF c, s
      <3>5. result \in [1..1 -> Byte] /\ \A i \in 1..1: result[i] = EncDec(c[i], 2 * (i - 1), 42)
        BY <2>1, <3>1, <3>2
      <3>6. ASSUME NEW i \in 1..1 PROVE result[i] = s[i]
        <4>1. i = 1
          OBVIOUS
        <4> QED
          BY <3>3, <3>5, <4>1
      <3> QED
        BY <3>1, <3>4, <3>5, <3>6, ByteByByte
    <2>3. CASE v = [clear |-> <<42, 127, 128>>, sent |-> <<119, 101, 109>>]
      <3> DEFINE c == <<42, 127, 128>>
                 s == <<119, 101, 109>>
      <3>1. message = c /\ v.sent = s
        BY <2>3
      <3>2. Len(c) = 3
        OBVIOUS
      <3>3. /\ c[1] = 42 /\ s[1] = EncDec(42, 0, 42)
            /\ c[2] = 127 /\ s[2] = EncDec(127, 2, 42)
            /\ c[3] = 128 /\ s[3] = EncDec(128, 4, 42)
        BY Entries, SMT DEF EncDec, shuffle, mod256
      <3>4. DOMAIN s = 1..3 /\ s = [i \in 1..3 |-> s[i]]
        OBVIOUS
      <3> HIDE DEF c, s
      <3>5. result \in [1..3 -> Byte] /\ \A i \in 1..3: result[i] = EncDec(c[i], 2 * (i - 1), 42)
        BY <2>1, <3>1, <3>2
      <3>6. ASSUME NEW i \in 1..3 PROVE result[i] = s[i]
        <4>1. i = 1 \/ i = 2 \/ i = 3
          OBVIOUS
        <4> QED
          BY <3>3, <3>5, <4>1
      <3> QED
        BY <3>1, <3>4, <3>5, <3>6, ByteByByte
    <2>4. CASE v = [clear |-> <<42, 1>>, sent |-> <<119, 224>>]
      <3> DEFINE c == <<42, 1>>
                 s == <<119, 224>>
      <3>1. message = c /\ v.sent = s
        BY <2>4
      <3>2. Len(c) = 2
        OBVIOUS
      <3>3. /\ c[1] = 42 /\ s[1] = EncDec(42, 0, 42)
            /\ c[2] = 1 /\ s[2] = EncDec(1, 2, 42)
        BY Entries, SMT DEF EncDec, shuffle, mod256
      <3>4. DOMAIN s = 1..2 /\ s = [i \in 1..2 |-> s[i]]
        OBVIOUS
      <3> HIDE DEF c, s
      <3>5. result \in [1..2 -> Byte] /\ \A i \in 1..2: result[i] = EncDec(c[i], 2 * (i - 1), 42)
        BY <2>1, <3>1, <3>2
      <3>6. ASSUME NEW i \in 1..2 PROVE result[i] = s[i]
        <4>1. i = 1 \/ i = 2
          OBVIOUS
        <4> QED
          BY <3>3, <3>5, <4>1
      <3> QED
        BY <3>1, <3>4, <3>5, <3>6, ByteByByte
    <2>5. CASE v = [clear |-> <<42, 0>>, sent |-> <<119, 225>>]
      <3> DEFINE c == <<42, 0>>
                 s == <<119, 225>>
      <3>1. message = c /\ v.sent = s
        BY <2>5
      <3>2. Len(c) = 2
        OBVIOUS
      <3>3. /\ c[1] = 42 /\ s[1] = EncDec(42, 0, 42)
            /\ c[2] = 0 /\ s[2] = EncDec(0, 2, 42)
        BY Entries, SMT DEF EncDec, shuffle, mod256
      <3>4. DOMAIN s = 1..2 /\ s = [i \in 1..2 |-> s[i]]
        OBVIOUS
      <3> HIDE DEF c, s
      <3>5. result \in [1..2 -> Byte] /\ \A i \in 1..2: result[i] = EncDec(c[i], 2 * (i - 1), 42)
        BY <2>1, <3>1, <3>2
      <3>6. ASSUME NEW i \in 1..2 PROVE result[i] = s[i]
        <4>1. i = 1 \/ i = 2
          OBVIOUS
        <4> QED
          BY <3>3, <3>5, <4>1
      <3> QED
        BY <3>1, <3>4, <3>5, <3>6, ByteByByte
    <2>6. CASE v = [clear |-> <<42, 3, 0, 4, 20, 0, 0, 1, 0, 1, 0, 0, 0, 0, 0, 42>>,
                   sent |-> <<119, 233, 61, 213, 83, 129, 211, 219, 163, 43, 250, 152, 164, 163, 250, 249>>]
      <3> DEFINE c == <<42, 3, 0, 4, 20, 0, 0, 1, 0, 1, 0, 0, 0, 0, 0, 42>>
                 s == <<119, 233, 61, 213, 83, 129, 211, 219, 163, 43, 250, 152, 164, 163, 250, 249>>
      <3>1. message = c /\ v.sent = s
        BY <2>6
      <3>2. Len(c) = 16
        OBVIOUS
      <3>3. /\ c[1] = 42 /\ s[1] = EncDec(42, 0, 42)
            /\ c[2] = 3 /\ s[2] = EncDec(3, 2, 42)
            /\ c[3] = 0 /\ s[3] = EncDec(0, 4, 42)
            /\ c[4] = 4 /\ s[4] = EncDec(4, 6, 42)
            /\ c[5] = 20 /\ s[5] = EncDec(20, 8, 42)
            /\ c[6] = 0 /\ s[6] = EncDec(0, 10, 42)
            /\ c[7] = 0 /\ s[7] = EncDec(0, 12, 42)
            /\ c[8] = 1 /\ s[8] = EncDec(1, 14, 42)
            /\ c[9] = 0 /\ s[9] = EncDec(0, 16, 42)
            /\ c[10] = 1 /\ s[10] = EncDec(1, 18, 42)
            /\ c[11] = 0 /\ s[11] = EncDec(0, 20, 42)
            /\ c[12] = 0 /\ s[12] = EncDec(0, 22, 42)
            /\ c[13] = 0 /\ s[13] = EncDec(0, 24, 42)
            /\ c[14] = 0 /\ s[14] = EncDec(0, 26, 42)
            /\ c[15] = 0 /\ s[15] = EncDec(0, 28, 42)
            /\ c[16] = 42 /\ s[16] = EncDec(42, 30, 42)
        BY Entries, SMT DEF EncDec, shuffle, mod256
      <3>4. DOMAIN s = 1..16 /\ s = [i \in 1..16 |-> s[i]]
        OBVIOUS
      <3> HIDE DEF c, s
      <3>5. result \in [1..16 -> Byte] /\ \A i \in 1..16: result[i] = EncDec(c[i], 2 * (i - 1), 42)
        BY <2>1, <3>1, <3>2
      <3>6. ASSUME NEW i \in 1..16 PROVE result[i] = s[i]
        <4>1. i = 1 \/ i = 2 \/ i = 3 \/ i = 4 \/ i = 5 \/ i = 6 \/ i = 7 \/ i = 8
               \/ i = 9 \/ i = 10 \/ i = 11 \/ i = 12 \/ i = 13 \/ i = 14 \/ i = 15 \/ i = 16
          OBVIOUS
        <4> QED
          BY <3>3, <3>5, <4>1
      <3> QED
        BY <3>1, <3>4, <3>5, <3>6, ByteByByte
    <2> QED
      BY <2>2, <2>3, <2>4, <2>5, <2>6 DEF Known
  <1> QED
    BY <1>1, TypeInit, TypeNext, ProgressInit, ProgressNext, PTL DEF Spec
=============================================================================
