-------------------------- MODULE ConversationProofs --------------------------
(***************************************************************************)
(* Proofs about the messages of a connection, for any coffee makers, any   *)
(* machine files whose products are commands, and any bytes of a client.   *)
(***************************************************************************)
EXTENDS Conversation, BytesProofs

-----------------------------------------------------------------------------
(* The advertisement: parse_man_data() undoes it.                          *)

LEMMA LittleEndianRead ==
  \A n \in UInt16: 256 * (n \div 256) + (n % 256) = n
  BY SMT DEF UInt16

LEMMA DateUnpacked ==
  ASSUME NEW date \in ProductionDate
  PROVE  LET p == PackedDate(date)
         IN  /\ p \in UInt16
             /\ [y |-> (p \div 512) + 1990, m |-> (p \div 32) % 16, d |-> p % 32] = date
  <1> DEFINE y == date.y - 1990
             m == date.m
             d == date.d
             p == PackedDate(date)
  <1>1. /\ y \in Int /\ 0 <= y /\ y <= 127 /\ m \in Int /\ 0 <= m /\ m <= 15
        /\ d \in Int /\ 0 <= d /\ d <= 31
    BY SMT DEF ProductionDate
  <1>2. p = y * 512 + m * 32 + d
    BY SMT DEF PackedDate
  <1>3. date = [y |-> y + 1990, m |-> m, d |-> d]
    BY SMT DEF ProductionDate
  <1> HIDE DEF y, m, d, p
  <1>4. p \in Int /\ 0 <= p /\ p <= 65535
    BY <1>1, <1>2, SMT
  <1>5. p \in UInt16
    BY <1>4, SMT DEF UInt16
  <1>6. p \div 512 = y /\ p % 32 = d /\ p \div 32 = 16 * y + m
    BY <1>1, <1>2, SMT
  <1>7. (16 * y + m) % 16 = m
    BY <1>1, SMT
  <1>8. [y |-> (p \div 512) + 1990, m |-> (p \div 32) % 16, d |-> p % 32] = date
    <2>1. (p \div 32) % 16 = m
      BY <1>6, <1>7
    <2> QED
      BY <1>3, <1>6, <2>1
  <1> QED
    BY <1>5, <1>8 DEF p

(* Every byte of an advertisement is where parse_man_data() looks for it.  *)
LEMMA AdvertisementRead ==
  ASSUME NEW id \in Identity PROVE ManufacturerData(Advertisement(id)) = id
  <1> DEFINE a == Advertisement(id)
             p == PackedDate(id.machineProdDate)
             q == PackedDate(id.machineProdDateUCHI)
  <1>1. /\ id.articleNumber \in UInt16 /\ id.machineNumber \in UInt16
        /\ id.serialNumber \in UInt16 /\ id.machineProdDate \in ProductionDate
        /\ id.machineProdDateUCHI \in ProductionDate
    BY DEF Identity
  <1>2. /\ p \in UInt16 /\ q \in UInt16
        /\ [y |-> (p \div 512) + 1990, m |-> (p \div 32) % 16, d |-> p % 32] = id.machineProdDate
        /\ [y |-> (q \div 512) + 1990, m |-> (q \div 32) % 16, d |-> q % 32] = id.machineProdDateUCHI
    BY <1>1, DateUnpacked
  <1> HIDE DEF p, q
  <1>3. /\ 256 * a[6] + a[5] = id.articleNumber
        /\ 256 * a[8] + a[7] = id.machineNumber
        /\ 256 * a[10] + a[9] = id.serialNumber
        /\ 256 * a[12] + a[11] = p
        /\ 256 * a[14] + a[13] = q
    <2>1. /\ a[5] = id.articleNumber % 256 /\ a[6] = id.articleNumber \div 256
          /\ a[7] = id.machineNumber % 256 /\ a[8] = id.machineNumber \div 256
          /\ a[9] = id.serialNumber % 256 /\ a[10] = id.serialNumber \div 256
          /\ a[11] = p % 256 /\ a[12] = p \div 256 /\ a[13] = q % 256 /\ a[14] = q \div 256
      BY SMT DEF p, q, Advertisement, LittleEndian
    <2> HIDE DEF a
    <2>2. /\ 256 * (id.articleNumber \div 256) + (id.articleNumber % 256) = id.articleNumber
          /\ 256 * (id.machineNumber \div 256) + (id.machineNumber % 256) = id.machineNumber
          /\ 256 * (id.serialNumber \div 256) + (id.serialNumber % 256) = id.serialNumber
          /\ 256 * (p \div 256) + (p % 256) = p /\ 256 * (q \div 256) + (q % 256) = q
      BY <1>1, <1>2, LittleEndianRead
    <2> QED
      BY ONLY <2>1, <2>2
  <1>4. /\ a[1] = id.key /\ a[2] = id.bfMajVer /\ a[3] = id.bfMinVer
        /\ a[15] = id.unusedSecond /\ a[16] = id.statusBits
    BY SMT DEF Advertisement, LittleEndian
  <1> HIDE DEF a
  <1>5. /\ to_uint16_t_little_endian(a, 4) = id.articleNumber
        /\ to_uint16_t_little_endian(a, 6) = id.machineNumber
        /\ to_uint16_t_little_endian(a, 8) = id.serialNumber
        /\ to_uint16_t_little_endian(a, 10) = p
        /\ to_uint16_t_little_endian(a, 12) = q
    BY <1>3 DEF to_uint16_t_little_endian
  <1>6. to_ymd(a, 10) = id.machineProdDate /\ to_ymd(a, 12) = id.machineProdDateUCHI
    BY <1>2, <1>5 DEF to_ymd
  <1> QED
    BY <1>4, <1>5, <1>6 DEF ManufacturerData, Identity, a

LEMMA BeforeProperties ==
  ASSUME NEW v \in Seq(Byte \ {0})
  PROVE  /\ Before(v, 0) = <<>>
         /\ \A k \in Nat: k >= Len(v) => Before(v, k) = v
         /\ \A k \in 1..Len(v): Before(v, k) = Append(Before(v, k - 1), v[k])
  <1>1. Len(v) \in Nat
    BY LenProperties
  <1>2. Before(v, 0) = <<>>
    <2>1. SubSeq(v, 1, 0) = <<>> /\ 0 <= Len(v)
      BY <1>1, SubSeqEmpty
    <2> QED
      BY <2>1, Zenon DEF Before
  <1>3. \A k \in Nat: k >= Len(v) => Before(v, k) = v
    BY <1>1, SubSeqFull DEF Before
  <1>4. ASSUME NEW k \in 1..Len(v) PROVE Before(v, k) = Append(Before(v, k - 1), v[k])
    <2> DEFINE s == SubSeq(v, 1, k - 1)
               t == SubSeq(v, 1, k)
               x == v[k]
    <2>1. k \in Nat /\ k - 1 \in Nat /\ k <= Len(v) /\ k - 1 <= Len(v)
      BY <1>1
    <2>2. \A i \in 1..k: v[i] \in Byte \ {0}
      BY <1>1
    <2>3. /\ s \in Seq(Byte \ {0}) /\ Len(s) = k - 1 /\ \A i \in 1..(k - 1): s[i] = v[i]
      BY <2>1, <2>2, SubSeqProperties
    <2>4. /\ t \in Seq(Byte \ {0}) /\ Len(t) = k /\ \A i \in 1..k: t[i] = v[i]
      BY <2>1, <2>2, SubSeqProperties
    <2>5. x \in Byte \ {0}
      BY <2>2, <2>1
    <2> HIDE DEF s, t, x
    <2> DEFINE a == Append(s, x)
    <2>6. a \in Seq(Byte \ {0}) /\ Len(a) = k /\ \A i \in 1..k: a[i] = IF i < k THEN s[i] ELSE x
      BY <2>1, <2>3, <2>5
    <2> HIDE DEF a
    <2>7. \A i \in 1..k: a[i] = t[i]
      BY <2>1, <2>3, <2>4, <2>6 DEF x
    <2>8. a = t
      BY <2>4, <2>6, <2>7, SeqEqual
    <2> QED
      BY <2>1, <2>8 DEF Before, a, s, t, x
  <1> QED
    BY <1>2, <1>3, <1>4

LEMMA PaddedProperties ==
  ASSUME NEW v \in Seq(Byte \ {0}), NEW n \in Nat, Len(v) <= n
  PROVE  /\ Padded(v, n) \in Seq(Byte) /\ Len(Padded(v, n)) = n
         /\ \A k \in 1..n: Padded(v, n)[k] = IF k <= Len(v) THEN v[k] ELSE 0
  <1> DEFINE m == n - Len(v)
             zeros == [i \in 1..m |-> 0]
  <1>1. Len(v) \in Nat /\ m \in Nat /\ Len(v) + m = n
    BY LenProperties
  <1>2. zeros \in [1..m -> Byte] /\ \A i \in 1..m: zeros[i] = 0
    BY DEF Byte
  <1>3. v \in Seq(Byte)
    BY SeqMonotonic
  <1>4. Padded(v, n) = v \o zeros
    BY DEF Padded
  <1> HIDE DEF zeros, m
  <1>5. zeros \in Seq(Byte) /\ Len(zeros) = m
    BY <1>1, <1>2, FunctionIsSequence
  <1>6. /\ v \o zeros \in Seq(Byte) /\ Len(v \o zeros) = Len(v) + Len(zeros)
        /\ \A i \in 1..(Len(v) + Len(zeros)):
              (v \o zeros)[i] = IF i <= Len(v) THEN v[i] ELSE zeros[i - Len(v)]
    BY <1>3, <1>5, ConcatProperties
  <1> DEFINE t == v \o zeros
  <1> HIDE DEF t
  <1>7. ASSUME NEW k \in 1..n PROVE t[k] = IF k <= Len(v) THEN v[k] ELSE 0
    <2>1. t[k] = IF k <= Len(v) THEN v[k] ELSE zeros[k - Len(v)]
      BY <1>1, <1>5, <1>6 DEF t
    <2>2. ~(k <= Len(v)) => k - Len(v) \in 1..m
      BY <1>1
    <2> QED
      BY <1>2, <2>1, <2>2
  <1> QED
    BY <1>1, <1>4, <1>5, <1>6, <1>7 DEF t

(* A version that stands at an offset of the about data comes back without *)
(* the null bytes behind it, as far as it is read.                         *)
StandsAt(v, n, data, from, to) ==
  /\ v \in Seq(Byte \ {0}) /\ n \in Nat /\ from \in Nat /\ to = from + n - 1
  /\ \A k \in 1..n: data[from + k] = IF k <= Len(v) THEN v[k] ELSE 0

LEMMA VersionRead ==
  ASSUME NEW v, NEW n, NEW data, NEW from, NEW to, StandsAt(v, n, data, from, to)
  PROVE  parse_version(data, from, to) = Before(v, n)
  <1> DEFINE Step(f, i) == IF i = from THEN <<>>
                           ELSE IF data[i] = 0 THEN f[i - 1] ELSE Append(f[i - 1], data[i])
             W == [i \in from..(to + 1) |-> Before(v, i - from)]
  <1>0. v \in Seq(Byte \ {0}) /\ n \in Nat /\ from \in Nat /\ to = from + n - 1
    BY DEF StandsAt
  <1>1. Len(v) \in Nat /\ to + 1 = from + n /\ to + 1 \in Nat
    BY <1>0, LenProperties
  <1>2. \A k \in 1..n: data[from + k] = IF k <= Len(v) THEN v[k] ELSE 0
    BY DEF StandsAt
  <1>3. ASSUME NEW i \in from..(to + 1) PROVE W[i] = Step(W, i)
    <2>1. W[i] = Before(v, i - from)
      OBVIOUS
    <2>2. CASE i = from
      <3>1. i - from = 0
        BY <2>2
      <3> QED
        BY <1>0, <2>1, <2>2, <3>1, BeforeProperties
    <2>3. CASE i # from
      <3> DEFINE k == i - from
      <3>1. k \in 1..n /\ i = from + k /\ k - 1 \in Nat /\ (i - 1) - from = k - 1
            /\ i - 1 \in from..(to + 1)
        BY <1>0, <1>1, <2>3
      <3>2. W[i - 1] = Before(v, k - 1)
        BY <3>1
      <3>3. data[i] = IF k <= Len(v) THEN v[k] ELSE 0
        BY <1>2, <3>1
      <3> HIDE DEF W, k
      <3>4. CASE k <= Len(v)
        <4>1. k \in 1..Len(v)
          BY <3>1, <3>4, <1>1
        <4>2. v[k] # 0
          BY <1>0, <4>1
        <4>3. Before(v, k) = Append(Before(v, k - 1), v[k])
          BY <1>0, <4>1, BeforeProperties
        <4> QED
          BY <2>1, <2>3, <3>2, <3>3, <3>4, <4>2, <4>3, Zenon DEF k
      <3>5. CASE ~(k <= Len(v))
        <4>1. k - 1 >= Len(v) /\ k >= Len(v) /\ k \in Nat
          BY <3>1, <3>5, <1>1
        <4>2. Before(v, k - 1) = v /\ Before(v, k) = v
          BY <1>0, <3>1, <4>1, BeforeProperties
        <4> QED
          BY <2>1, <2>3, <3>2, <3>3, <3>5, <4>2, Zenon DEF k
      <3> QED
        BY <3>4, <3>5
    <2> QED
      BY <2>2, <2>3
  <1>4. W = [i \in from..(to + 1) |-> Step(W, i)]
    BY <1>3
  <1> DEFINE f == CHOOSE f: f = [i \in from..(to + 1) |-> Step(f, i)]
  <1>5. f = [i \in from..(to + 1) |-> Step(f, i)]
    BY <1>4
  <1>6. parse_version(data, from, to) = f[to + 1]
    BY Zenon DEF parse_version
  <1> HIDE DEF f, W
  <1>7. \A i \in from..(to + 1): f[i] = W[i]
    <2> DEFINE T == {i \in from..(to + 1): f[i] # W[i]}
    <2> SUFFICES ASSUME T # {} PROVE FALSE
      OBVIOUS
    <2>1. T \in SUBSET Nat
      BY <1>0, <1>1
    <2> HIDE DEF T
    <2>2. PICK i \in T: \A j \in T: i <= j
      BY <2>1, LeastNumber
    <2>3. i \in from..(to + 1) /\ f[i] # W[i]
      BY <2>2 DEF T
    <2>4. f[i] = Step(f, i) /\ W[i] = Step(W, i)
      BY <1>3, <1>5, <2>3
    <2>5. i # from
      BY <2>3, <2>4
    <2>6. i - 1 \in from..(to + 1) /\ ~(i <= i - 1)
      BY <1>0, <1>1, <2>3, <2>5
    <2>7. f[i - 1] = W[i - 1]
      BY <2>2, <2>6 DEF T
    <2> QED
      BY <2>3, <2>4, <2>5, <2>7, Zenon
  <1>8. to + 1 \in from..(to + 1) /\ (to + 1) - from = n
    BY <1>0, <1>1
  <1>9. W[to + 1] = Before(v, n)
    BY <1>8 DEF W
  <1> QED
    BY <1>6, <1>7, <1>8, <1>9

(* Both versions come back from the about data, but for the last of 17     *)
(* characters.                                                             *)
LEMMA AboutRead ==
  ASSUME NEW m \in Maker
  PROVE  AboutData(AboutMachine(m)) =
            [blueFrogVersion |-> m.blueFrog, coffeeMachineVersion |-> Before(m.version, 16)]
  <1> DEFINE zeros == [i \in 1..27 |-> 0]
             p == Padded(m.blueFrog, 8)
             q == Padded(m.version, 17)
             s == zeros \o p
             data == s \o q
  <1>1. /\ m.blueFrog \in Seq(Byte \ {0}) /\ Len(m.blueFrog) <= 8
        /\ m.version \in Seq(Byte \ {0}) /\ Len(m.version) <= 17
    BY DEF Maker
  <1>2. zeros \in Seq(Byte) /\ Len(zeros) = 27
    <2>1. zeros \in [1..27 -> Byte]
      BY DEF Byte
    <2> HIDE DEF zeros
    <2> QED
      BY <2>1, FunctionIsSequence
  <1>3. p \in Seq(Byte) /\ Len(p) = 8 /\ q \in Seq(Byte) /\ Len(q) = 17
    BY <1>1, PaddedProperties
  <1>4. AboutMachine(m) = data
    BY DEF AboutMachine
  <1> HIDE DEF zeros, p, q, s, data
  <1>5. /\ s \in Seq(Byte) /\ Len(s) = Len(zeros) + Len(p)
        /\ \A i \in 1..(Len(zeros) + Len(p)):
              s[i] = IF i <= Len(zeros) THEN zeros[i] ELSE p[i - Len(zeros)]
    BY <1>2, <1>3, ConcatProperties, Zenon DEF s
  <1>6. Len(s) = 35 /\ \A k \in 1..8: s[27 + k] = p[k]
    BY <1>2, <1>3, <1>5
  <1>7. /\ data \in Seq(Byte) /\ Len(data) = Len(s) + Len(q)
        /\ \A i \in 1..(Len(s) + Len(q)):
              data[i] = IF i <= Len(s) THEN s[i] ELSE q[i - Len(s)]
    <2>1. s \in Seq(Byte) /\ q \in Seq(Byte)
      BY <1>3, <1>5
    <2> QED
      BY ONLY <2>1, ConcatProperties, Zenon DEF data
  <1>8. \A k \in 1..8: data[27 + k] = p[k]
    <2>1. \A k \in 1..8: 27 + k \in 1..(Len(s) + Len(q)) /\ 27 + k <= Len(s)
      BY <1>3, <1>6
    <2> QED
      BY <1>6, <1>7, <2>1
  <1>9. \A k \in 1..16: data[35 + k] = q[k]
    <2>1. \A k \in 1..16: /\ 35 + k \in 1..(Len(s) + Len(q)) /\ ~(35 + k <= Len(s))
                          /\ (35 + k) - Len(s) = k
      BY <1>3, <1>6
    <2> QED
      BY <1>7, <2>1, Zenon
  <1>10. parse_version(data, 27, 34) = m.blueFrog
    <2> DEFINE n == 8
               from == 27
               to == 34
    <2>1. n \in Nat /\ from \in Nat /\ to = from + n - 1
      OBVIOUS
    <2>2. StandsAt(m.blueFrog, n, data, from, to)
      BY <1>1, <1>8, <2>1, PaddedProperties DEF p, StandsAt
    <2> HIDE DEF n, from, to
    <2>3. parse_version(data, from, to) = Before(m.blueFrog, n)
      BY ONLY <2>2, VersionRead
    <2>4. Before(m.blueFrog, 8) = m.blueFrog
      BY <1>1, BeforeProperties
    <2> QED
      BY <2>3, <2>4 DEF n, from, to
  <1>11. parse_version(data, 35, 50) = Before(m.version, 16)
    <2> DEFINE n == 16
               from == 35
               to == 50
    <2>1. n \in Nat /\ from \in Nat /\ to = from + n - 1
      OBVIOUS
    <2>2. StandsAt(m.version, n, data, from, to)
      <3>1. \A k \in 1..17: q[k] = IF k <= Len(m.version) THEN m.version[k] ELSE 0
        BY <1>1, PaddedProperties DEF q
      <3>2. \A k \in 1..n: k \in 1..16 /\ k \in 1..17
        OBVIOUS
      <3>3. \A k \in 1..n: data[from + k] = q[k]
        BY <1>9, <3>2
      <3> QED
        BY ONLY <1>1, <2>1, <3>1, <3>2, <3>3, Zenon DEF StandsAt
    <2> HIDE DEF n, from, to
    <2>3. parse_version(data, from, to) = Before(m.version, n)
      BY ONLY <2>2, VersionRead
    <2> QED
      BY <2>3 DEF n, from, to
  <1> QED
    BY <1>4, <1>10, <1>11 DEF AboutData

-----------------------------------------------------------------------------
(* The status, as alerts.                                                  *)

(* The bits of a status byte are read as they were set.                    *)
LEMMA StatusByteBits ==
  ASSUME NEW j \in Int
  PROVE  /\ StatusByte(j) \in Byte
         /\ \A k \in 0..7:
               (StatusByte(j) \div FromHighEnd[k + 1]) % 2 = 1 <=> 8 * (j - 1) + k \in status
  <1> DEFINE bit(i) == IF 8 * (j - 1) + i - 1 \in status THEN 1 ELSE 0
             c == [i \in 1..8 |-> bit(i)]
             b == 2
             n == 8
  <1>1. c \in [1..n -> Nat] /\ b \in Nat /\ n \in Nat
    OBVIOUS
  <1> HIDE DEF b, c, n
  <1>2. PICK g \in [0..n -> Nat]: g = [i \in 0..n |-> IF i = 0 THEN 0 ELSE b * g[i - 1] + c[i]]
    BY <1>1, DigitsMakeNumbers, Zenon
  <1> USE DEF b, c, n
  <1>3. \A i \in 0..8: i # 0 => i \in 1..8
    OBVIOUS
  <1>4. g = [i \in 0..8 |-> IF i = 0 THEN 0 ELSE 2 * g[i - 1] + bit(i)]
    BY <1>2, <1>3
  <1> DEFINE IsValue(h) == h = [i \in 0..8 |-> IF i = 0 THEN 0 ELSE 2 * h[i - 1] + bit(i)]
             f == CHOOSE h: IsValue(h)
  <1>5. IsValue(f)
    <2>1. IsValue(g)
      BY <1>4, Zenon
    <2> HIDE DEF IsValue
    <2> QED
      BY <2>1, Zenon
  <1>6. StatusByte(j) = f[8]
    BY Zenon DEF StatusByte
  <1>6a. /\ bit(1) \in {0, 1} /\ bit(2) \in {0, 1} /\ bit(3) \in {0, 1} /\ bit(4) \in {0, 1}
         /\ bit(5) \in {0, 1} /\ bit(6) \in {0, 1} /\ bit(7) \in {0, 1} /\ bit(8) \in {0, 1}
    OBVIOUS
  <1> DEFINE b1 == bit(1) b2 == bit(2) b3 == bit(3) b4 == bit(4)
             b5 == bit(5) b6 == bit(6) b7 == bit(7) b8 == bit(8)
  <1> HIDE DEF bit
  <1>7. /\ b1 = bit(1) /\ b2 = bit(2) /\ b3 = bit(3) /\ b4 = bit(4)
        /\ b5 = bit(5) /\ b6 = bit(6) /\ b7 = bit(7) /\ b8 = bit(8)
    OBVIOUS
  <1>7a. /\ b1 \in {0, 1} /\ b2 \in {0, 1} /\ b3 \in {0, 1} /\ b4 \in {0, 1}
         /\ b5 \in {0, 1} /\ b6 \in {0, 1} /\ b7 \in {0, 1} /\ b8 \in {0, 1}
    BY <1>6a
  <1> HIDE DEF f, b, c, n, b1, b2, b3, b4, b5, b6, b7, b8
  <1>8. /\ f[0] = 0 /\ f[1] = b1 /\ f[2] = 2 * f[1] + b2 /\ f[3] = 2 * f[2] + b3
        /\ f[4] = 2 * f[3] + b4 /\ f[5] = 2 * f[4] + b5 /\ f[6] = 2 * f[5] + b6
        /\ f[7] = 2 * f[6] + b7 /\ f[8] = 2 * f[7] + b8
    <2>1. \A i \in 0..8: f[i] = IF i = 0 THEN 0 ELSE 2 * f[i - 1] + bit(i)
      BY <1>5, Zenon
    <2>2. f[0] = 0
      BY <2>1
    <2>3. f[1] = 2 * f[0] + bit(1) /\ f[2] = 2 * f[1] + bit(2)
      BY <2>1
    <2>4. f[3] = 2 * f[2] + bit(3) /\ f[4] = 2 * f[3] + bit(4)
      BY <2>1
    <2>5. f[5] = 2 * f[4] + bit(5) /\ f[6] = 2 * f[5] + bit(6)
      BY <2>1
    <2>6. f[7] = 2 * f[6] + bit(7) /\ f[8] = 2 * f[7] + bit(8)
      BY <2>1
    <2>7. f[1] = b1
      BY <1>7, <1>7a, <2>2, <2>3
    <2> QED
      BY <1>7, <2>2, <2>3, <2>4, <2>5, <2>6, <2>7
  <1>9. /\ b1 = 1 <=> 8 * (j - 1) + 0 \in status
        /\ b2 = 1 <=> 8 * (j - 1) + 1 \in status
        /\ b3 = 1 <=> 8 * (j - 1) + 2 \in status
        /\ b4 = 1 <=> 8 * (j - 1) + 3 \in status
        /\ b5 = 1 <=> 8 * (j - 1) + 4 \in status
        /\ b6 = 1 <=> 8 * (j - 1) + 5 \in status
        /\ b7 = 1 <=> 8 * (j - 1) + 6 \in status
        /\ b8 = 1 <=> 8 * (j - 1) + 7 \in status
    BY <1>7 DEF bit
  <1>10. f[8] = 128 * b1 + 64 * b2 + 32 * b3 + 16 * b4 + 8 * b5 + 4 * b6 + 2 * b7 + b8
    BY <1>7a, <1>8
  <1> DEFINE v == f[8]
  <1>11. v \in Byte
    BY <1>7a, <1>10 DEF Byte
  <1> HIDE DEF v
  <1>12. /\ (v \div FromHighEnd[1]) % 2 = b1 /\ (v \div FromHighEnd[2]) % 2 = b2
         /\ (v \div FromHighEnd[3]) % 2 = b3 /\ (v \div FromHighEnd[4]) % 2 = b4
         /\ (v \div FromHighEnd[5]) % 2 = b5 /\ (v \div FromHighEnd[6]) % 2 = b6
         /\ (v \div FromHighEnd[7]) % 2 = b7 /\ (v \div FromHighEnd[8]) % 2 = b8
    BY <1>7a, <1>10 DEF v, FromHighEnd
  <1>13. ASSUME NEW k \in 0..7
         PROVE  (v \div FromHighEnd[k + 1]) % 2 = 1 <=> 8 * (j - 1) + k \in status
    <2>1. CASE k = 0
      <3>1. k + 1 = 1
        BY <2>1
      <3> QED
        BY ONLY <1>9, <1>12, <2>1, <3>1, Zenon
    <2>2. CASE k = 1
      <3>1. k + 1 = 2
        BY <2>2
      <3> QED
        BY ONLY <1>9, <1>12, <2>2, <3>1, Zenon
    <2>3. CASE k = 2
      <3>1. k + 1 = 3
        BY <2>3
      <3> QED
        BY ONLY <1>9, <1>12, <2>3, <3>1, Zenon
    <2>4. CASE k = 3
      <3>1. k + 1 = 4
        BY <2>4
      <3> QED
        BY ONLY <1>9, <1>12, <2>4, <3>1, Zenon
    <2>5. CASE k = 4
      <3>1. k + 1 = 5
        BY <2>5
      <3> QED
        BY ONLY <1>9, <1>12, <2>5, <3>1, Zenon
    <2>6. CASE k = 5
      <3>1. k + 1 = 6
        BY <2>6
      <3> QED
        BY ONLY <1>9, <1>12, <2>6, <3>1, Zenon
    <2>7. CASE k = 6
      <3>1. k + 1 = 7
        BY <2>7
      <3> QED
        BY ONLY <1>9, <1>12, <2>7, <3>1, Zenon
    <2>8. CASE k = 7
      <3>1. k + 1 = 8
        BY <2>8
      <3> QED
        BY ONLY <1>9, <1>12, <2>8, <3>1, Zenon
    <2> QED
      BY <2>1, <2>2, <2>3, <2>4, <2>5, <2>6, <2>7, <2>8
  <1> QED
    BY <1>6, <1>11, <1>13 DEF v

(* The status is read as the coffee maker sends it.                        *)
LEMMA StatusRead ==
  ASSUME maker.id.key \in Byte, status \in SUBSET (0..(8 * StatusLength - 1)),
         NEW S, \A a \in S: a.bit \in Nat
  PROVE  /\ MachineStatus \in Seq(Byte)
         /\ NewAlerts(MachineStatus, S) = {a \in S: a.bit \in status}
  <1> DEFINE bytes == [j \in 1..StatusLength |-> StatusByte(j)]
             data == MachineStatus
  <1>1. bytes \in Seq(Byte) /\ Len(bytes) = 2
    <2>1. \A j \in 1..2: StatusByte(j) \in Byte
      BY StatusByteBits
    <2>2. bytes \in [1..2 -> Byte]
      BY <2>1 DEF StatusLength
    <2> QED
      BY <2>2, FunctionIsSequence
  <1>2. /\ data \in Seq(Byte) /\ Len(data) = 3
        /\ data[2] = StatusByte(1) /\ data[3] = StatusByte(2)
    <2> DEFINE front == <<maker.id.key>>
    <2>1. front \in Seq(Byte) /\ Len(front) = 1
      OBVIOUS
    <2>2. bytes[1] = StatusByte(1) /\ bytes[2] = StatusByte(2)
      BY DEF StatusLength
    <2>3. data = front \o bytes
      BY DEF MachineStatus
    <2> HIDE DEF bytes, front, data
    <2>4. /\ data \in Seq(Byte) /\ Len(data) = Len(front) + Len(bytes)
          /\ \A i \in 1..(Len(front) + Len(bytes)):
                data[i] = IF i <= Len(front) THEN front[i] ELSE bytes[i - Len(front)]
      BY <1>1, <2>1, <2>3, ConcatProperties, Zenon
    <2> QED
      BY <1>1, <2>1, <2>2, <2>4
  <1> HIDE DEF data, bytes
  <1>3. ASSUME NEW i \in 0..15 PROVE StatusBit(data, i) <=> i \in status
    <2> DEFINE j == (i \div 8) + 1
               k == i % 8
    <2>1. j \in {1, 2} /\ k \in 0..7 /\ 8 * (j - 1) + k = i /\ (i \div 8) + 2 = j + 1
      OBVIOUS
    <2> HIDE DEF j, k
    <2>2. data[j + 1] = StatusByte(j)
      BY <1>2, <2>1
    <2>3. (StatusByte(j) \div FromHighEnd[k + 1]) % 2 = 1 <=> 8 * (j - 1) + k \in status
      <3>1. j \in Int
        BY <2>1
      <3> QED
        BY <2>1, <3>1, StatusByteBits, Zenon
    <2>4. StatusBit(data, i) <=> (data[(i \div 8) + 2] \div FromHighEnd[k + 1]) % 2 = 1
      BY Zenon DEF StatusBit, k
    <2> QED
      BY ONLY <2>1, <2>2, <2>3, <2>4, Zenon
  <1>4. ASSUME NEW a \in S
        PROVE  (a.bit < 8 * (Len(data) - 1) /\ StatusBit(data, a.bit)) <=> a.bit \in status
    <2>1. a.bit \in Nat /\ 8 * (Len(data) - 1) = 16
      BY <1>2
    <2>2. CASE a.bit < 16
      <3>1. a.bit \in 0..15
        BY <2>1, <2>2
      <3>2. StatusBit(data, a.bit) <=> a.bit \in status
        BY <1>3, <3>1, Zenon
      <3> QED
        BY <2>1, <2>2, <3>2
    <2>3. CASE ~(a.bit < 16)
      <3>1. a.bit \notin status
        BY <2>1, <2>3 DEF StatusLength
      <3> QED
        BY <2>1, <2>3, <3>1
    <2> QED
      BY <2>2, <2>3
  <1> QED
    BY <1>2, <1>4 DEF NewAlerts, data

-----------------------------------------------------------------------------
(* The statistics, as numbers.                                             *)

\* f holds the values of the first bytes, f[i] that of i bytes.
AreValues(f, data, offset, n) ==
    f = [i \in 0..n |-> IF i = 0 THEN 0 ELSE 256 * f[i - 1] + data[offset + i]]

LEMMA BigEndianValueDigits ==
  ASSUME NEW data, NEW offset \in Nat, NEW n \in Nat,
         \A i \in 1..n: data[offset + i] \in Nat
  PROVE  \E f: AreValues(f, data, offset, n) /\ BigEndianValue(data, offset, n) = f[n]
  <1> DEFINE c == [i \in 1..n |-> data[offset + i]]
  <1>1. c \in [1..n -> Nat]
    OBVIOUS
  <1> DEFINE b == 256
  <1>b. b \in Nat
    OBVIOUS
  <1> HIDE DEF b, c
  <1>2. PICK g \in [0..n -> Nat]: g = [i \in 0..n |-> IF i = 0 THEN 0 ELSE b * g[i - 1] + c[i]]
    BY <1>1, <1>b, DigitsMakeNumbers, ZenonT(60)
  <1> USE DEF b, c
  <1>3. \A i \in 0..n: i # 0 => c[i] = data[offset + i]
    OBVIOUS
  <1>4. g = [i \in 0..n |-> IF i = 0 THEN 0 ELSE 256 * g[i - 1] + data[offset + i]]
    <2> HIDE DEF b, c
    <2>1. [i \in 0..n |-> IF i = 0 THEN 0 ELSE b * g[i - 1] + c[i]]
             = [i \in 0..n |-> IF i = 0 THEN 0 ELSE b * g[i - 1] + data[offset + i]]
      BY <1>3, ZenonT(30)
    <2>2. g = [i \in 0..n |-> IF i = 0 THEN 0 ELSE b * g[i - 1] + data[offset + i]]
      BY <1>2, <2>1, Zenon
    <2> QED
      BY <2>2, Zenon DEF b
  <1> DEFINE f == CHOOSE h: AreValues(h, data, offset, n)
  <1>5. AreValues(f, data, offset, n)
    <2>1. AreValues(g, data, offset, n)
      BY <1>4, Zenon DEF AreValues
    <2> QED
      BY <2>1, Zenon
  <1>6. BigEndianValue(data, offset, n) = f[n]
    BY Zenon DEF BigEndianValue, AreValues
  <1> HIDE DEF f
  <1> QED
    BY <1>5, <1>6, Zenon

LEMMA BigEndianValueShort ==
  ASSUME NEW data, NEW offset \in Nat, NEW n \in 1..3,
         \A i \in 1..n: data[offset + i] \in Nat
  PROVE  BigEndianValue(data, offset, n) =
            IF n = 1 THEN data[offset + 1]
            ELSE IF n = 2 THEN 256 * data[offset + 1] + data[offset + 2]
            ELSE 65536 * data[offset + 1] + 256 * data[offset + 2] + data[offset + 3]
  <1>0. n \in Nat
    OBVIOUS
  <1>1. PICK f: AreValues(f, data, offset, n) /\ BigEndianValue(data, offset, n) = f[n]
    BY <1>0, BigEndianValueDigits, Zenon
  <1> USE DEF AreValues
  <1>2. f[0] = 0 /\ f[1] = 256 * f[0] + data[offset + 1]
    BY <1>1
  <1>3. n >= 2 => f[2] = 256 * f[1] + data[offset + 2]
    BY <1>1
  <1>4. n = 3 => f[3] = 256 * f[2] + data[offset + 3]
    BY <1>1
  <1>5. data[offset + 1] \in Nat /\ (n >= 2 => data[offset + 2] \in Nat)
        /\ (n = 3 => data[offset + 3] \in Nat)
    OBVIOUS
  <1>6. BigEndianValue(data, offset, n) = f[n]
    BY <1>1
  <1>7. CASE n = 1
    BY <1>2, <1>5, <1>6, <1>7
  <1>8. CASE n = 2
    <2>1. f[1] = data[offset + 1]
      BY <1>2, <1>5
    <2> QED
      BY <1>3, <1>5, <1>6, <1>8, <2>1
  <1>9. CASE n = 3
    <2>1. f[1] = data[offset + 1]
      BY <1>2, <1>5
    <2>2. f[2] = 256 * data[offset + 1] + data[offset + 2]
      BY <1>3, <1>9, <2>1
    <2>3. f[3] = 256 * (256 * data[offset + 1] + data[offset + 2]) + data[offset + 3]
      BY <1>4, <1>9, <2>2
    <2> QED
      BY <1>5, <1>6, <1>9, <2>3
  <1> QED
    BY <1>7, <1>8, <1>9

LEMMA BigEndianValueIsNat ==
  ASSUME NEW data, NEW offset \in Nat, NEW n \in Nat,
         \A i \in 1..n: data[offset + i] \in Nat
  PROVE  BigEndianValue(data, offset, n) \in Nat
  <1>1. PICK f: AreValues(f, data, offset, n) /\ BigEndianValue(data, offset, n) = f[n]
    BY BigEndianValueDigits, Zenon
  <1> USE DEF AreValues
  <1> DEFINE T == {i \in 0..n: f[i] \notin Nat}
  <1>2. T = {}
    <2> SUFFICES ASSUME T # {} PROVE FALSE
      OBVIOUS
    <2>1. T \in SUBSET Nat
      OBVIOUS
    <2> HIDE DEF T
    <2>2. PICK m \in T: \A k \in T: m <= k
      BY <2>1, LeastNumber
    <2>3. m \in 0..n /\ f[m] \notin Nat
      BY <2>2 DEF T
    <2>4. m # 0
      BY <2>3, <1>1
    <2>5. m - 1 \in 0..n /\ ~(m <= m - 1) /\ m \in 1..n
      BY <2>3, <2>4
    <2>6. f[m - 1] \in Nat /\ data[offset + m] \in Nat
      BY <2>2, <2>5 DEF T
    <2>7. f[m] = 256 * f[m - 1] + data[offset + m]
      BY <1>1, <2>3, <2>4
    <2> QED
      BY <2>3, <2>6, <2>7
  <1>3. n \in 0..n
    OBVIOUS
  <1>4. f[n] \in Nat
    BY <1>2, <1>3
  <1> HIDE DEF T
  <1> QED
    BY <1>1, <1>4, Zenon

(* The bytes of the coffee maker's counters.                               *)
LEMMA BigEndianBytes ==
  ASSUME NEW values \in Seq(Nat), NEW b \in {2, 3}
  PROVE  BigEndian(values, b) \in Seq(Byte) /\ Len(BigEndian(values, b)) = b * Len(values)
  <1> DEFINE data == BigEndian(values, b)
             n == b * Len(values)
  <1>1. n \in Nat
    BY LenProperties
  <1>2. ASSUME NEW i \in 1..n PROVE data[i] \in Byte
    <2> DEFINE place == ((i - 1) \div b) + 1
               power == Power256[b - ((i - 1) % b)]
    <2>1. place \in 1..Len(values)
      BY LenProperties
    <2>2. (i - 1) % b \in {0, 1, 2} /\ (i - 1) % b < b
      BY <1>1
    <2>3. power \in {1, 256, 65536}
      BY <2>2, SMT DEF Power256
    <2>4. data[i] = (values[place] \div power) % 256
      BY DEF BigEndian
    <2> HIDE DEF data, place, power
    <2>5. values[place] \in Nat
      BY <2>1
    <2>6. values[place] \div power \in Int
      BY <2>3, <2>5
    <2>7. \A x \in Int: x % 256 \in Byte
      BY DEF Byte
    <2> QED
      BY <2>4, <2>6, <2>7, Zenon
  <1>3. data \in [1..n -> Byte]
    BY <1>2 DEF BigEndian
  <1> HIDE DEF data, n
  <1>4. data \in Seq(Byte) /\ Len(data) = n
    BY <1>1, <1>3, FunctionIsSequence
  <1> QED
    BY <1>4 DEF data, n

(* Each counter is read from its own place, and zero from behind the last. *)
LEMMA ProductsRead ==
  ASSUME NEW values \in Seq(UInt24), NEW i \in Nat
  PROVE  get_stat_val(BigEndian(values, 3), i, 3) = At(values, i + 1)
  <1> DEFINE data == BigEndian(values, 3)
             n == Len(values)
  <1>1. values \in Seq(Nat) /\ n \in Nat /\ DOMAIN values = 1..n
    <2>1. UInt24 \subseteq Nat
      BY SMT DEF UInt24
    <2> QED
      BY <2>1, LenProperties, SeqMonotonic
  <1>2. data \in Seq(Byte) /\ Len(data) = 3 * n
    BY <1>1, BigEndianBytes
  <1>3. CASE i < n
    <2> DEFINE v == values[i + 1]
    <2>0. v \in UInt24 /\ i + 1 \in 1..n
      BY <1>1, <1>3
    <2>1. v \in Nat
      BY <2>0, SMT DEF UInt24
    <2>2. ASSUME NEW k \in 1..3
          PROVE  data[3 * i + k] = (v \div Power256[4 - k]) % 256
      <3>1. /\ 3 * i + k \in 1..(3 * n)
            /\ ((3 * i + k - 1) \div 3) + 1 = i + 1
            /\ 3 - ((3 * i + k - 1) % 3) = 4 - k
        BY <1>1, <1>3
      <3>2. data[3 * i + k] = (values[((3 * i + k - 1) \div 3) + 1]
                                 \div Power256[3 - ((3 * i + k - 1) % 3)]) % 256
        BY <3>1 DEF BigEndian
      <3> QED
        BY ONLY <3>1, <3>2, Zenon DEF v
    <2> HIDE DEF data, v, n
    <2>3. /\ data[3 * i + 1] = (v \div 65536) % 256
          /\ data[3 * i + 2] = (v \div 256) % 256
          /\ data[3 * i + 3] = v % 256
      <3>1. Power256[4 - 1] = 65536 /\ Power256[4 - 2] = 256 /\ Power256[4 - 3] = 1
        BY SMT DEF Power256
      <3>2. v \div 1 = v
        BY <2>1
      <3>3. 1 \in 1..3 /\ 2 \in 1..3 /\ 3 \in 1..3
        OBVIOUS
      <3> QED
        BY <2>2, <3>1, <3>2, <3>3
    <2>5. 65536 * ((v \div 65536) % 256) + 256 * ((v \div 256) % 256) + (v % 256) = v
      BY <2>0, SMT DEF UInt24
    <2>6. \A k \in 1..3: data[3 * i + k] \in Nat
      BY <2>1, <2>3
    <2>7. BigEndianValue(data, 3 * i, 3)
             = 65536 * data[3 * i + 1] + 256 * data[3 * i + 2] + data[3 * i + 3]
      BY <2>6, BigEndianValueShort
    <2>8. BigEndianValue(data, 3 * i, 3) = v
      BY <2>3, <2>5, <2>7
    <2>9. ~(Len(data) < i * 3 + 3) /\ i * 3 = 3 * i
      BY <1>1, <1>2, <1>3
    <2>10. get_stat_val(data, i, 3) = BigEndianValue(data, 3 * i, 3)
      BY <2>9, Zenon DEF get_stat_val
    <2> QED
      BY <1>1, <2>0, <2>8, <2>10 DEF At, v, data, n
  <1>4. CASE ~(i < n)
    <2>1. Len(data) < i * 3 + 3 /\ i + 1 \notin 1..n
      BY <1>1, <1>2, <1>4
    <2> QED
      BY <1>1, <2>1 DEF get_stat_val, At
  <1> QED
    BY <1>3, <1>4
LEMMA CountersRead ==
  ASSUME NEW values \in Seq(UInt16), NEW i \in Nat
  PROVE  get_stat_val(BigEndian(values, 2), i, 2) = At(values, i + 1)
  <1> DEFINE data == BigEndian(values, 2)
             n == Len(values)
  <1>1. values \in Seq(Nat) /\ n \in Nat /\ DOMAIN values = 1..n
    <2>1. UInt16 \subseteq Nat
      BY SMT DEF UInt16
    <2> QED
      BY <2>1, LenProperties, SeqMonotonic
  <1>2. data \in Seq(Byte) /\ Len(data) = 2 * n
    BY <1>1, BigEndianBytes
  <1>3. CASE i < n
    <2> DEFINE v == values[i + 1]
    <2>0. v \in UInt16 /\ i + 1 \in 1..n
      BY <1>1, <1>3
    <2>1. v \in Nat
      BY <2>0, SMT DEF UInt16
    <2>2. ASSUME NEW k \in 1..2
          PROVE  data[2 * i + k] = (v \div Power256[3 - k]) % 256
      <3>1. /\ 2 * i + k \in 1..(2 * n)
            /\ ((2 * i + k - 1) \div 2) + 1 = i + 1
            /\ 2 - ((2 * i + k - 1) % 2) = 3 - k
        BY <1>1, <1>3
      <3>2. data[2 * i + k] = (values[((2 * i + k - 1) \div 2) + 1]
                                 \div Power256[2 - ((2 * i + k - 1) % 2)]) % 256
        BY <3>1 DEF BigEndian
      <3> QED
        BY ONLY <3>1, <3>2, Zenon DEF v
    <2> HIDE DEF data, v, n
    <2>3. data[2 * i + 1] = (v \div 256) % 256 /\ data[2 * i + 2] = v % 256
      <3>1. Power256[3 - 1] = 256 /\ Power256[3 - 2] = 1
        BY SMT DEF Power256
      <3>2. v \div 1 = v
        BY <2>1
      <3>3. 1 \in 1..2 /\ 2 \in 1..2
        OBVIOUS
      <3> QED
        BY <2>2, <3>1, <3>2, <3>3
    <2>5. 256 * ((v \div 256) % 256) + (v % 256) = v
      BY <2>0, SMT DEF UInt16
    <2>6. \A k \in 1..2: data[2 * i + k] \in Nat
      BY <2>1, <2>3
    <2>7. BigEndianValue(data, 2 * i, 2) = 256 * data[2 * i + 1] + data[2 * i + 2]
      BY <2>6, BigEndianValueShort
    <2>8. BigEndianValue(data, 2 * i, 2) = v
      BY <2>3, <2>5, <2>7
    <2>9. ~(Len(data) < i * 2 + 2) /\ i * 2 = 2 * i
      BY <1>1, <1>2, <1>3
    <2>10. get_stat_val(data, i, 2) = BigEndianValue(data, 2 * i, 2)
      BY <2>9, Zenon DEF get_stat_val
    <2> QED
      BY <1>1, <2>0, <2>8, <2>10 DEF At, v, data, n
  <1>4. CASE ~(i < n)
    <2>1. Len(data) < i * 2 + 2 /\ i + 1 \notin 1..n
      BY <1>1, <1>2, <1>4
    <2> QED
      BY <1>1, <2>1 DEF get_stat_val, At
  <1> QED
    BY <1>3, <1>4

LEMMA PercentagesRead ==
  ASSUME NEW values \in Seq(Byte), NEW i \in Nat
  PROVE  get_stat_val(values, i, 1) = At(values, i + 1)
  <1> DEFINE n == Len(values)
  <1>1. n \in Nat /\ DOMAIN values = 1..n
    BY LenProperties
  <1>2. i * 1 = i
    OBVIOUS
  <1>3. CASE i < n
    <2>1. i + 1 \in 1..n /\ ~(n < i + 1)
      BY <1>1, <1>3
    <2>2. \A k \in 1..1: values[i + k] \in Nat
      <3>1. values[i + 1] \in Byte
        BY <2>1
      <3>2. \A k \in 1..1: k = 1
        OBVIOUS
      <3>3. \A x \in Byte: x \in Nat
        BY DEF Byte
      <3> QED
        BY <3>1, <3>2, <3>3, Zenon
    <2>3. BigEndianValue(values, i, 1) = values[i + 1]
      BY <2>2, BigEndianValueShort
    <2> QED
      BY <1>1, <1>2, <2>1, <2>3, Zenon DEF get_stat_val, At
  <1>4. CASE ~(i < n)
    <2>1. i + 1 \notin 1..n /\ n < i + 1
      BY <1>1, <1>4
    <2> QED
      BY <1>1, <1>2, <2>1, Zenon DEF get_stat_val, At
  <1> QED
    BY <1>3, <1>4

LEMMA HexStringMessage ==
  ASSUME NEW hex, IsHexString(hex) PROVE from_hex_string(hex) \in Message
  <1> DEFINE n == Len(hex) \div 2
             bytes == from_hex_string(hex)
  <1>1. /\ hex \in Seq(Nat) /\ hex # <<>> /\ Len(hex) % 2 = 0
        /\ \A i \in 1..Len(hex): IsHexChar(hex[i])
    BY LenProperties DEF IsHexString, HexAsserts
  <1>2. Len(hex) \in Nat /\ Len(hex) # 0
    BY <1>1, EmptySeq
  <1>3. n \in Nat /\ n # 0 /\ 2 * n = Len(hex)
    BY <1>1, <1>2
  <1>4. ASSUME NEW i \in 1..n
        PROVE  16 * get_hex_char_val(hex[2 * i - 1]) + get_hex_char_val(hex[2 * i]) \in Byte
    <2>1. 2 * i - 1 \in 1..Len(hex) /\ 2 * i \in 1..Len(hex)
      BY <1>3
    <2>2. IsHexChar(hex[2 * i - 1]) /\ IsHexChar(hex[2 * i])
      BY <1>1, <2>1
    <2>3. \A c: IsHexChar(c) => get_hex_char_val(c) \in Nibble
      BY DEF IsHexChar, get_hex_char_val, Nibble
    <2> QED
      BY <2>2, <2>3, Joined
  <1>5. bytes \in [1..n -> Byte]
    BY <1>4 DEF from_hex_string
  <1>6. bytes \in Seq(Byte) /\ Len(bytes) = n
    BY <1>3, <1>5, FunctionIsSequence
  <1> QED
    BY <1>3, <1>6, EmptySeq DEF Message

LEMMA CodeIsNat ==
  ASSUME NEW hex, IsHexString(hex) PROVE code_to_size_t(from_hex_string(hex)) \in Nat
  <1> DEFINE bytes == from_hex_string(hex)
  <1>1. bytes \in Seq(Byte) /\ Len(bytes) \in Nat
    BY HexStringMessage, LenProperties DEF Message
  <1>2. ASSUME NEW i \in 1..Len(bytes) PROVE bytes[0 + i] \in Nat
    <2>1. 0 + i = i
      OBVIOUS
    <2>2. bytes[i] \in Byte
      BY <1>1
    <2>3. \A x \in Byte: x \in Nat
      BY DEF Byte
    <2> QED
      BY <2>1, <2>2, <2>3, Zenon
  <1>3. BigEndianValue(bytes, 0, Len(bytes)) \in Nat
    BY <1>1, <1>2, BigEndianValueIsNat
  <1> QED
    BY <1>3 DEF code_to_size_t

LEMMA AtType ==
  ASSUME NEW S, 0 \in S, NEW values \in Seq(S), NEW i PROVE At(values, i) \in S
  <1>1. i \in DOMAIN values => values[i] \in S
    BY LenProperties
  <1> QED
    BY <1>1, Zenon DEF At

(* What the parser of each mode stores of the coffee maker's data.         *)
LEMMA PercentagesParsed ==
  ASSUME maker \in Maker, IsJoe(joe)
  PROVE  MaintenancePercentages(maker.percentages, joe.percentages)
            = [i \in 1..joe.percentages |-> At(maker.percentages, i)]
  <1> DEFINE values == maker.percentages
  <1>1. values \in Seq(Byte) /\ joe.percentages \in Nat
    BY DEF Maker, IsJoe
  <1> HIDE DEF values
  <1>2. ASSUME NEW i \in 1..joe.percentages
        PROVE  get_stat_val(values, i - 1, 1) % 256 = At(values, i)
    <2>1. i - 1 \in Nat /\ (i - 1) + 1 = i
      BY <1>1
    <2>2. get_stat_val(values, i - 1, 1) = At(values, i)
      BY <1>1, <2>1, PercentagesRead
    <2>3. At(values, i) \in Byte
      <3>1. 0 \in Byte
        BY DEF Byte
      <3> QED
        BY <1>1, <3>1, AtType
    <2>4. \A x \in Byte: x % 256 = x
      BY DEF Byte
    <2> QED
      BY <2>2, <2>3, <2>4
  <1> QED
    BY <1>2 DEF MaintenancePercentages, values

LEMMA CountersParsed ==
  ASSUME maker \in Maker, IsJoe(joe)
  PROVE  MaintenanceCounters(BigEndian(maker.counters, 2), joe.counters)
            = [i \in 1..joe.counters |-> At(maker.counters, i)]
  <1> DEFINE values == maker.counters
             data == BigEndian(values, 2)
  <1>1. values \in Seq(UInt16) /\ joe.counters \in Nat
    BY DEF Maker, IsJoe
  <1> HIDE DEF values
  <1>2. ASSUME NEW i \in 1..joe.counters
        PROVE  get_stat_val(data, i - 1, 2) % 65536 = At(values, i)
    <2>1. i - 1 \in Nat /\ (i - 1) + 1 = i
      BY <1>1
    <2>2. get_stat_val(data, i - 1, 2) = At(values, i)
      BY <1>1, <2>1, CountersRead
    <2> HIDE DEF data
    <2>3. At(values, i) \in UInt16
      <3>1. 0 \in UInt16
        BY SMT DEF UInt16
      <3> QED
        BY <1>1, <3>1, AtType
    <2>4. \A x \in UInt16: x % 65536 = x
      BY SMT DEF UInt16
    <2>5. At(values, i) % 65536 = At(values, i)
      BY <2>3, <2>4
    <2> QED
      BY ONLY <2>2, <2>5
  <1> QED
    BY <1>2, SMT DEF MaintenanceCounters, values

\* What is stored for a product whose code is c.
Counter(c) ==
  LET counter == At(Selected, 1 + c) IN IF counter = 65535 THEN 0 ELSE counter

(* Whatever is selected, the counters are of three bytes and the total is  *)
(* the coffee maker's.                                                     *)
LEMMA SelectedProperties ==
  ASSUME maker \in Maker
  PROVE  Selected \in Seq(UInt24) /\ At(Selected, 1) = At(maker.products, 1)
  <1> DEFINE values == maker.products
             n == Len(values)
             mask == <<255, maker.id.key>>
             Kept(i) == i = 1 \/ Selects(mask, i - 1)
             masked == [i \in 1..n |-> IF Kept(i) THEN values[i] ELSE 65535]
  <1>1. values \in Seq(UInt24)
    BY DEF Maker
  <1>2. n \in Nat /\ DOMAIN values = 1..n /\ \A i \in 1..n: values[i] \in UInt24
    BY <1>1
  <1>3. Selected = masked
    BY DEF Selected, Masked
  <1>4. 65535 \in UInt24
    BY SMT DEF UInt24
  <1>5. Kept(1)
    OBVIOUS
  <1> HIDE DEF values, mask, Kept, n
  <1>6. masked \in [1..n -> UInt24]
    BY <1>2, <1>4
  <1>7. 1 \in 1..n => masked[1] = values[1]
    BY <1>5
  <1>8. DOMAIN masked = 1..n
    OBVIOUS
  <1> HIDE DEF masked
  <1>9. masked \in Seq(UInt24)
    BY <1>2, <1>6, FunctionIsSequence
  <1>10. At(masked, 1) = At(values, 1)
    BY <1>2, <1>7, <1>8, Zenon DEF At
  <1> QED
    BY <1>3, <1>9, <1>10 DEF values

LEMMA ProductsParsed ==
  ASSUME maker \in Maker, IsJoe(joe)
  PROVE  LET data == BigEndian(Selected, 3)
         IN  /\ StatTotalCount(data) = At(maker.products, 1)
             /\ \A i \in DOMAIN joe.products:
                   LET c == code_to_size_t(from_hex_string(joe.products[i].code))
                   IN  ProductCounter(data, c) = Counter(c) /\ Counter(c) \in Nat
             /\ At(maker.products, 1) \in Nat
  <1> DEFINE values == Selected
             data == BigEndian(values, 3)
  <1>1. values \in Seq(UInt24) /\ At(values, 1) = At(maker.products, 1)
    BY SelectedProperties
  <1>2. \A i \in Int: At(values, i) \in Nat
    <2>1. UInt24 \subseteq Nat /\ 0 \in UInt24
      BY SMT DEF UInt24
    <2> QED
      BY <1>1, <2>1, AtType
  <1> HIDE DEF values
  <1>3. \A i \in Nat: get_stat_val(data, i, 3) = At(values, i + 1)
    BY <1>1, ProductsRead
  <1> HIDE DEF data
  <1>4. StatTotalCount(data) = At(values, 1) /\ At(values, 1) = At(maker.products, 1)
    BY <1>1, <1>3 DEF StatTotalCount
  <1>5. ASSUME NEW i \in DOMAIN joe.products,
               NEW c, c = code_to_size_t(from_hex_string(joe.products[i].code))
        PROVE  ProductCounter(data, c) = Counter(c) /\ Counter(c) \in Nat
    <2>1. c \in Nat
      BY <1>5, CodeIsNat DEF IsJoe
    <2>2. get_stat_val(data, c, 3) = At(values, 1 + c) /\ At(values, 1 + c) \in Nat
      BY <1>2, <1>3, <2>1
    <2>3. ProductCounter(data, c) = Counter(c)
      BY <2>2, SMT DEF ProductCounter, Counter, values
    <2> QED
      BY <2>2, <2>3 DEF Counter, values
  <1> QED
    BY <1>2, <1>4, <1>5 DEF data, values

\* What the parser of the product counters stores.
ProductValues(data) ==
  <<StatTotalCount(data)>> \o
      [i \in 1..Len(joe.products) |->
          ProductCounter(data, code_to_size_t(from_hex_string(joe.products[i].code)))]

LEMMA ProductsStored ==
  ASSUME maker \in Maker, IsJoe(joe)
  PROVE  LET values == ProductValues(BigEndian(Selected, 3))
         IN  /\ Len(values) = Len(joe.products) + 1
             /\ values[1] = At(maker.products, 1)
             /\ \A i \in DOMAIN joe.products:
                    values[i + 1] = Counter(code_to_size_t(from_hex_string(joe.products[i].code)))
  <1> DEFINE data == BigEndian(Selected, 3)
             n == Len(joe.products)
             C(i) == Counter(code_to_size_t(from_hex_string(joe.products[i].code)))
             rest == [i \in 1..n |-> C(i)]
             total == At(maker.products, 1)
  <1>1. n \in Nat /\ DOMAIN joe.products = 1..n
    BY DEF IsJoe
  <1>2. /\ StatTotalCount(data) = total /\ total \in Nat
        /\ \A i \in DOMAIN joe.products:
               LET c == code_to_size_t(from_hex_string(joe.products[i].code))
               IN  ProductCounter(data, c) = C(i) /\ C(i) \in Nat
    BY ProductsParsed
  <1>3. ProductValues(data) = <<total>> \o rest
    BY <1>1, <1>2, Zenon DEF ProductValues
  <1>4. \A i \in 1..n: C(i) \in Nat
    BY <1>1, <1>2
  <1> HIDE DEF data, C, n, total
  <1>5. rest \in Seq(Nat) /\ Len(rest) = n
    BY <1>1, <1>4, FunctionIsSequence
  <1>6. \A i \in 1..n: rest[i] = C(i)
    OBVIOUS
  <1> HIDE DEF rest
  <1>7. /\ Len(<<total>> \o rest) = n + 1 /\ (<<total>> \o rest)[1] = total
        /\ \A i \in 1..n: (<<total>> \o rest)[i + 1] = rest[i]
    BY <1>1, <1>2, <1>5
  <1> QED
    BY <1>1, <1>3, <1>6, <1>7 DEF data, C, n, total

-----------------------------------------------------------------------------
(* The requests of a client are messages.                                  *)

(* The requests there are: none is Silence, and there always is a byte to  *)
(* override.                                                               *)
Asked ==
  [characteristic: {"P_MODE", "BARISTA_MODE", "UART_TX", "START_PRODUCT", "STATISTICS_COMMAND"},
   data: Message, overrideKey: BOOLEAN]

LEMMA RequestIsAsked ==
  ASSUME NEW c \in {"P_MODE", "BARISTA_MODE", "UART_TX", "START_PRODUCT", "STATISTICS_COMMAND"},
         NEW data \in Message, NEW o \in BOOLEAN
  PROVE  Request(c, data, o) \in Asked
  BY DEF Request, Asked

LEMMA BytesAreMessages ==
  /\ <<0, 70, 2>> \in Message /\ <<0, 127, 128>> \in Message
  /\ <<0, 1>> \in Message /\ <<0, 0>> \in Message
  /\ <<0, 3, 0, 4, 40, 0, 0, 2, 0, 1, 0, 0, 0, 0, 0, 0>> \in Message
  /\ \A mode \in StatParseMode: build_stats_cmd(mode) \in Message
  <1>1. \A s \in Seq(Byte): Len(s) > 0 => s \in Message
    BY EmptySeq DEF Message
  <1>2. /\ <<0, 70, 2>> \in Seq(Byte) /\ <<0, 127, 128>> \in Seq(Byte)
        /\ <<0, 1>> \in Seq(Byte) /\ <<0, 0>> \in Seq(Byte)
    BY SMT DEF Byte
  <1>2a. Len(<<0, 70, 2>>) > 0 /\ Len(<<0, 127, 128>>) > 0 /\ Len(<<0, 1>>) > 0 /\ Len(<<0, 0>>) > 0
    BY SMT
  <1>3. <<0, 3, 0, 4, 40, 0, 0, 2, 0, 1, 0, 0, 0, 0, 0, 0>> \in Seq(Byte)
    BY SMT DEF Byte
  <1>3a. Len(<<0, 3, 0, 4, 40, 0, 0, 2, 0, 1, 0, 0, 0, 0, 0, 0>>) > 0
    BY SMT
  <1>4. ASSUME NEW mode \in StatParseMode PROVE build_stats_cmd(mode) \in Message
    <2>1. ModeValue[mode] \in {1, 4, 8}
      BY SMT DEF StatParseMode, ModeValue
    <2>2. build_stats_cmd(mode) =
             IF mode = "PRODUCT_COUNTERS"
             THEN <<0, ModeValue[mode] \div 256, ModeValue[mode] % 256, 255, 255>>
             ELSE <<0, ModeValue[mode] \div 256, ModeValue[mode] % 256, 1, 0>>
      BY SMT DEF build_stats_cmd
    <2>3. ModeValue[mode] \div 256 \in Byte /\ ModeValue[mode] % 256 \in Byte
      BY <2>1, SMT DEF Byte
    <2>4. /\ 0 \in Byte /\ 1 \in Byte /\ 255 \in Byte
      BY SMT DEF Byte
    <2>5. build_stats_cmd(mode) \in Seq(Byte) /\ Len(build_stats_cmd(mode)) > 0
      BY <2>2, <2>3, <2>4, SMT
    <2> QED
      BY <1>1, <2>5, Zenon
  <1> QED
    BY ONLY <1>1, <1>2, <1>2a, <1>3, <1>3a, <1>4, Zenon

LEMMA RequestsAreAsked ==
  /\ Requests \subseteq Asked
  /\ \A product: IsHexString(to_bt_command(product)) => request_coffee(product) \in Asked
  /\ \A mode \in StatParseMode: request_statistics(mode) \in Asked
  <1>1. \A data \in Message: write_tx(data) \in Asked
    BY RequestIsAsked DEF write_tx
  <1>2. /\ shutdown \in Asked /\ stay_in_ble \in Asked /\ lock \in Asked /\ unlock \in Asked
        /\ request_default_coffee \in Asked
    BY RequestIsAsked, BytesAreMessages
       DEF shutdown, stay_in_ble, lock, unlock, request_default_coffee
  <1>3. Requests \subseteq Asked
    BY <1>1, <1>2, TxDataAssumption DEF Requests
  <1>4. \A product: IsHexString(to_bt_command(product)) => request_coffee(product) \in Asked
    BY HexStringMessage, RequestIsAsked DEF request_coffee
  <1>5. \A mode \in StatParseMode: request_statistics(mode) \in Asked
    BY BytesAreMessages, RequestIsAsked DEF request_statistics
  <1> QED
    BY <1>3, <1>4, <1>5

LEMMA KeyedIsMessage ==
  ASSUME NEW r \in Asked, NEW key \in Byte
  PROVE  /\ Keyed(r, key) \in Seq(Byte) /\ Len(Keyed(r, key)) = Len(r.data)
         /\ \A i \in DOMAIN r.data:
               Keyed(r, key)[i] = IF i = 1 \/ (i = Len(r.data) /\ r.overrideKey) THEN key
                                                                             ELSE r.data[i]
  <1>1. r.data \in Seq(Byte) /\ r.data # <<>>
    BY DEF Asked, Message
  <1>2. Len(r.data) \in Nat \ {0} /\ DOMAIN r.data = 1..Len(r.data)
    BY <1>1, EmptySeq, LenProperties
  <1> DEFINE d == r.data
             n == Len(d)
             one == [d EXCEPT ![1] = key]
  <1>3. 1 \in 1..n /\ n \in 1..n
    BY <1>2
  <1>4. /\ one \in Seq(Byte) /\ Len(one) = n
        /\ \A j \in 1..n: one[j] = IF j = 1 THEN key ELSE d[j]
    BY <1>1, <1>3, ExceptSeq
  <1> DEFINE two == [one EXCEPT ![n] = key]
  <1> HIDE DEF one
  <1>5. /\ two \in Seq(Byte) /\ Len(two) = n
        /\ \A j \in 1..n: two[j] = IF j = n THEN key ELSE one[j]
    BY <1>3, <1>4, ExceptSeq
  <1>6. Keyed(r, key) = IF r.overrideKey THEN two ELSE one
    BY DEF Keyed, one
  <1> HIDE DEF two, d, n
  <1> QED
    BY <1>2, <1>4, <1>5, <1>6 DEF d, n

LEMMA WriteDecodes ==
  ASSUME NEW r \in Asked, NEW key \in Byte
  PROVE  encDecBytes(write(r, key), key) = Keyed(r, key)
  BY KeyedIsMessage, EncDecBytesInverse DEF write

-----------------------------------------------------------------------------
(* A command as text, two characters a byte, and its bytes.                *)

(* The byte that two hexadecimal characters are.                           *)
ByteOf(h) == 16 * get_hex_char_val(h[1]) + get_hex_char_val(h[2])

LEMMA HexByteRead ==
  ASSUME NEW h, IsHexByte(h)
  PROVE  ByteOf(h) \in Byte /\ code_to_size_t(from_hex_string(h)) = ByteOf(h)
  <1>1. h \in [1..2 -> Nat] /\ 2 \in Nat
    BY DEF IsHexByte
  <1>2. h \in Seq(Nat) /\ Len(h) = 2
    BY <1>1, FunctionIsSequence
  <1>3. \A c: IsHexChar(c) => get_hex_char_val(c) \in Nibble
    BY DEF IsHexChar, get_hex_char_val, Nibble
  <1>4. ByteOf(h) \in Byte
    BY <1>3, Joined DEF IsHexByte, ByteOf
  <1> DEFINE bytes == from_hex_string(h)
  <1>5. bytes = [i \in 1..1 |-> ByteOf(h)]
    <2>1. Len(h) \div 2 = 1
      BY <1>2
    <2>2. \A i \in 1..1: 2 * i - 1 = 1 /\ 2 * i = 2
      OBVIOUS
    <2> QED
      BY <2>1, <2>2 DEF from_hex_string, ByteOf
  <1>6. bytes \in [1..1 -> Byte] /\ 1 \in Nat /\ bytes[1] = ByteOf(h)
    BY <1>4, <1>5
  <1>7. Len(bytes) = 1
    BY <1>6, FunctionIsSequence
  <1> HIDE DEF bytes
  <1>8. 0 \in Nat /\ 1 \in 1..3 /\ \A i \in 1..1: 0 + i = 1
    OBVIOUS
  <1>9. bytes[1] \in Nat
    BY <1>4, <1>6 DEF Byte
  <1>10. BigEndianValue(bytes, 0, 1) = bytes[0 + 1]
    BY <1>8, <1>9, BigEndianValueShort
  <1> QED
    BY <1>4, <1>6, <1>7, <1>8, <1>10 DEF code_to_size_t, bytes

LEMMA HexByteWritten ==
  ASSUME NEW b \in Byte
  PROVE  IsHexByte(to_hex_string(<<b>>)) /\ ByteOf(to_hex_string(<<b>>)) = b
  <1> DEFINE d == <<b>>
             h == to_hex_string(d)
  <1>1. d \in Seq(Byte) /\ Len(d) = 1 /\ d[1] = b
    OBVIOUS
  <1> HIDE DEF d
  <1>2. h \in Seq(Nat) /\ Len(h) = 2
    <2>1. to_hex_string(d) \in Seq(Nat) /\ Len(to_hex_string(d)) = 2 * Len(d)
      BY ONLY <1>1, HexShape, Zenon
    <2> QED
      BY <1>1, <2>1
  <1>3. h[1] = HEX_CHARS[1 + (b \div 16)] /\ h[2] = HEX_CHARS[1 + (b % 16)]
    <2>1. 1 \in 1..Len(d) /\ 2 * 1 - 1 = 1 /\ 2 * 1 = 2
      BY <1>1
    <2> QED
      BY <1>1, <2>1, HexShape
  <1> HIDE DEF h
  <1>4. h \in [1..2 -> Nat]
    BY <1>2
  <1> QED
    BY <1>3, <1>4, HexDigit, ByteNibbles DEF IsHexByte, ByteOf, h, d

-----------------------------------------------------------------------------
(* Pairs of characters one behind the other.                               *)
Behind(s, p, n) ==
    [j \in 1..(2 * n + 2) |->
        IF j <= 2 * n THEN s[j] ELSE IF j = 2 * n + 1 THEN p[1] ELSE p[2]]

LEMMA PairBehind ==
  ASSUME NEW n \in Nat, NEW s \in [1..(2 * n) -> Nat], NEW p \in [1..2 -> Nat]
  PROVE  s \o p = Behind(s, p, n)
  <1>1. s \in Seq(Nat) /\ p \in Seq(Nat) /\ Len(s) = 2 * n /\ Len(p) = 2
    <2>1. 2 * n \in Nat /\ 2 \in Nat
      OBVIOUS
    <2>2. s \in Seq(Nat) /\ Len(s) = 2 * n
      BY <2>1, FunctionIsSequence, Zenon
    <2>3. p \in Seq(Nat) /\ Len(p) = 2
      BY <2>1, FunctionIsSequence, Zenon
    <2> QED
      BY <2>2, <2>3
  <1>2. /\ s \o p \in Seq(Nat) /\ Len(s \o p) = 2 * n + 2
        /\ \A j \in 1..(2 * n + 2): (s \o p)[j] = IF j <= 2 * n THEN s[j] ELSE p[j - 2 * n]
    <2>1. /\ s \o p \in Seq(Nat) /\ Len(s \o p) = Len(s) + Len(p)
          /\ \A j \in 1..(Len(s) + Len(p)):
                (s \o p)[j] = IF j <= Len(s) THEN s[j] ELSE p[j - Len(s)]
      BY <1>1, ConcatProperties, Zenon
    <2> QED
      BY ONLY <1>1, <2>1, Zenon
  <1> DEFINE t == s \o p
  <1> HIDE DEF t
  <1>3. t = [j \in 1..(2 * n + 2) |-> t[j]]
    <2>1. t \in Seq(Nat) /\ Len(t) = 2 * n + 2
      BY <1>2 DEF t
    <2>2. t \in [1..Len(t) -> Nat]
      BY <2>1, LenProperties
    <2> QED
      BY <2>1, <2>2, Zenon
  <1>4. \A j \in 1..(2 * n + 2): (j > 2 * n => j = 2 * n + 1 \/ j = 2 * n + 2)
    OBVIOUS
  <1>5. (2 * n + 1) - 2 * n = 1 /\ (2 * n + 2) - 2 * n = 2
    OBVIOUS
  <1>6. \A j \in 1..(2 * n + 2):
            t[j] = IF j <= 2 * n THEN s[j] ELSE IF j = 2 * n + 1 THEN p[1] ELSE p[2]
    BY <1>2, <1>4, <1>5 DEF t
  <1> QED
    BY <1>3, <1>6, Zenon DEF t, Behind

LEMMA PairsFlattened ==
  ASSUME NEW n \in Nat \ {0}, NEW s \in [1..n -> [1..2 -> Nat]]
  PROVE  FlattenSeq(s) = [j \in 1..(2 * n) |->
                             s[(j + 1) \div 2][IF j % 2 = 1 THEN 1 ELSE 2]]
  <1> DEFINE Upto(i) == [j \in 1..(2 * i) |-> s[(j + 1) \div 2][IF j % 2 = 1 THEN 1 ELSE 2]]
  <1>1. ASSUME NEW i \in 1..n
        PROVE  Upto(i) \in [1..(2 * i) -> Nat]
    <2> SUFFICES ASSUME NEW j \in 1..(2 * i)
                 PROVE  s[(j + 1) \div 2][IF j % 2 = 1 THEN 1 ELSE 2] \in Nat
      OBVIOUS
    <2>1. (j + 1) \div 2 \in 1..n
      OBVIOUS
    <2> QED
      BY <2>1
  <1>2. Upto(1) = s[1]
    <2>1. 1 \in 1..n
      OBVIOUS
    <2>2. s[1] \in [1..2 -> Nat]
      BY <2>1
    <2>3. \A j \in 1..2: (j + 1) \div 2 = 1 /\ (IF j % 2 = 1 THEN 1 ELSE 2) = j
      <3>1. \A j \in 1..2: j = 1 \/ j = 2
        OBVIOUS
      <3>2. (1 + 1) \div 2 = 1 /\ 1 % 2 = 1 /\ (2 + 1) \div 2 = 1 /\ 2 % 2 = 0
        OBVIOUS
      <3> QED
        BY <3>1, <3>2
    <2>4. 2 * 1 = 2
      OBVIOUS
    <2>5. Upto(1) = [j \in 1..2 |-> s[1][j]]
      BY <2>3, <2>4
    <2> QED
      BY <2>2, <2>5
  <1>3. ASSUME NEW i \in 2..n PROVE Upto(i) = Upto(i - 1) \o s[i]
    <2>1. i - 1 \in Nat /\ i - 1 \in 1..n /\ i \in 1..n /\ (i - 1) + 1 = i
      OBVIOUS
    <2> DEFINE u == Upto(i - 1)
    <2>2. u \in [1..(2 * (i - 1)) -> Nat] /\ s[i] \in [1..2 -> Nat]
      BY <1>1, <2>1
    <2>3. \A j \in 1..(2 * (i - 1)): u[j] = s[(j + 1) \div 2][IF j % 2 = 1 THEN 1 ELSE 2]
      OBVIOUS
    <2> HIDE DEF u
    <2>4. u \o s[i] = [j \in 1..(2 * i) |-> IF j <= 2 * (i - 1) THEN u[j]
                          ELSE IF j = 2 * (i - 1) + 1 THEN s[i][1] ELSE s[i][2]]
      <3> DEFINE k == i - 1
                 p == s[i]
      <3>1. k \in Nat /\ u \in [1..(2 * k) -> Nat] /\ p \in [1..2 -> Nat]
        BY <2>1, <2>2
      <3> HIDE DEF k, p
      <3>2. u \o p = Behind(u, p, k)
        BY ONLY <3>1, PairBehind, Zenon
      <3>3. 2 * k + 2 = 2 * i
        BY DEF k
      <3>4. Behind(u, p, k) = [j \in 1..(2 * i) |->
                  IF j <= 2 * k THEN u[j] ELSE IF j = 2 * k + 1 THEN p[1] ELSE p[2]]
        BY <3>3, Zenon DEF Behind
      <3> QED
        BY <3>2, <3>4, Zenon DEF k, p
    <2>5. ASSUME NEW j \in 1..(2 * i)
          PROVE  s[(j + 1) \div 2][IF j % 2 = 1 THEN 1 ELSE 2] =
                     IF j <= 2 * (i - 1) THEN u[j]
                     ELSE IF j = 2 * (i - 1) + 1 THEN s[i][1] ELSE s[i][2]
      <3>1. CASE j <= 2 * (i - 1)
        BY <2>3, <3>1
      <3>2. CASE ~(j <= 2 * (i - 1))
        <4>1. j = 2 * i - 1 \/ j = 2 * i
          BY <3>2
        <4>2. 2 * (i - 1) + 1 = 2 * i - 1 /\ 2 * i # 2 * i - 1
          OBVIOUS
        <4>3. ((2 * i - 1) + 1) \div 2 = i /\ (2 * i + 1) \div 2 = i
          OBVIOUS
        <4>4. (2 * i - 1) % 2 = 1 /\ (2 * i) % 2 = 0
          OBVIOUS
        <4> QED
          BY <3>2, <4>1, <4>2, <4>3, <4>4
      <3> QED
        BY <3>1, <3>2
    <2>6. Upto(i) = u \o s[i]
      BY <2>4, <2>5
    <2> QED
      BY <2>6 DEF u
  <1> HIDE DEF Upto
  <1> DEFINE IsFlat(f) == f = [i \in 1..n |-> IF i = 1 THEN s[i] ELSE f[i - 1] \o s[i]]
             w == [i \in 1..n |-> Upto(i)]
  <1>4. IsFlat(w)
    <2>1. ASSUME NEW i \in 1..n PROVE w[i] = IF i = 1 THEN s[i] ELSE w[i - 1] \o s[i]
      <3>1. CASE i = 1
        BY <1>2, <3>1
      <3>2. CASE i # 1
        <4>1. i \in 2..n /\ i - 1 \in 1..n
          BY <3>2
        <4>2. w[i] = Upto(i) /\ w[i - 1] = Upto(i - 1)
          BY <4>1
        <4> QED
          BY <1>3, <3>2, <4>1, <4>2
      <3> QED
        BY <3>1, <3>2
    <2> QED
      BY <2>1
  <1> DEFINE f == CHOOSE f: IsFlat(f)
  <1>5. IsFlat(f)
    BY <1>4, Zenon
  <1>6. s \in Seq([1..2 -> Nat]) /\ Len(s) = n
    BY FunctionIsSequence
  <1>7. FlattenSeq(s) = f[n]
    <2>1. Len(s) # 0
      BY <1>6
    <2> QED
      BY <1>6, <2>1, Zenon DEF FlattenSeq
  <1> HIDE DEF f, w
  <1> DEFINE T == {i \in 1..n: f[i] # Upto(i)}
  <1>8. T = {}
    <2> SUFFICES ASSUME T # {} PROVE FALSE
      OBVIOUS
    <2>1. T \in SUBSET Nat
      OBVIOUS
    <2> HIDE DEF T
    <2>2. PICK m \in T: \A k \in T: m <= k
      BY <2>1, LeastNumber
    <2>3. m \in 1..n /\ f[m] # Upto(m)
      BY <2>2 DEF T
    <2>4. f[m] = IF m = 1 THEN s[m] ELSE f[m - 1] \o s[m]
      BY <1>5, <2>3
    <2>5. m # 1
      BY <1>2, <2>3, <2>4
    <2>6. m - 1 \in 1..n /\ ~(m <= m - 1) /\ m \in 2..n
      BY <2>3, <2>5
    <2>7. f[m - 1] = Upto(m - 1)
      BY <2>2, <2>6 DEF T
    <2> QED
      BY <1>3, <2>3, <2>4, <2>5, <2>6, <2>7
  <1>9. n \in 1..n
    OBVIOUS
  <1> QED
    BY <1>7, <1>8, <1>9 DEF Upto

LEMMA PairsRead ==
  ASSUME NEW n \in Nat \ {0}, NEW s \in [1..n -> [1..2 -> Nat]]
  PROVE  from_hex_string(FlattenSeq(s)) = [i \in 1..n |-> ByteOf(s[i])]
  <1> DEFINE f == FlattenSeq(s)
  <1>1. f = [j \in 1..(2 * n) |-> s[(j + 1) \div 2][IF j % 2 = 1 THEN 1 ELSE 2]]
    BY PairsFlattened
  <1>2. f \in [1..(2 * n) -> Nat]
    <2> SUFFICES ASSUME NEW j \in 1..(2 * n)
                 PROVE  s[(j + 1) \div 2][IF j % 2 = 1 THEN 1 ELSE 2] \in Nat
      BY <1>1
    <2>1. (j + 1) \div 2 \in 1..n
      OBVIOUS
    <2> QED
      BY <2>1
  <1> HIDE DEF f
  <1>3. 2 * n \in Nat /\ (2 * n) \div 2 = n
    OBVIOUS
  <1>4. Len(f) = 2 * n
    BY <1>2, <1>3, FunctionIsSequence, Zenon
  <1>5. ASSUME NEW i \in 1..n PROVE f[2 * i - 1] = s[i][1] /\ f[2 * i] = s[i][2]
    <2>1. 2 * i - 1 \in 1..(2 * n) /\ 2 * i \in 1..(2 * n)
      OBVIOUS
    <2>2. ((2 * i - 1) + 1) \div 2 = i /\ (2 * i + 1) \div 2 = i
      OBVIOUS
    <2>3. (2 * i - 1) % 2 = 1 /\ (2 * i) % 2 = 0
      OBVIOUS
    <2> QED
      BY <1>1, <2>1, <2>2, <2>3
  <1>6. from_hex_string(f) = [i \in 1..n |->
            16 * get_hex_char_val(f[2 * i - 1]) + get_hex_char_val(f[2 * i])]
    BY <1>3, <1>4, Zenon DEF from_hex_string
  <1> QED
    BY <1>5, <1>6, Zenon DEF ByteOf, f

HexBytes == {h \in [1..2 -> Nat]: IsHexByte(h)}

(* The bytes of a command: zero for the key, then those of the slots.      *)
LEMMA CommandRead ==
  ASSUME NEW slots \in [1..17 -> HexBytes]
  PROVE  LET bytes == from_hex_string(FlattenSeq(<<<<48, 48>>>> \o slots))
         IN  /\ Len(bytes) = 18
             /\ \A i \in 1..17: bytes[i + 1] = ByteOf(slots[i])
  <1> DEFINE zero == <<48, 48>>
             s == <<zero>> \o slots
             bytes == from_hex_string(FlattenSeq(s))
  <1>1. zero \in [1..2 -> Nat]
    OBVIOUS
  <1>2. \A h \in HexBytes: h \in [1..2 -> Nat]
    BY DEF HexBytes
  <1> HIDE DEF zero
  <1>3. slots \in [1..17 -> [1..2 -> Nat]] /\ 17 \in Nat
    BY <1>2
  <1>4. slots \in Seq([1..2 -> Nat]) /\ Len(slots) = 17
    <2> DEFINE S == [1..2 -> Nat]
               n == 17
    <2>1. n \in Nat /\ slots \in [1..n -> S]
      BY <1>3
    <2> HIDE DEF S, n
    <2>2. slots \in Seq(S) /\ Len(slots) = n
      BY <2>1, FunctionIsSequence, ZenonT(30)
    <2> QED
      BY <2>2, Zenon DEF S, n
  <1>5. /\ <<zero>> \in Seq([1..2 -> Nat]) /\ Len(<<zero>>) = 1
    BY <1>1
  <1>6. /\ s \in Seq([1..2 -> Nat]) /\ Len(s) = 18
        /\ \A i \in 1..18: s[i] = IF i <= 1 THEN <<zero>>[i] ELSE slots[i - 1]
    <2>1. /\ s \in Seq([1..2 -> Nat]) /\ Len(s) = Len(<<zero>>) + Len(slots)
          /\ \A i \in 1..(Len(<<zero>>) + Len(slots)):
                s[i] = IF i <= Len(<<zero>>) THEN <<zero>>[i] ELSE slots[i - Len(<<zero>>)]
      BY <1>4, <1>5, ConcatProperties, Zenon
    <2>2. Len(<<zero>>) + Len(slots) = 18
      BY <1>4, <1>5
    <2> QED
      BY ONLY <1>5, <2>1, <2>2, Zenon
  <1> HIDE DEF s
  <1>7. s \in [1..18 -> [1..2 -> Nat]] /\ 18 \in Nat \ {0}
    <2>1. s \in [1..Len(s) -> [1..2 -> Nat]]
      BY <1>6, LenProperties
    <2> QED
      BY <1>6, <2>1
  <1>8. bytes = [i \in 1..18 |-> ByteOf(s[i])]
    BY <1>7, PairsRead, Zenon
  <1> HIDE DEF bytes
  <1>9. ASSUME NEW i \in 1..18 PROVE ByteOf(s[i]) \in Int
    <2>1. IsHexByte(s[i])
      <3>1. CASE i = 1
        BY <1>1, <1>6, <3>1 DEF IsHexByte, zero, IsHexChar
      <3>2. CASE i # 1
        <4>1. s[i] = slots[i - 1] /\ i - 1 \in 1..17
          BY <1>6, <3>2
        <4> QED
          BY <4>1 DEF HexBytes
      <3> QED
        BY <3>1, <3>2
    <2> QED
      BY <2>1, HexByteRead DEF Byte
  <1>10. bytes \in [1..18 -> Int] /\ 18 \in Nat
    BY <1>8, <1>9
  <1>11. Len(bytes) = 18
    BY <1>10, FunctionIsSequence
  <1>12. ASSUME NEW i \in 1..17 PROVE bytes[i + 1] = ByteOf(slots[i])
    <2>1. i + 1 \in 1..18 /\ ~(i + 1 <= 1) /\ (i + 1) - 1 = i
      OBVIOUS
    <2> QED
      BY <1>6, <1>8, <2>1
  <1> QED
    BY <1>11, <1>12 DEF bytes, s, zero

-----------------------------------------------------------------------------
(* The options of a product, in their slots.                               *)

Text(o) == IF "default" \in DOMAIN o THEN o.default ELSE to_hex_string(<<o.value \div o.step>>)
IsOption(o) == IsArgument(o.argument) /\ Text(o) \in HexBytes
SlotBytes == [1..17 -> HexBytes]

LEMMA PlaceProperties ==
  ASSUME NEW o, IsOption(o), NEW command \in SlotBytes
  PROVE  /\ Place(o, command) \in SlotBytes
         /\ \A p \in 1..17: Place(o, command)[p] =
               IF o.argument = <<"F", p>> THEN Text(o) ELSE command[p]
  <1> DEFINE a == o.argument
             t == Text(o)
  <1>1. a = <<a[1], a[2]>> /\ (a[1] = "F" => a[2] \in 1..17) /\ t \in HexBytes
    BY DEF IsOption, IsArgument
  <1>2. Place(o, command) = IF a[1] = "F" THEN [command EXCEPT ![a[2]] = t] ELSE command
    BY Zenon DEF Place, Text
  <1> HIDE DEF a, t
  <1>3. CASE a[1] = "F"
    <2> DEFINE next == [command EXCEPT ![a[2]] = t]
    <2>1. /\ next \in SlotBytes
          /\ \A p \in 1..17: next[p] = IF p = a[2] THEN t ELSE command[p]
      BY <1>1, <1>3 DEF SlotBytes
    <2> HIDE DEF next
    <2>2. \A p: a = <<"F", p>> <=> p = a[2]
      BY <1>1, <1>3
    <2>3. Place(o, command) = next
      BY <1>2, <1>3 DEF next
    <2> QED
      BY <2>1, <2>2, <2>3 DEF a, t
  <1>4. CASE a[1] # "F"
    <2>1. \A p: a # <<"F", p>>
      BY <1>4
    <2>2. Place(o, command) = command
      BY <1>2, <1>4
    <2> QED
      BY <2>1, <2>2 DEF a
  <1> QED
    BY <1>3, <1>4

(* The slots after the first k options.                                    *)
\* f holds the slots after the first options, f[k] those after k options.
AreSlots(f, options, command) ==
    /\ f \in [0..Len(options) -> SlotBytes]
    /\ f[0] = command
    /\ \A k \in 1..Len(options): f[k] = Place(options[k], f[k - 1])

LEMMA SlotsDefined ==
  ASSUME NEW options, Len(options) \in Nat, \A k \in 1..Len(options): IsOption(options[k]),
         NEW command \in SlotBytes
  PROVE  \E f: /\ AreSlots(f, options, command)
               /\ Slots(command, options) = f[Len(options)]
  <1> DEFINE n == Len(options)
             step == [k \in 1..n |-> [c \in SlotBytes |-> Place(options[k], c)]]
             IsSlots(f) == f = [k \in 0..n |->
                                   IF k = 0 THEN command ELSE Place(options[k], f[k - 1])]
  <1>1. n \in Nat /\ step \in [1..n -> [SlotBytes -> SlotBytes]]
    BY PlaceProperties
  <1>1a. \A k \in 1..n: \A c \in SlotBytes: step[k][c] = Place(options[k], c)
    OBVIOUS
  <1> HIDE DEF n, step
  <1>2. \E f: IsRecursion(f, command, n, step)
    <2> DEFINE S == SlotBytes
    <2>1. command \in S /\ n \in Nat /\ step \in [1..n -> [S -> S]]
      BY <1>1
    <2> HIDE DEF S
    <2> QED
      BY <2>1, RecursionDefines, Zenon
  <1>3. PICK g: IsRecursion(g, command, n, step)
    BY <1>2
  <1>4. \A k \in 0..n: g[k] \in SlotBytes
    BY <1>1, <1>3, RecursionStays, Zenon
  <1> USE DEF IsRecursion
  <1>5. IsSlots(g)
    <2>1. ASSUME NEW k \in 0..n
          PROVE  g[k] = IF k = 0 THEN command ELSE Place(options[k], g[k - 1])
      <3>1. CASE k = 0
        BY <1>3, <3>1
      <3>2. CASE k # 0
        <4>1. k \in 1..n /\ k - 1 \in 0..n
          BY <1>1, <3>2
        <4>2. g[k] = step[k][g[k - 1]]
          BY <1>3, <3>2
        <4> QED
          BY <1>1a, <1>4, <3>2, <4>1, <4>2
      <3> QED
        BY <3>1, <3>2
    <2>2. g = [k \in 0..n |-> g[k]]
      BY <1>3, Zenon
    <2> QED
      BY <2>1, <2>2, Zenon
  <1> DEFINE f == CHOOSE f: IsSlots(f)
  <1>6. IsSlots(f)
    BY <1>5, Zenon
  <1>7. Slots(command, options) = f[n]
    BY Zenon DEF Slots, n
  <1> HIDE DEF f
  <1>8. f[0] = command /\ \A k \in 1..n: f[k] = Place(options[k], f[k - 1])
    BY <1>1, <1>6
  <1> DEFINE T == {k \in 0..n: f[k] \notin SlotBytes}
  <1>9. T = {}
    <2> SUFFICES ASSUME T # {} PROVE FALSE
      OBVIOUS
    <2>1. T \in SUBSET Nat
      OBVIOUS
    <2> HIDE DEF T
    <2>2. PICK m \in T: \A k \in T: m <= k
      BY <2>1, LeastNumber
    <2>3. m \in 0..n /\ f[m] \notin SlotBytes
      BY <2>2 DEF T
    <2>4. m # 0
      BY <1>8, <2>3
    <2>5. m \in 1..n /\ m - 1 \in 0..n /\ ~(m <= m - 1)
      BY <1>1, <2>3, <2>4
    <2>6. f[m - 1] \in SlotBytes
      BY <2>2, <2>5 DEF T
    <2>7. IsOption(options[m])
      BY <2>5 DEF n
    <2> QED
      BY <1>8, <2>3, <2>5, <2>6, <2>7, PlaceProperties
  <1>10. f \in [0..n -> SlotBytes]
    BY <1>6, <1>9
  <1>11. AreSlots(f, options, command)
    BY <1>8, <1>10, Zenon DEF AreSlots, n
  <1> QED
    BY <1>7, <1>11, Zenon DEF n

(* A slot holds the last option for it, or what it held before.            *)
LEMMA SlotsProperties ==
  ASSUME NEW options, Len(options) \in Nat, \A k \in 1..Len(options): IsOption(options[k]),
         NEW command \in SlotBytes
  PROVE  /\ Slots(command, options) \in SlotBytes
         /\ \A p \in 1..17:
               /\ (\A k \in 1..Len(options): options[k].argument # <<"F", p>>) =>
                     Slots(command, options)[p] = command[p]
               /\ \A k \in 1..Len(options):
                     /\ options[k].argument = <<"F", p>>
                     /\ \A j \in (k + 1)..Len(options): options[j].argument # <<"F", p>>
                     => Slots(command, options)[p] = Text(options[k])
  <1>0. PICK f: AreSlots(f, options, command) /\ Slots(command, options) = f[Len(options)]
    BY SlotsDefined, Zenon
  <1> DEFINE n == Len(options)
             result == Slots(command, options)
             Keeps(p, k) == \A j \in (k + 1)..n: options[j].argument # <<"F", p>>
  <1>1. n \in Nat /\ \A k \in 1..n: IsOption(options[k])
    OBVIOUS
  <1>2. /\ f \in [0..n -> SlotBytes] /\ f[0] = command
        /\ \A k \in 1..n: f[k] = Place(options[k], f[k - 1])
        /\ result = f[n]
    BY <1>0, Zenon DEF AreSlots
  <1> HIDE DEF n, result
  <1>3. ASSUME NEW k \in 1..n, NEW p \in 1..17
        PROVE  /\ options[k].argument = <<"F", p>> => f[k][p] = Text(options[k])
               /\ options[k].argument # <<"F", p>> => f[k][p] = f[k - 1][p]
    <2>1. k - 1 \in 0..n
      BY <1>1
    <2>2. f[k - 1] \in SlotBytes /\ f[k] = Place(options[k], f[k - 1]) /\ IsOption(options[k])
      BY <1>1, <1>2, <2>1
    <2>3. f[k][p] = IF options[k].argument = <<"F", p>> THEN Text(options[k]) ELSE f[k - 1][p]
      <3> DEFINE o == options[k]
                 c == f[k - 1]
      <3>1. IsOption(o) /\ c \in SlotBytes /\ f[k] = Place(o, c)
        BY <2>2
      <3> HIDE DEF o, c
      <3>2. \A q \in 1..17: Place(o, c)[q] = IF o.argument = <<"F", q>> THEN Text(o) ELSE c[q]
        BY <3>1, PlaceProperties
      <3> QED
        BY <3>1, <3>2, Zenon DEF o, c
    <2> QED
      BY <2>3, Zenon
  <1>4. ASSUME NEW p \in 1..17, NEW k \in 0..n, Keeps(p, k) PROVE f[n][p] = f[k][p]
    <2> DEFINE T == {m \in k..n: f[m][p] # f[k][p]}
    <2>1. T = {}
      <3> SUFFICES ASSUME T # {} PROVE FALSE
        OBVIOUS
      <3>1. T \in SUBSET Nat
        BY <1>1
      <3> HIDE DEF T
      <3>2. PICK m \in T: \A j \in T: m <= j
        BY <3>1, LeastNumber
      <3>3. m \in k..n /\ f[m][p] # f[k][p]
        BY <3>2 DEF T
      <3>4. m # k
        BY <3>3
      <3>5. m \in (k + 1)..n /\ m \in 1..n /\ m - 1 \in k..n /\ ~(m <= m - 1)
        BY <1>1, <3>3, <3>4
      <3>6. f[m - 1][p] = f[k][p]
        BY <3>2, <3>5 DEF T
      <3>7. options[m].argument # <<"F", p>>
        BY <1>4, <3>5, Zenon
      <3> QED
        BY <1>3, <3>3, <3>5, <3>6, <3>7, Zenon
    <2>2. n \in k..n
      BY <1>1
    <2> QED
      BY <2>1, <2>2
  <1>5. result \in SlotBytes
    <2>1. n \in 0..n
      BY <1>1
    <2> QED
      BY <1>2, <2>1
  <1>6. ASSUME NEW p \in 1..17, \A k \in 1..n: options[k].argument # <<"F", p>>
        PROVE  result[p] = command[p]
    <2>1. 0 \in 0..n /\ 0 + 1 = 1
      BY <1>1
    <2>2. Keeps(p, 0)
      BY <1>6, <2>1, Zenon
    <2>3. f[n][p] = f[0][p]
      BY <1>4, <2>1, <2>2
    <2> QED
      BY <1>2, <2>3
  <1>7. ASSUME NEW p \in 1..17, NEW k \in 1..n, options[k].argument = <<"F", p>>, Keeps(p, k)
        PROVE  result[p] = Text(options[k])
    <2>1. k \in 0..n
      BY <1>1
    <2>2. f[n][p] = f[k][p]
      BY <1>4, <1>7, <2>1
    <2>3. f[k][p] = Text(options[k])
      BY <1>3, <1>7, Zenon
    <2> QED
      BY <1>2, <2>2, <2>3
  <1> QED
    BY <1>5, <1>6, <1>7 DEF n, result

(* An option as it is loaded stands for what the file says of it.          *)
Stands(o, l) == IsOption(l) /\ l.argument = o.attr.Argument /\ ByteOf(Text(l)) = OptionValue(o)
Match(os, ls) == Len(ls) = Len(os) /\ \A i \in 1..Len(os): Stands(os[i], ls[i])

LEMMA ItemsStand ==
  ASSUME NEW o, IsItems(o), IsArgument(o.attr.Argument)
  PROVE  Stands(o, load_items_option(o))
  <1> DEFINE l == load_items_option(o)
  <1>1. l.argument = o.attr.Argument /\ l.default = o.attr.Default /\ "default" \in DOMAIN l
    BY DEF load_items_option
  <1>2. "Default" \in DOMAIN o.attr /\ IsHexByte(o.attr.Default)
    BY DEF IsItems
  <1> HIDE DEF l
  <1>3. Text(l) = o.attr.Default
    BY <1>1, Zenon DEF Text
  <1>4. Text(l) \in HexBytes
    BY <1>2, <1>3 DEF HexBytes, IsHexByte
  <1>5. OptionValue(o) = ByteOf(o.attr.Default)
    BY <1>2, HexByteRead, Zenon DEF OptionValue
  <1> QED
    BY <1>1, <1>3, <1>4, <1>5 DEF Stands, IsOption, l

LEMMA Quotient ==
  ASSUME NEW value \in Byte, NEW step \in Byte \ {0}
  PROVE  value \div step \in Byte
  <1>1. value \in Int /\ 0 <= value /\ value <= 255 /\ step \in Int /\ 1 <= step /\ step <= 255
    BY DEF Byte
  <1> DEFINE q == value \div step
  <1>2. q \in Int /\ step * q <= value /\ value < step * q + step
    BY <1>1
  <1> HIDE DEF q
  <1>3. 0 <= q /\ q <= value
    <2>1. q < 0 => step * q + step <= 0
      <3> SUFFICES ASSUME q < 0 PROVE step * q + step <= 0
        OBVIOUS
      <3>1. q + 1 <= 0 /\ q + 1 \in Int
        BY <1>2
      <3>2. step * (q + 1) <= 0
        BY <1>1, <3>1
      <3> QED
        BY <1>1, <1>2, <3>2
    <2>2. q > value => step * q > value
      BY <1>1, <1>2
    <2> QED
      BY <1>1, <1>2, <2>1, <2>2
  <1> QED
    BY <1>1, <1>2, <1>3 DEF Byte, q

LEMMA MinMaxStand ==
  ASSUME NEW o, IsMinMax(o), IsArgument(o.attr.Argument)
  PROVE  Stands(o, load_min_max_option(o))
  <1> DEFINE l == load_min_max_option(o)
             value == o.attr.Value % 256
             step == o.attr.Step % 256
             q == value \div step
  <1>1. /\ "Value" \in DOMAIN o.attr /\ "Step" \in DOMAIN o.attr /\ "Default" \notin DOMAIN o.attr
        /\ o.attr.Value \in Int /\ o.attr.Step \in Int /\ step # 0
    BY DEF IsMinMax
  <1>2. q \in Byte
    <2>1. value \in Byte /\ step \in Byte \ {0}
      BY <1>1, SMT DEF Byte
    <2> HIDE DEF value, step
    <2> QED
      BY <2>1, Quotient
  <1>3. Uint8Attribute(o, "Value") = value /\ Uint8Attribute(o, "Step") = step
    BY <1>1, Zenon DEF Uint8Attribute
  <1>4. /\ l.argument = o.attr.Argument /\ l.value = value /\ l.step = step
        /\ "default" \notin DOMAIN l
    BY <1>3 DEF load_min_max_option
  <1> HIDE DEF l
  <1>5. Text(l) = to_hex_string(<<q>>)
    BY <1>4, Zenon DEF Text
  <1> HIDE DEF q
  <1>6. IsHexByte(Text(l)) /\ ByteOf(Text(l)) = q
    BY <1>2, <1>5, HexByteWritten
  <1>7. OptionValue(o) = q
    BY <1>1, Zenon DEF OptionValue, q
  <1> QED
    BY <1>4, <1>6, <1>7 DEF Stands, IsOption, HexBytes, IsHexByte, l

LEMMA MatchBehind ==
  ASSUME NEW A, NEW B, NEW os1 \in Seq(A), NEW os2 \in Seq(A), NEW ls1 \in Seq(B), NEW ls2 \in Seq(B),
         Match(os1, ls1), Match(os2, ls2)
  PROVE  os1 \o os2 \in Seq(A) /\ ls1 \o ls2 \in Seq(B) /\ Match(os1 \o os2, ls1 \o ls2)
  <1> DEFINE os == os1 \o os2
             ls == ls1 \o ls2
             m == Len(os1)
             n == Len(os2)
  <1>1. /\ os \in Seq(A) /\ Len(os) = m + n
        /\ \A i \in 1..(m + n): os[i] = IF i <= m THEN os1[i] ELSE os2[i - m]
    BY ConcatProperties, Zenon
  <1>2. Len(ls1) = m /\ Len(ls2) = n
    BY DEF Match
  <1>3. /\ ls \in Seq(B) /\ Len(ls) = m + n
        /\ \A i \in 1..(m + n): ls[i] = IF i <= m THEN ls1[i] ELSE ls2[i - m]
    <2>1. /\ ls \in Seq(B) /\ Len(ls) = Len(ls1) + Len(ls2)
          /\ \A i \in 1..(Len(ls1) + Len(ls2)): ls[i] = IF i <= Len(ls1) THEN ls1[i] ELSE ls2[i - Len(ls1)]
      BY ConcatProperties, Zenon
    <2> QED
      BY ONLY <1>2, <2>1, Zenon
  <1>4. m \in Nat /\ n \in Nat
    BY LenProperties
  <1>5. (\A i \in 1..m: Stands(os1[i], ls1[i])) /\ (\A i \in 1..n: Stands(os2[i], ls2[i]))
    BY DEF Match
  <1> HIDE DEF os, ls, m, n
  <1>6. ASSUME NEW i \in 1..(m + n) PROVE Stands(os[i], ls[i])
    <2>1. CASE i <= m
      <3>1. i \in 1..m
        BY <1>4, <2>1
      <3> QED
        BY <1>1, <1>3, <1>5, <2>1, <3>1
    <2>2. CASE ~(i <= m)
      <3>1. i - m \in 1..n
        BY <1>4, <2>2
      <3> QED
        BY <1>1, <1>3, <1>5, <2>2, <3>1
    <2> QED
      BY <2>1, <2>2
  <1> QED
    BY <1>1, <1>3, <1>6 DEF Match, os, ls

LEMMA OptionsMatch ==
  ASSUME NEW e, IsProduct(e)
  PROVE  /\ Len(Options(e)) \in Nat /\ DOMAIN Options(e) = 1..Len(Options(e))
         /\ Match(Options(e), load_product(e).options)
  <1> DEFINE tags == ItemsTags \cup MinMaxTags
             C(tag) == ChildElements(e, tag)
             O == {C(tag)[1]: tag \in tags}
             L == {load_items_option(o): o \in O} \cup {load_min_max_option(o): o \in O}
             items(tag) == IF C(tag) = <<>> THEN <<>> ELSE <<load_items_option(C(tag)[1])>>
             minMax(tag) == IF C(tag) = <<>> THEN <<>> ELSE <<load_min_max_option(C(tag)[1])>>
  <1> HIDE DEF C
  <1>1. ASSUME NEW tag \in tags, C(tag) # <<>>
        PROVE  /\ C(tag) = <<C(tag)[1]>> /\ IsArgument(C(tag)[1].attr.Argument)
               /\ tag \in ItemsTags => IsItems(C(tag)[1])
               /\ tag \notin ItemsTags => IsMinMax(C(tag)[1])
    BY <1>1 DEF IsProduct, C
  <1>2. ASSUME NEW o, NEW l, Stands(o, l) PROVE Match(<<o>>, <<l>>)
    BY <1>2 DEF Match
  <1>3. Match(<<>>, <<>>)
    BY DEF Match
  <1>4. ASSUME NEW tag \in tags
        PROVE  /\ C(tag) \in Seq(O)
               /\ tag \in ItemsTags => items(tag) \in Seq(L) /\ Match(C(tag), items(tag))
               /\ tag \notin ItemsTags => minMax(tag) \in Seq(L) /\ Match(C(tag), minMax(tag))
    <2>1. CASE C(tag) = <<>>
      BY <1>3, <2>1
    <2>2. CASE C(tag) # <<>>
      <3> DEFINE o == C(tag)[1]
      <3>1. /\ C(tag) = <<o>> /\ IsArgument(o.attr.Argument)
            /\ tag \in ItemsTags => IsItems(o)
            /\ tag \notin ItemsTags => IsMinMax(o)
        BY <1>1, <2>2
      <3>2. o \in O
        OBVIOUS
      <3>3. load_items_option(o) \in L /\ load_min_max_option(o) \in L
        BY <3>2
      <3>4. items(tag) = <<load_items_option(o)>> /\ minMax(tag) = <<load_min_max_option(o)>>
        BY <2>2, Zenon
      <3> HIDE DEF o, O, L, items, minMax
      <3>5. tag \in ItemsTags => Match(<<o>>, <<load_items_option(o)>>)
        BY <1>2, <3>1, ItemsStand
      <3>6. tag \notin ItemsTags => Match(<<o>>, <<load_min_max_option(o)>>)
        BY <1>2, <3>1, MinMaxStand
      <3>7. /\ <<o>> \in Seq(O) /\ <<load_items_option(o)>> \in Seq(L)
            /\ <<load_min_max_option(o)>> \in Seq(L)
        BY <3>2, <3>3
      <3> QED
        BY <3>1, <3>4, <3>5, <3>6, <3>7
    <2> QED
      BY <2>1, <2>2
  <1> DEFINE c1 == C("COFFEE_STRENGTH")  c2 == C("TEMPERATURE")
             c3 == C("WATER_AMOUNT")     c4 == C("MILK_FOAM_AMOUNT")
             l1 == items("COFFEE_STRENGTH")  l2 == items("TEMPERATURE")
             l3 == minMax("WATER_AMOUNT")    l4 == minMax("MILK_FOAM_AMOUNT")
  <1>5. /\ "COFFEE_STRENGTH" \in tags /\ "TEMPERATURE" \in tags
        /\ "WATER_AMOUNT" \in tags /\ "MILK_FOAM_AMOUNT" \in tags
        /\ "COFFEE_STRENGTH" \in ItemsTags /\ "TEMPERATURE" \in ItemsTags
        /\ "WATER_AMOUNT" \notin ItemsTags /\ "MILK_FOAM_AMOUNT" \notin ItemsTags
    BY DEF ItemsTags, MinMaxTags
  <1> HIDE DEF tags, O, L, items, minMax
  <1>6. /\ c1 \in Seq(O) /\ l1 \in Seq(L) /\ Match(c1, l1)
        /\ c2 \in Seq(O) /\ l2 \in Seq(L) /\ Match(c2, l2)
        /\ c3 \in Seq(O) /\ l3 \in Seq(L) /\ Match(c3, l3)
        /\ c4 \in Seq(O) /\ l4 \in Seq(L) /\ Match(c4, l4)
    BY <1>4, <1>5
  <1>7. Options(e) = c1 \o c2 \o c3 \o c4
    BY Zenon DEF Options, C
  <1>8. load_product(e).options = l1 \o l2 \o l3 \o l4
    BY DEF load_product, items, minMax, C, FirstChildElement
  <1> HIDE DEF c1, c2, c3, c4, l1, l2, l3, l4
  <1>9. c1 \o c2 \in Seq(O) /\ l1 \o l2 \in Seq(L) /\ Match(c1 \o c2, l1 \o l2)
    BY <1>6, MatchBehind
  <1> DEFINE c12 == c1 \o c2
             l12 == l1 \o l2
  <1>10. c12 \in Seq(O) /\ l12 \in Seq(L) /\ Match(c12, l12)
    BY <1>9
  <1> HIDE DEF c12, l12
  <1>11. c12 \o c3 \in Seq(O) /\ l12 \o l3 \in Seq(L) /\ Match(c12 \o c3, l12 \o l3)
    BY <1>6, <1>10, MatchBehind
  <1> DEFINE c123 == c12 \o c3
             l123 == l12 \o l3
  <1>12. c123 \in Seq(O) /\ l123 \in Seq(L) /\ Match(c123, l123)
    BY <1>11
  <1> HIDE DEF c123, l123
  <1>13. c123 \o c4 \in Seq(O) /\ Match(c123 \o c4, l123 \o l4)
    BY <1>6, <1>12, MatchBehind
  <1>14. Options(e) = c123 \o c4 /\ load_product(e).options = l123 \o l4
    BY <1>7, <1>8, Zenon DEF c12, l12, c123, l123
  <1>15. Options(e) \in Seq(O)
    BY <1>13, <1>14
  <1> QED
    BY <1>13, <1>14, <1>15, LenProperties

LEMMA MaxProperties ==
  ASSUME NEW n \in Nat, NEW S \in SUBSET (1..n), S # {}
  PROVE  Max(S) \in S /\ \A y \in S: Max(S) >= y
  <1> DEFINE T == {n - x: x \in S}
  <1>1. T \in SUBSET Nat /\ T # {}
    <2>1. \A x \in S: n - x \in Nat
      OBVIOUS
    <2> QED
      BY <2>1
  <1> HIDE DEF T
  <1>2. PICK t \in T: \A y \in T: t <= y
    BY <1>1, LeastNumber
  <1>3. PICK x \in S: t = n - x
    BY <1>2 DEF T
  <1>4. ASSUME NEW y \in S PROVE x >= y
    <2>1. n - y \in T
      BY DEF T
    <2>2. n - x <= n - y
      BY <1>2, <1>3, <2>1
    <2> QED
      BY <2>2
  <1> QED
    BY <1>4, Zenon DEF Max

(* The bytes of an order are what the machine file says, whatever it lists.*)
LEMMA OrderRead ==
  ASSUME NEW e, IsProduct(e)
  PROVE  LET bytes == from_hex_string(to_bt_command(load_product(e)))
         IN  /\ Len(bytes) = 18
             /\ bytes[2] = code_to_size_t(from_hex_string(e.attr.Code))
             /\ \A n \in 2..17: bytes[n + 1] =
                   IF OptionsFor(e, n) = {} THEN 0
                   ELSE OptionValue(Options(e)[Max(OptionsFor(e, n))])
  <1> DEFINE ls == load_product(e).options
             os == Options(e)
             m == Len(os)
             code == e.attr.Code
             slots == Slots(NoSlots, ls)
             command == [slots EXCEPT ![1] = code]
             bytes == from_hex_string(FlattenSeq(<<<<48, 48>>>> \o command))
  <1>1. /\ m \in Nat /\ DOMAIN os = 1..m /\ Len(ls) = m
        /\ \A i \in 1..m: Stands(os[i], ls[i])
    BY OptionsMatch DEF Match
  <1>2. bytes = from_hex_string(to_bt_command(load_product(e)))
    BY DEF to_bt_command, load_product
  <1>3. code \in HexBytes
    BY DEF IsProduct, HexBytes, IsHexByte
  <1> HIDE DEF ls, os, m
  <1>4. Len(ls) \in Nat /\ \A k \in 1..Len(ls): IsOption(ls[k])
    BY <1>1 DEF Stands
  <1>5. NoSlots \in SlotBytes
    <2>1. <<48, 48>> \in HexBytes
      BY DEF HexBytes, IsHexByte, IsHexChar
    <2> QED
      BY <2>1 DEF NoSlots, SlotBytes
  <1>6. ByteOf(<<48, 48>>) = 0
    BY DEF ByteOf, get_hex_char_val
  <1>7. /\ slots \in SlotBytes
        /\ \A p \in 1..17:
              /\ (\A k \in 1..Len(ls): ls[k].argument # <<"F", p>>) => slots[p] = NoSlots[p]
              /\ \A k \in 1..Len(ls):
                    /\ ls[k].argument = <<"F", p>>
                    /\ \A j \in (k + 1)..Len(ls): ls[j].argument # <<"F", p>>
                    => slots[p] = Text(ls[k])
    BY <1>4, <1>5, SlotsProperties
  <1> HIDE DEF slots, code
  <1>8. command \in [1..17 -> HexBytes] /\ command[1] = code /\ \A p \in 2..17: command[p] = slots[p]
    BY <1>3, <1>7 DEF SlotBytes
  <1> HIDE DEF command
  <1>9. Len(bytes) = 18 /\ \A i \in 1..17: bytes[i + 1] = ByteOf(command[i])
    BY <1>8, CommandRead
  <1> HIDE DEF bytes
  <1>10. bytes[2] = code_to_size_t(from_hex_string(code))
    <2>1. 1 \in 1..17 /\ 1 + 1 = 2
      OBVIOUS
    <2>2. bytes[2] = ByteOf(code)
      BY <1>8, <1>9, <2>1
    <2>3. IsHexByte(code)
      BY <1>3 DEF HexBytes
    <2> QED
      BY <2>2, <2>3, HexByteRead
  <1>11. ASSUME NEW n \in 2..17
         PROVE  bytes[n + 1] = IF OptionsFor(e, n) = {} THEN 0
                               ELSE OptionValue(os[Max(OptionsFor(e, n))])
    <2> DEFINE S == OptionsFor(e, n)
               k == Max(S)
    <2>1. n \in 1..17 /\ bytes[n + 1] = ByteOf(slots[n])
      BY <1>8, <1>9
    <2>2. S = {i \in 1..m: os[i].attr.Argument = <<"F", n>>}
      BY <1>1 DEF OptionsFor, os
    <2>3. \A i \in 1..m: ls[i].argument = os[i].attr.Argument /\ ByteOf(Text(ls[i])) = OptionValue(os[i])
      BY <1>1 DEF Stands
    <2> HIDE DEF S
    <2>4. CASE S = {}
      <3>1. \A j \in 1..Len(ls): ls[j].argument # <<"F", n>>
        BY <1>1, <2>2, <2>3, <2>4
      <3>2. slots[n] = NoSlots[n]
        BY <1>7, <2>1, <3>1
      <3>3. NoSlots[n] = <<48, 48>>
        BY <2>1 DEF NoSlots
      <3> QED
        BY <1>6, <2>1, <2>4, <3>2, <3>3 DEF S
    <2>5. CASE S # {}
      <3>1. k \in S /\ \A y \in S: k >= y
        BY <1>1, <2>2, <2>5, MaxProperties
      <3> HIDE DEF k
      <3>2. k \in 1..m /\ ls[k].argument = <<"F", n>>
        BY <2>2, <2>3, <3>1
      <3>3. ASSUME NEW j \in (k + 1)..m PROVE ls[j].argument # <<"F", n>>
        <4>1. j \in 1..m /\ ~(k >= j)
          BY <1>1, <3>2
        <4>2. j \notin S
          BY <3>1, <4>1
        <4> QED
          BY <2>2, <2>3, <4>1, <4>2
      <3>4. slots[n] = Text(ls[k])
        BY <1>1, <1>7, <2>1, <3>2, <3>3, Zenon
      <3> QED
        BY <2>1, <2>3, <2>5, <3>2, <3>4 DEF S, k
    <2> QED
      BY <2>4, <2>5
  <1> QED
    BY <1>2, <1>9, <1>10, <1>11 DEF os, code

-----------------------------------------------------------------------------
(* The invariant.                                                          *)

StatusIsBits == status \in SUBSET (0..(8 * StatusLength - 1))

(* The library talks to the coffee maker it knows.                         *)
MakerIsKnown == joe # None \/ air # Silence \/ received # Silence =>
    maker \in Makers /\ manData = maker.id

(* The machine file was one that can be loaded, and the about data are     *)
(* those of a coffee maker.                                                *)
KnownOfMaker ==
    /\ joe # None => IsJoe(joe)
    /\ introduced # None =>
          introduced \in Makers /\ aboutData = AboutData(AboutMachine(introduced))

(* What is on its way is what was asked for, with the key and encoded, and *)
(* what arrived is the same decoded.                                       *)
InFlight == air # Silence =>
    asked \in Asked /\ air = [asked EXCEPT !.data = write(asked, manData.key)]

Received == Arrived =>
    asked \in Asked /\ received = [asked EXCEPT !.data = Keyed(asked, manData.key)]

(* While statistics are waited for, nothing else was asked for.            *)
Asking == reading =>
    /\ statParserMode \in StatParseMode /\ asked = request_statistics(statParserMode)
    /\ air # Silence \/ received # Silence

Talk ==
    /\ StatusIsBits /\ MakerIsKnown /\ KnownOfMaker /\ InFlight /\ Received /\ Asking
    /\ AlertsAreReported
    /\ DOMAIN stats = StatParseMode /\ StatisticsAreMakers

LEMMA TalkInit == Init => Talk
  <1> SUFFICES ASSUME Init PROVE Talk
    OBVIOUS
  <1>1. /\ joe = None /\ air = Silence /\ received = Silence /\ status = {} /\ reading = FALSE
        /\ introduced = None
        /\ stats = [m \in StatParseMode |-> <<>>]
    BY DEF Init, Unread
  <1>2. StatusIsBits /\ MakerIsKnown /\ KnownOfMaker /\ AlertsAreReported /\ StatisticsAreMakers
    BY <1>1 DEF StatusIsBits, MakerIsKnown, KnownOfMaker, AlertsAreReported, StatisticsAreMakers
  <1>3. InFlight /\ Received /\ Asking
    BY <1>1 DEF InFlight, Received, Arrived, Asking
  <1> QED
    BY <1>1, <1>2, <1>3 DEF Talk

(* A step that leaves the statistics and the coffee maker alone.           *)
LEMMA StatisticsKept ==
  ASSUME StatisticsAreMakers, DOMAIN stats = StatParseMode, UNCHANGED <<joe, maker, stats>>
  PROVE  DOMAIN stats' = StatParseMode /\ StatisticsAreMakers'
  <1>1. joe' = joe /\ maker' = maker /\ stats' = stats
    OBVIOUS
  <1>2. Selected' = Selected
    BY <1>1 DEF Selected
  <1>3. StatisticsAreMakers'
    BY <1>1, <1>2 DEF StatisticsAreMakers
  <1> QED
    BY <1>1, <1>3

LEMMA KnownKey ==
  ASSUME MakerIsKnown, joe # None \/ air # Silence \/ received # Silence
  PROVE  maker \in Maker /\ manData.key \in Byte /\ manData.key = maker.id.key
  <1>1. maker \in Maker /\ manData = maker.id
    BY MakersAssumption DEF MakerIsKnown
  <1>2. maker.id \in Identity
    BY <1>1 DEF Maker
  <1> QED
    BY <1>1, <1>2 DEF Identity

(* What the coffee maker encodes is what the library decodes.              *)
LEMMA AnswerDecodes ==
  ASSUME MakerIsKnown, joe # None \/ air # Silence \/ received # Silence, NEW data \in Seq(Byte)
  PROVE  Answer(data) = data
  <1>1. manData.key \in Byte /\ manData.key = maker.id.key
    BY KnownKey
  <1> QED
    BY <1>1, EncDecBytesInverse DEF Answer

LEMMA SentIsNotSilence ==
  ASSUME NEW r \in Asked, NEW data PROVE [r EXCEPT !.data = data] # Silence
  <1>1. r.characteristic # "none" /\ [r EXCEPT !.data = data].characteristic = r.characteristic
    BY DEF Asked
  <1>2. Silence.characteristic = "none"
    BY DEF Silence, Request
  <1> QED
    BY <1>1, <1>2

(* A request that is sent keeps the invariant.                             *)
LEMMA SendStep ==
  ASSUME Talk, NEW r \in Asked, MayAsk, Send(r, manData.key),
         UNCHANGED <<external, manData, aboutData, joe, alerts, stats, reported, introduced>>,
         reading' => statParserMode' \in StatParseMode /\ r = request_statistics(statParserMode')
  PROVE  Talk'
  <1> USE DEF external
  <1>1. joe # None /\ maker \in Makers /\ manData = maker.id
    BY DEF MayAsk, Talk, MakerIsKnown
  <1>2. air' # Silence /\ asked' = r /\ air' = [asked' EXCEPT !.data = write(asked', manData'.key)]
    BY SentIsNotSilence DEF Send
  <1>3. StatusIsBits' /\ MakerIsKnown' /\ KnownOfMaker'
    BY <1>1 DEF StatusIsBits, MakerIsKnown, KnownOfMaker, Talk
  <1>4. InFlight' /\ Received' /\ Asking'
    BY <1>2 DEF InFlight, Received, Arrived, Asking
  <1>5. AlertsAreReported' /\ DOMAIN stats' = StatParseMode /\ StatisticsAreMakers'
    BY StatisticsKept DEF Talk, AlertsAreReported
  <1> QED
    BY <1>3, <1>4, <1>5 DEF Talk

LEMMA ConnectStep == ASSUME Talk, NEW m \in Makers, Connect(m) PROVE Talk'
  <1>1. m \in Maker /\ m.id \in Identity
    BY MakersAssumption DEF Maker
  <1>2. /\ maker' = m /\ manData' = m.id /\ m.id.articleNumber \in DOMAIN Machines
        /\ joe' = load_joe(Machines[m.id.articleNumber])
        /\ \/ aboutData' = AboutData(AboutMachine(m)) /\ introduced' = m
           \/ UNCHANGED <<aboutData, introduced>>
    BY <1>1, AdvertisementRead DEF Connect
  <1>3. /\ alerts' = {} /\ reported' = {} /\ stats' = [mode \in StatParseMode |-> <<>>]
        /\ reading' = FALSE /\ status' = status
    BY DEF Connect, Unread, Talk
  <1>4. stay_in_ble \in Asked
    BY RequestsAreAsked DEF Requests
  <1>5. /\ air' # Silence /\ asked' = stay_in_ble
        /\ air' = [asked' EXCEPT !.data = write(asked', manData'.key)]
    BY <1>4, SentIsNotSilence DEF Connect, Send
  <1>6. StatusIsBits' /\ MakerIsKnown'
    BY <1>2, <1>3 DEF StatusIsBits, MakerIsKnown, Talk
  <1>7. KnownOfMaker'
    BY <1>2, MachinesAssumption DEF KnownOfMaker, Talk
  <1>8. InFlight' /\ Received' /\ Asking'
    BY <1>3, <1>4, <1>5 DEF InFlight, Received, Arrived, Asking
  <1>9. AlertsAreReported'
    BY <1>3 DEF AlertsAreReported
  <1>10. DOMAIN stats' = StatParseMode /\ \A mode \in StatParseMode: stats'[mode] = <<>>
    BY <1>3
  <1>11. StatisticsAreMakers'
    BY <1>10 DEF StatisticsAreMakers, StatParseMode
  <1> QED
    BY <1>10, <1>11, <1>6, <1>7, <1>8, <1>9 DEF Talk

LEMMA ReceiveStep == ASSUME Talk, Receive PROVE Talk'
  <1>1. /\ air # Silence /\ air' = Silence
        /\ received' = [air EXCEPT !.data = encDecBytes(air.data, maker.id.key)]
        /\ UNCHANGED <<maker, status, asked, reading, fields>>
    BY DEF Receive
  <1> USE DEF fields
  <1>2. asked \in Asked /\ air = [asked EXCEPT !.data = write(asked, manData.key)]
    BY <1>1 DEF Talk, InFlight
  <1>3. manData.key \in Byte /\ manData.key = maker.id.key
    BY <1>1, KnownKey DEF Talk
  <1>4. air.data = write(asked, manData.key)
    BY <1>2 DEF Asked
  <1>5. encDecBytes(air.data, maker.id.key) = Keyed(asked, manData.key)
    BY <1>2, <1>3, <1>4, WriteDecodes
  <1>6. received' = [asked EXCEPT !.data = Keyed(asked, manData.key)]
    BY <1>1, <1>2, <1>5 DEF Asked
  <1>7. received' # Silence
    BY <1>2, <1>6, SentIsNotSilence
  <1>8. StatusIsBits' /\ MakerIsKnown' /\ KnownOfMaker'
    BY <1>1 DEF Talk, StatusIsBits, MakerIsKnown, KnownOfMaker
  <1>9. InFlight' /\ Received' /\ Asking'
    BY <1>1, <1>2, <1>6, <1>7 DEF InFlight, Received, Asking, Talk
  <1>10. AlertsAreReported' /\ DOMAIN stats' = StatParseMode /\ StatisticsAreMakers'
    BY <1>1, StatisticsKept DEF Talk, AlertsAreReported
  <1> QED
    BY <1>8, <1>9, <1>10 DEF Talk

LEMMA StatusChangesStep == ASSUME Talk, StatusChanges PROVE Talk'
  <1>1. status' \in Statuses /\ UNCHANGED <<maker, received, air, asked, reading, fields>>
    BY DEF StatusChanges
  <1>2. StatusIsBits'
    BY <1>1, StatusesAssumption DEF StatusIsBits
  <1>3. DOMAIN stats' = StatParseMode /\ StatisticsAreMakers'
    BY <1>1, StatisticsKept DEF Talk, fields
  <1> QED
    BY <1>1, <1>2, <1>3 DEF Talk, MakerIsKnown, KnownOfMaker, InFlight, Received, Arrived, Asking,
       fields, AlertsAreReported

LEMMA ClientReadsStep ==
  ASSUME Talk,
         NEW c \in {"ABOUT_MACHINE", "MACHINE_STATUS", "PRODUCT_PROGRESS", "UART_RX"},
         ClientReads(c)
  PROVE  Talk'
  <1>1. /\ joe # None /\ UNCHANGED <<external, air, asked, reading, manData, joe, statParserMode>>
        /\ on_characteristic_read(c, Values[c])
        /\ reported' = IF c = "MACHINE_STATUS" THEN status ELSE reported
        /\ introduced' = IF c = "ABOUT_MACHINE" THEN maker ELSE introduced
    BY DEF ClientReads, on_characteristic_read
  <1> USE DEF external
  <1>2. stats' = stats
    <2>1. c # "STATISTICS_DATA"
      OBVIOUS
    <2> QED
      BY <1>1, <2>1 DEF on_characteristic_read
  <1>3. introduced' # None =>
           introduced' \in Makers /\ aboutData' = AboutData(AboutMachine(introduced'))
    <2>1. CASE c = "ABOUT_MACHINE"
      <3>1. Values[c] = AboutMachine(maker)
        BY <2>1 DEF Values
      <3>2. maker \in Makers
        BY <1>1 DEF Talk, MakerIsKnown
      <3> QED
        BY <1>1, <2>1, <3>1, <3>2 DEF on_characteristic_read
    <2>2. CASE c # "ABOUT_MACHINE"
      BY <1>1, <2>2 DEF on_characteristic_read, Talk, KnownOfMaker
    <2> QED
      BY <2>1, <2>2
  <1>4. alerts' = {a \in joe.alerts: a.bit \in reported'}
    <2>1. CASE c = "MACHINE_STATUS"
      <3>1. Values[c] = Answer(MachineStatus)
        BY <2>1 DEF Values
      <3>2. maker.id.key \in Byte /\ \A a \in joe.alerts: a.bit \in Nat
        BY <1>1, KnownKey DEF Talk, KnownOfMaker, IsJoe
      <3>3. /\ MachineStatus \in Seq(Byte)
            /\ NewAlerts(MachineStatus, joe.alerts) = {a \in joe.alerts: a.bit \in status}
        BY <3>2, StatusRead DEF Talk, StatusIsBits
      <3>4. Answer(MachineStatus) = MachineStatus
        BY <1>1, <3>3, AnswerDecodes DEF Talk
      <3> QED
        BY <1>1, <2>1, <3>1, <3>3, <3>4 DEF on_characteristic_read
    <2>2. CASE c # "MACHINE_STATUS"
      BY <1>1, <2>2 DEF on_characteristic_read, Talk, AlertsAreReported
    <2> QED
      BY <2>1, <2>2
  <1>5. StatusIsBits' /\ MakerIsKnown' /\ KnownOfMaker'
    BY <1>1, <1>3 DEF Talk, StatusIsBits, MakerIsKnown, KnownOfMaker
  <1>6. InFlight' /\ Received' /\ Asking'
    BY <1>1 DEF InFlight, Received, Arrived, Asking, Talk
  <1>7. AlertsAreReported' /\ DOMAIN stats' = StatParseMode /\ StatisticsAreMakers'
    BY <1>1, <1>2, <1>4, StatisticsKept DEF Talk, AlertsAreReported
  <1> QED
    BY <1>5, <1>6, <1>7 DEF Talk

(* The coffee maker answers with the statistics that were asked for.       *)
LEMMA StatisticsOfMode ==
  ASSUME Talk, reading, air = Silence
  PROVE  /\ statParserMode \in StatParseMode
         /\ statParserMode = "PRODUCT_COUNTERS" => StatisticsData = BigEndian(Selected, 3)
         /\ statParserMode = "MAINTENANCE_COUNTER" => StatisticsData = BigEndian(maker.counters, 2)
         /\ statParserMode = "MAINTENANCE_PERCENT" => StatisticsData = maker.percentages
  <1> DEFINE mode == statParserMode
             d == build_stats_cmd(mode)
  <1>1. mode \in StatParseMode /\ asked = request_statistics(mode) /\ Arrived
    BY DEF Talk, Asking, Arrived
  <1>2. asked.data = d /\ asked.overrideKey = TRUE
    BY <1>1 DEF request_statistics, Request
  <1>3. asked \in Asked /\ received = [asked EXCEPT !.data = Keyed(asked, manData.key)]
    BY <1>1 DEF Talk, Received
  <1>4. manData.key \in Byte /\ manData.key = maker.id.key
    BY <1>1, KnownKey DEF Talk, Arrived
  <1>5. received.data = Keyed(asked, manData.key)
    BY <1>3 DEF Asked
  <1>6. /\ Len(d) = 5 /\ DOMAIN d = 1..5
        /\ d[2] = ModeValue[mode] \div 256 /\ d[3] = ModeValue[mode] % 256
        /\ mode = "PRODUCT_COUNTERS" => d[4] = 255
    BY SMT DEF build_stats_cmd
  <1>7. \A i \in DOMAIN asked.data: received.data[i] =
           IF i = 1 \/ (i = Len(asked.data) /\ asked.overrideKey) THEN manData.key
                                                               ELSE asked.data[i]
    BY <1>3, <1>4, <1>5, KeyedIsMessage
  <1> HIDE DEF d
  <1>8. /\ received.data[2] = d[2] /\ received.data[3] = d[3] /\ received.data[4] = d[4]
        /\ received.data[5] = maker.id.key
    BY <1>2, <1>4, <1>6, <1>7
  <1>9. /\ mode = "PRODUCT_COUNTERS" => ModeValue[mode] = 1
        /\ mode = "MAINTENANCE_COUNTER" => ModeValue[mode] = 4
        /\ mode = "MAINTENANCE_PERCENT" => ModeValue[mode] = 8
    BY DEF ModeValue
  <1>10. mode = "PRODUCT_COUNTERS" \/ mode = "MAINTENANCE_COUNTER" \/ mode = "MAINTENANCE_PERCENT"
    BY <1>1 DEF StatParseMode
  <1>11. 256 * received.data[2] + received.data[3] = ModeValue[mode]
    BY <1>6, <1>8, <1>9, <1>10
  <1> DEFINE type == 256 * received.data[2] + received.data[3]
             mask == <<received.data[4], received.data[5]>>
  <1>12. mode = "PRODUCT_COUNTERS" => mask = <<255, maker.id.key>>
    BY <1>6, <1>8
  <1>13. /\ type = 1 => StatisticsData = BigEndian(Masked(maker.products, mask), 3)
         /\ type = 4 => StatisticsData = BigEndian(maker.counters, 2)
         /\ type = 8 => StatisticsData = maker.percentages
    BY DEF StatisticsData
  <1> HIDE DEF mask, type
  <1>14. type = ModeValue[mode]
    BY <1>11 DEF type
  <1> QED
    BY <1>1, <1>9, <1>12, <1>13, <1>14, Zenon DEF Selected

(* They are bytes: the encoding of the answer is undone.                   *)
LEMMA StatisticsAnswered ==
  ASSUME Talk, reading, air = Silence
  PROVE  Answer(StatisticsData) = StatisticsData
  <1>1. received # Silence
    BY DEF Talk, Asking
  <1>2. maker \in Maker
    BY <1>1, KnownKey DEF Talk
  <1>3. Selected \in Seq(UInt24) /\ maker.counters \in Seq(UInt16)
    BY <1>2, SelectedProperties DEF Maker
  <1>3a. maker.percentages \in Seq(Byte)
    BY <1>2 DEF Maker
  <1>4. UInt24 \subseteq Nat /\ UInt16 \subseteq Nat
    BY SMT DEF UInt24, UInt16
  <1>5. Selected \in Seq(Nat) /\ maker.counters \in Seq(Nat)
    BY <1>3, <1>4, SeqMonotonic
  <1>6. BigEndian(Selected, 3) \in Seq(Byte) /\ BigEndian(maker.counters, 2) \in Seq(Byte)
    BY <1>5, BigEndianBytes
  <1>7. StatisticsData \in Seq(Byte)
    BY <1>3a, <1>6, StatisticsOfMode DEF StatParseMode
  <1> QED
    BY <1>1, <1>7, AnswerDecodes DEF Talk

LEMMA ReadStatisticsStep == ASSUME Talk, ReadStatistics PROVE Talk'
  <1> DEFINE mode == statParserMode
             values == Parsed(mode, StatisticsData)
  <1>1. /\ reading /\ air = Silence
        /\ ~reading' /\ UNCHANGED <<external, air, asked, reported, introduced>>
        /\ UNCHANGED <<aboutData, alerts, manData, joe, statParserMode>>
        /\ stats' = [stats EXCEPT ![mode] = values]
    BY StatisticsAnswered DEF ReadStatistics, on_characteristic_read
  <1> USE DEF external
  <1>2. mode \in StatParseMode /\ maker \in Maker
    BY <1>1, StatisticsOfMode, KnownKey DEF Talk, Asking
  <1>3. StatusIsBits' /\ MakerIsKnown' /\ KnownOfMaker'
    BY <1>1 DEF Talk, StatusIsBits, MakerIsKnown, KnownOfMaker
  <1>4. InFlight' /\ Received' /\ Asking'
    BY <1>1 DEF InFlight, Received, Arrived, Asking, Talk
  <1>5. AlertsAreReported'
    BY <1>1 DEF Talk, AlertsAreReported
  <1>6. /\ DOMAIN stats' = StatParseMode /\ stats'[mode] = values
        /\ \A other \in StatParseMode \ {mode}: stats'[other] = stats[other]
    BY <1>1, <1>2 DEF Talk
  <1>7. StatisticsAreMakers'
    <2> SUFFICES ASSUME joe # None
                 PROVE  StatisticsAreMakers'
      BY <1>1 DEF StatisticsAreMakers
    <2>1. IsJoe(joe) /\ StatisticsAreMakers
      BY DEF Talk, KnownOfMaker
    <2> HIDE DEF values
    <2>2. stats'["MAINTENANCE_PERCENT"] \in
             {<<>>, [i \in 1..joe.percentages |-> At(maker.percentages, i)]}
      <3>1. CASE mode = "MAINTENANCE_PERCENT"
        <4>1. StatisticsData = maker.percentages
          BY <1>1, <3>1, StatisticsOfMode
        <4>2. values = MaintenancePercentages(maker.percentages, joe.percentages)
          BY <3>1, <4>1, Zenon DEF Parsed, values
        <4> QED
          BY <1>2, <1>6, <2>1, <3>1, <4>2, PercentagesParsed, Zenon
      <3>2. CASE mode # "MAINTENANCE_PERCENT"
        <4>1. stats'["MAINTENANCE_PERCENT"] = stats["MAINTENANCE_PERCENT"]
          BY <1>6, <3>2 DEF StatParseMode
        <4> QED
          BY <2>1, <4>1 DEF StatisticsAreMakers
      <3> QED
        BY <3>1, <3>2
    <2>3. stats'["MAINTENANCE_COUNTER"] \in
             {<<>>, [i \in 1..joe.counters |-> At(maker.counters, i)]}
      <3>1. CASE mode = "MAINTENANCE_COUNTER"
        <4>1. StatisticsData = BigEndian(maker.counters, 2)
          BY <1>1, <3>1, StatisticsOfMode
        <4>2. values = MaintenanceCounters(BigEndian(maker.counters, 2), joe.counters)
          BY <3>1, <4>1, Zenon DEF Parsed, values
        <4> QED
          BY <1>2, <1>6, <2>1, <3>1, <4>2, CountersParsed, Zenon
      <3>2. CASE mode # "MAINTENANCE_COUNTER"
        <4>1. stats'["MAINTENANCE_COUNTER"] = stats["MAINTENANCE_COUNTER"]
          BY <1>6, <3>2 DEF StatParseMode
        <4> QED
          BY <2>1, <4>1 DEF StatisticsAreMakers
      <3> QED
        BY <3>1, <3>2
    <2>4. stats'["PRODUCT_COUNTERS"] # <<>> =>
            /\ Len(stats'["PRODUCT_COUNTERS"]) = Len(joe.products) + 1
            /\ stats'["PRODUCT_COUNTERS"][1] = At(maker.products, 1)
            /\ \A i \in DOMAIN joe.products: stats'["PRODUCT_COUNTERS"][i + 1] =
                   Counter(code_to_size_t(from_hex_string(joe.products[i].code)))
      <3>1. CASE mode = "PRODUCT_COUNTERS"
        <4>1. StatisticsData = BigEndian(Selected, 3)
          BY <1>1, <3>1, StatisticsOfMode
        <4>2. values = ProductValues(BigEndian(Selected, 3))
          BY <3>1, <4>1, Zenon DEF Parsed, values, ProductValues
        <4> QED
          BY <1>2, <1>6, <2>1, <3>1, <4>2, ProductsStored, Zenon
      <3>2. CASE mode # "PRODUCT_COUNTERS"
        <4>1. stats'["PRODUCT_COUNTERS"] = stats["PRODUCT_COUNTERS"]
          BY <1>6, <3>2 DEF StatParseMode
        <4> QED
          BY <2>1, <4>1 DEF StatisticsAreMakers, Counter
      <3> QED
        BY <3>1, <3>2
    <2>5. joe' = joe /\ maker' = maker
      BY <1>1
    <2>6. Selected' = Selected
      BY <2>5 DEF Selected
    <2> QED
      BY <2>2, <2>3, <2>4, <2>5, <2>6 DEF StatisticsAreMakers, Counter
  <1> QED
    BY <1>3, <1>4, <1>5, <1>6, <1>7 DEF Talk

LEMMA TalkStep == Talk /\ [Next]_vars => Talk'
  <1> SUFFICES ASSUME Talk, [Next]_vars PROVE Talk'
    OBVIOUS
  <1>1. ASSUME NEW m \in Makers, Connect(m) PROVE Talk'
    BY <1>1, ConnectStep
  <1>2. ASSUME NEW r \in Requests, ClientRequest(r) PROVE Talk'
    <2>1. r \in Asked
      BY RequestsAreAsked
    <2>2. /\ MayAsk /\ Send(r, manData.key) /\ ~reading'
          /\ UNCHANGED <<external, manData, aboutData, joe, alerts, stats, reported, introduced>>
      BY <1>2 DEF ClientRequest, MayAsk, fields
    <2> QED
      BY <2>1, <2>2, SendStep
  <1>3. ASSUME NEW i \in Products, ClientOrders(i) PROVE Talk'
    <2>1. IsHexString(to_bt_command(joe.products[i]))
      BY <1>3 DEF ClientOrders, MayAsk, Talk, KnownOfMaker, IsJoe
    <2>2. request_coffee(joe.products[i]) \in Asked
      BY <2>1, RequestsAreAsked
    <2>3. /\ MayAsk /\ Send(request_coffee(joe.products[i]), manData.key) /\ ~reading'
          /\ UNCHANGED <<external, manData, aboutData, joe, alerts, stats, reported, introduced>>
      BY <1>3 DEF ClientOrders, MayAsk, fields
    <2> QED
      BY <2>2, <2>3, SendStep
  <1>4. ASSUME NEW mode \in StatParseMode, ClientRequestsStatistics(mode) PROVE Talk'
    <2>1. request_statistics(mode) \in Asked
      BY RequestsAreAsked
    <2>2. /\ MayAsk /\ Send(request_statistics(mode), manData.key) /\ statParserMode' = mode
          /\ UNCHANGED <<external, manData, aboutData, joe, alerts, stats, reported, introduced>>
      BY <1>4 DEF ClientRequestsStatistics
    <2> QED
      BY <2>1, <2>2, SendStep
  <1>5. CASE Receive
    BY <1>5, ReceiveStep
  <1>6. CASE StatusChanges
    BY <1>6, StatusChangesStep
  <1>7. ASSUME NEW c \in {"ABOUT_MACHINE", "MACHINE_STATUS", "PRODUCT_PROGRESS", "UART_RX"},
               ClientReads(c)
        PROVE  Talk'
    BY <1>7, ClientReadsStep
  <1>8. CASE ReadStatistics
    BY <1>8, ReadStatisticsStep
  <1>9. CASE UNCHANGED vars
    <2>1. UNCHANGED <<maker, status, received, air, asked, reading, manData, aboutData, joe, alerts,
                      statParserMode, stats, reported, introduced>>
      BY <1>9 DEF vars, external, fields
    <2>2. DOMAIN stats' = StatParseMode /\ StatisticsAreMakers'
      BY <2>1, StatisticsKept DEF Talk
    <2> QED
      BY <2>1, <2>2 DEF Talk, StatusIsBits, MakerIsKnown, KnownOfMaker, InFlight, Received, Arrived,
         Asking, AlertsAreReported
  <1> QED
    BY <1>1, <1>2, <1>3, <1>4, <1>5, <1>6, <1>7, <1>8, <1>9 DEF Next

LEMMA TalkCorrect == Spec => []Talk
  BY TalkInit, TalkStep, PTL DEF Spec

(* Every request of a client, whatever it is, reaches every coffee maker   *)
(* as it was asked for but for the bytes that write() replaces by the key: *)
(* the encoding is undone, and no byte besides is lost or changed.         *)
THEOREM OnlyTheKeyReplacesCorrect == Spec => []OnlyTheKeyReplaces
  <1>1. Talk => OnlyTheKeyReplaces
    <2> SUFFICES ASSUME Talk, Arrived
                 PROVE  /\ received.characteristic = asked.characteristic
                        /\ Len(received.data) = Len(asked.data)
                        /\ \A i \in DOMAIN asked.data: received.data[i] =
                               IF i = 1 \/ (i = Len(asked.data) /\ asked.overrideKey)
                               THEN maker.id.key ELSE asked.data[i]
      BY DEF OnlyTheKeyReplaces
    <2>1. asked \in Asked /\ received = [asked EXCEPT !.data = Keyed(asked, manData.key)]
      BY DEF Talk, Received
    <2>2. manData.key \in Byte /\ manData.key = maker.id.key
      BY KnownKey DEF Talk, Arrived
    <2>3. /\ received.data = Keyed(asked, manData.key)
          /\ received.characteristic = asked.characteristic
      BY <2>1 DEF Asked
    <2> QED
      BY <2>1, <2>2, <2>3, KeyedIsMessage
  <1> QED
    BY <1>1, TalkCorrect, PTL

(* What the client learns of who the coffee maker is, is what this one     *)
(* advertises: numbers and packed dates survive the parsers of every value *)
(* that fits, after every reconnection to another one.  The versions, but  *)
(* for a 17th character, are those of the coffee maker whose about data    *)
(* were read last, whatever reads of them failed since.                    *)
THEOREM IdentityIsMakersCorrect == Spec => []IdentityIsMakers
  <1>1. Talk => IdentityIsMakers
    <2> SUFFICES ASSUME Talk PROVE IdentityIsMakers
      OBVIOUS
    <2>1. joe # None => manData = maker.id
      BY DEF Talk, MakerIsKnown
    <2>2. ASSUME introduced # None
          PROVE  /\ aboutData.blueFrogVersion = introduced.blueFrog
                 /\ aboutData.coffeeMachineVersion = Before(introduced.version, 16)
      <3>1. introduced \in Maker /\ aboutData = AboutData(AboutMachine(introduced))
        BY <2>2, MakersAssumption DEF Talk, KnownOfMaker
      <3> QED
        BY <3>1, AboutRead
    <2> QED
      BY <2>1, <2>2 DEF IdentityIsMakers
  <1> QED
    BY <1>1, TalkCorrect, PTL

(* The alerts are always those of the connected machine's file whose bits  *)
(* were set in the status that was read last: no alert of an earlier       *)
(* machine stays, and no bit is read from the wrong place.                 *)
THEOREM AlertsAreReportedCorrect == Spec => []AlertsAreReported
  <1>1. Talk => AlertsAreReported
    BY DEF Talk
  <1> QED
    BY <1>1, TalkCorrect, PTL

(* The statistics stored under each mode are those of this coffee maker,   *)
(* each value in its place, for every machine file and all its values; of  *)
(* the products with codes from 32 to 63 those that the key selects.       *)
THEOREM StatisticsAreMakersCorrect == Spec => []StatisticsAreMakers
  <1>1. Talk => StatisticsAreMakers
    BY DEF Talk
  <1> QED
    BY <1>1, TalkCorrect, PTL

-----------------------------------------------------------------------------
(* What was ordered is what is asked for, of the file of this coffee maker.*)
Ordering ==
    /\ joe # None => joe = load_joe(File) /\ maker.id.articleNumber \in DOMAIN Machines
    /\ ordered # 0 => /\ joe # None /\ ordered \in DOMAIN joe.products
                      /\ asked = request_coffee(joe.products[ordered])

LEMMA OrderingInit == Init => Ordering
  BY DEF Init, Ordering

LEMMA OrderingStep == Talk /\ Ordering /\ [Next]_vars => Ordering'
  <1> SUFFICES ASSUME Talk, Ordering, [Next]_vars PROVE Ordering'
    OBVIOUS
  <1>k. ASSUME UNCHANGED <<maker, joe>>
        PROVE  joe' # None => joe' = load_joe(File)' /\ maker'.id.articleNumber \in DOMAIN Machines
    BY <1>k DEF Ordering, File
  <1>1. ASSUME NEW m \in Makers, Connect(m) PROVE Ordering'
    <2>1. m \in Maker /\ m.id \in Identity
      BY MakersAssumption DEF Maker
    <2>2. /\ maker' = m /\ manData' = m.id /\ m.id.articleNumber \in DOMAIN Machines
          /\ joe' = load_joe(Machines[m.id.articleNumber]) /\ ordered' = 0
      BY <1>1, <2>1, AdvertisementRead DEF Connect
    <2> QED
      BY <2>2 DEF Ordering, File
  <1>2. ASSUME NEW r \in Requests, ClientRequest(r) PROVE Ordering'
    <2>1. UNCHANGED <<maker, joe>> /\ ordered' = 0
      BY <1>2 DEF ClientRequest, external, fields
    <2> QED
      BY <1>k, <2>1 DEF Ordering
  <1>3. ASSUME NEW i \in Products, ClientOrders(i) PROVE Ordering'
    <2>1. /\ UNCHANGED <<maker, joe>> /\ ordered' = i /\ joe # None /\ i \in DOMAIN joe.products
          /\ asked' = request_coffee(joe.products[i])
      BY <1>3 DEF ClientOrders, MayAsk, Send, external, fields
    <2> QED
      BY <1>k, <2>1 DEF Ordering
  <1>4. ASSUME NEW mode \in StatParseMode, ClientRequestsStatistics(mode) PROVE Ordering'
    <2>1. UNCHANGED <<maker, joe>> /\ ordered' = 0
      BY <1>4 DEF ClientRequestsStatistics, external
    <2> QED
      BY <1>k, <2>1 DEF Ordering
  <1>5. ASSUME UNCHANGED <<maker, joe, ordered, asked>> PROVE Ordering'
    BY <1>5, <1>k DEF Ordering
  <1>6. CASE Receive
    BY <1>5, <1>6 DEF Receive, fields
  <1>7. CASE StatusChanges
    BY <1>5, <1>7 DEF StatusChanges, fields
  <1>8. ASSUME NEW c \in {"ABOUT_MACHINE", "MACHINE_STATUS", "PRODUCT_PROGRESS", "UART_RX"},
               ClientReads(c)
        PROVE  Ordering'
    BY <1>5, <1>8 DEF ClientReads, on_characteristic_read, external
  <1>9. CASE ReadStatistics
    BY <1>5, <1>9 DEF ReadStatistics, on_characteristic_read, external
  <1>10. CASE UNCHANGED vars
    BY <1>5, <1>10 DEF vars, external, fields
  <1> QED
    BY <1>1, <1>2, <1>3, <1>4, <1>6, <1>7, <1>8, <1>9, <1>10 DEF Next

LEMMA OrderingCorrect == Spec => []Ordering
  BY OrderingInit, OrderingStep, TalkCorrect, PTL DEF Spec

(* Whatever a machine file lists, a coffee maker that is asked to brew is  *)
(* told the code of the product that was ordered and, in the byte of each  *)
(* option F2 to F16, what the file gives it, cut to a byte, the last       *)
(* option counting where several share a byte: building the command as     *)
(* text and reading it back loses and moves nothing, and write() overrides *)
(* none of these bytes.  The byte of F17 holds the key.                    *)
THEOREM BrewsAsOrderedCorrect == Spec => []BrewsAsOrdered
  <1>1. Ordering /\ OnlyTheKeyReplaces => BrewsAsOrdered
    <2> SUFFICES ASSUME Ordering, OnlyTheKeyReplaces, Arrived, ordered # 0
                 PROVE  LET e == ProductElement(ordered)
                        IN  /\ received.data[2] = code_to_size_t(from_hex_string(e.attr.Code))
                            /\ \A n \in 2..16:
                                   received.data[n + 1] =
                                       IF OptionsFor(e, n) = {} THEN 0
                                       ELSE OptionValue(Options(e)[Max(OptionsFor(e, n))])
                            /\ Len(received.data) = 18 /\ received.data[18] = maker.id.key
      BY DEF BrewsAsOrdered
    <2> DEFINE e == ProductElement(ordered)
               bytes == from_hex_string(to_bt_command(load_product(e)))
    <2>1. /\ joe = load_joe(File) /\ maker.id.articleNumber \in DOMAIN Machines
          /\ ordered \in DOMAIN joe.products
          /\ asked = request_coffee(joe.products[ordered])
      BY DEF Ordering
    <2>2. joe.products = [i \in DOMAIN ProductElements(File) |-> load_product(ProductElements(File)[i])]
      BY <2>1 DEF load_joe, load_products, ProductElements
    <2>3. ordered \in DOMAIN ProductElements(File) /\ joe.products[ordered] = load_product(e)
      BY <2>1, <2>2 DEF ProductElement
    <2>4. IsProduct(e)
      BY <2>1, <2>3, ProductsAssumption DEF ProductElement, File
    <2>5. asked.data = bytes /\ asked.overrideKey = TRUE
      BY <2>1, <2>3 DEF request_coffee, Request
    <2> HIDE DEF e, bytes
    <2>6. /\ Len(bytes) = 18
          /\ bytes[2] = code_to_size_t(from_hex_string(e.attr.Code))
          /\ \A n \in 2..17: bytes[n + 1] =
                IF OptionsFor(e, n) = {} THEN 0
                ELSE OptionValue(Options(e)[Max(OptionsFor(e, n))])
      BY <2>4, OrderRead DEF bytes
    <2>7. Len(received.data) = 18 /\ received.data[18] = maker.id.key
      <3>1. Len(received.data) = 18 /\ DOMAIN asked.data = 1..18
        BY <2>5, <2>6 DEF OnlyTheKeyReplaces
      <3>2. 18 \in DOMAIN asked.data /\ 18 = Len(asked.data)
        BY <2>5, <2>6, <3>1
      <3> QED
        BY <2>5, <3>1, <3>2 DEF OnlyTheKeyReplaces
    <2>8. ASSUME NEW i \in 2..17 PROVE received.data[i] = bytes[i]
      BY <2>5, <2>6 DEF OnlyTheKeyReplaces
    <2>9. received.data[2] = bytes[2] /\ \A n \in 2..16: received.data[n + 1] = bytes[n + 1]
      BY <2>8
    <2> QED
      BY <2>6, <2>7, <2>9 DEF e
  <1> QED
    BY <1>1, OrderingCorrect, OnlyTheKeyReplacesCorrect, PTL
=============================================================================
