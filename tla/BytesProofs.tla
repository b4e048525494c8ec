----------------------------- MODULE BytesProofs -----------------------------
(***************************************************************************)
(* Lemmas about the bytes of messages and files: encDecBytes() is its own  *)
(* inverse, and hexadecimal strings lose nothing, whatever the bytes,      *)
(* their number and the key.                                               *)
(***************************************************************************)
EXTENDS Shuffle, HexStrings, SequenceTheorems, WellFoundedInduction, TLAPS

LEMMA Numbers1Inverse ==
  \A i \in Nibble: numbers1[i] \in Nibble /\ numbers1[numbers1[i]] = i
  BY DEF numbers1, Nibble

LEMMA Numbers2Inverse ==
  \A i \in Nibble: numbers2[i] \in Nibble /\ numbers2[numbers2[i]] = i /\ numbers2[i] # i
  BY DEF numbers2, Nibble

(* The reductions by 256 and 16 are one reduction by 16.                   *)
LEMMA Mod256Mod16 ==
  \A i \in Int: mod256(i) % 16 = i % 16 /\ i % 16 \in Nibble
  BY DEF mod256, Nibble

(* Adding or subtracting an offset modulo 16 is undone by the opposite.    *)
LEMMA OffsetUndone ==
  ASSUME NEW n \in Nibble, NEW j \in Int
  PROVE  (((n - j) % 16) + j) % 16 = n /\ (((n + j) % 16) - j) % 16 = n
  <1> USE DEF Nibble
  <1>1. \A i \in Int: ((i % 16) + j) % 16 = (i + j) % 16 /\ ((i % 16) - j) % 16 = (i - j) % 16
    OBVIOUS
  <1>2. n - j \in Int /\ n + j \in Int /\ (n - j) + j = n /\ (n + j) - j = n /\ n % 16 = n
    OBVIOUS
  <1> QED
    BY <1>1, <1>2

(* shuffle() with the position and the key gathered into two offsets.      *)
Inner(x, e, f) == (numbers1[(x + e) % 16] + f) % 16

LEMMA ShuffleShape ==
  ASSUME NEW x \in Nibble, NEW c \in Nat, NEW l \in Nibble, NEW r \in Nibble,
         NEW e, e = c + l, NEW f, f = r + mod256(c \div 16) - c - l
  PROVE  shuffle(x, c, l, r) = (numbers1[(numbers2[Inner(x, e, f)] - f) % 16] - e) % 16
  <1> DEFINE i5 == mod256(c \div 16)
             t1 == numbers1[(x + e) % 16]
             t2 == numbers2[(t1 + f) % 16]
             t3 == numbers1[(t2 - f) % 16]
  <1>1. i5 \in Int /\ e \in Int /\ f \in Int /\ x \in Int
    BY DEF mod256, Nibble
  <1>2. t1 \in Nibble
    BY <1>1, Mod256Mod16, Numbers1Inverse
  <1>3. t2 \in Nibble
    <2>1. t1 + f \in Int
      BY <1>1, <1>2 DEF Nibble
    <2> QED
      BY <2>1, Mod256Mod16, Numbers2Inverse
  <1>4. t3 \in Nibble
    <2>1. t2 - f \in Int
      BY <1>1, <1>3 DEF Nibble
    <2> QED
      BY <2>1, Mod256Mod16, Numbers1Inverse
  <1>5. mod256(x + c + l) % 16 = (x + e) % 16
    BY Mod256Mod16 DEF Nibble
  <1>6. mod256(t1 + r + i5 - c - l) % 16 = (t1 + f) % 16
    <2>1. t1 + r + i5 - c - l \in Int /\ t1 + r + i5 - c - l = t1 + f
      BY <1>1, <1>2 DEF Nibble
    <2> QED
      BY <2>1, Mod256Mod16
  <1>7. mod256(t2 + l + c - r - i5) % 16 = (t2 - f) % 16
    <2>1. t2 + l + c - r - i5 \in Int /\ t2 + l + c - r - i5 = t2 - f
      BY <1>1, <1>3 DEF Nibble
    <2> QED
      BY <2>1, Mod256Mod16
  <1>8. mod256(t3 - c - l) % 16 = (t3 - e) % 16
    <2>1. t3 - c - l \in Int /\ t3 - c - l = t3 - e
      BY <1>1, <1>4 DEF Nibble
    <2> QED
      BY <2>1, Mod256Mod16
  <1> QED
    BY <1>5, <1>6, <1>7, <1>8 DEF shuffle, Inner

(* The same three substitutions undo each other, from the outside in.      *)
LEMMA ShuffleInverse ==
  ASSUME NEW x \in Nibble, NEW c \in Nat, NEW l \in Nibble, NEW r \in Nibble
  PROVE  /\ shuffle(x, c, l, r) \in Nibble
         /\ shuffle(x, c, l, r) # x
         /\ shuffle(shuffle(x, c, l, r), c, l, r) = x
  <1> DEFINE e  == c + l
             f  == r + mod256(c \div 16) - c - l
             t1 == numbers1[(x + e) % 16]
             t2 == numbers2[(t1 + f) % 16]
             t3 == numbers1[(t2 - f) % 16]
             y  == (t3 - e) % 16
  <1>1. e \in Int /\ f \in Int /\ x \in Int
    BY DEF mod256, Nibble
  <1>2. t1 \in Nibble /\ numbers1[t1] = (x + e) % 16
    BY <1>1, Mod256Mod16, Numbers1Inverse
  <1>3. t2 \in Nibble /\ numbers2[t2] = (t1 + f) % 16 /\ t2 # (t1 + f) % 16
    <2>1. (t1 + f) % 16 \in Nibble
      BY <1>1, <1>2, Mod256Mod16 DEF Nibble
    <2> QED
      BY <2>1, Numbers2Inverse
  <1>4. t3 \in Nibble /\ numbers1[t3] = (t2 - f) % 16
    <2>1. (t2 - f) % 16 \in Nibble
      BY <1>1, <1>3, Mod256Mod16 DEF Nibble
    <2> QED
      BY <2>1, Numbers1Inverse
  <1>5. y \in Nibble /\ (y + e) % 16 = t3
    <2>1. t3 - e \in Int
      BY <1>1, <1>4 DEF Nibble
    <2> QED
      BY <2>1, <1>1, <1>4, Mod256Mod16, OffsetUndone
  <1>6. (numbers1[t3] + f) % 16 = t2
    <2> HIDE DEF f, t1, t2, t3
    <2>1. (((t2 - f) % 16) + f) % 16 = t2
      BY <1>1, <1>3, OffsetUndone
    <2> QED
      BY <1>4, <2>1
  <1>7. (((t1 + f) % 16) - f) % 16 = t1
    BY <1>1, <1>2, OffsetUndone
  <1>8. (((x + e) % 16) - e) % 16 = x
    BY <1>1, OffsetUndone
  <1> HIDE DEF e, f, t1, t2, t3, y
  <1>9. shuffle(x, c, l, r) = y
    BY ShuffleShape DEF e, f, t1, t2, t3, y, Inner
  <1>10. shuffle(y, c, l, r) = (numbers1[(numbers2[Inner(y, e, f)] - f) % 16] - e) % 16
    BY <1>5, ShuffleShape DEF e, f
  <1>11. Inner(y, e, f) = t2
    BY <1>5, <1>6 DEF Inner
  <1>12. shuffle(y, c, l, r) = x
    BY <1>10, <1>11, <1>3, <1>7, <1>2, <1>8
  <1>13. y # x
    \* Otherwise numbers1 would map t3 and t1 alike and numbers2 fix a nibble.
    <2> SUFFICES ASSUME y = x PROVE FALSE
      OBVIOUS
    <2>1. numbers1[t3] = t1
      BY <1>5 DEF t1
    <2>2. (t1 + f) % 16 = t2
      BY <2>1, <1>6
    <2> QED
      BY <2>2, <1>3
  <1> QED
    BY <1>5, <1>9, <1>12, <1>13

LEMMA Halves ==
  ASSUME NEW d \in Byte
  PROVE  d \div 16 \in Nibble /\ d % 16 \in Nibble /\ d = 16 * (d \div 16) + (d % 16)
  BY DEF Byte, Nibble

LEMMA Joined ==
  ASSUME NEW left \in Nibble, NEW right \in Nibble
  PROVE  /\ 16 * left + right \in Byte
         /\ (16 * left + right) \div 16 = left
         /\ (16 * left + right) % 16 = right
  BY DEF Byte, Nibble

(* A byte that is encoded and decoded at the same position comes back, and *)
(* is never encoded as itself.                                             *)
LEMMA EncDecInverse ==
  ASSUME NEW d \in Byte, NEW c \in Nat, NEW k \in Byte
  PROVE  /\ EncDec(d, c, k) \in Byte
         /\ EncDec(d, c, k) # d
         /\ EncDec(EncDec(d, c, k), c, k) = d
  <1> DEFINE l == k \div 16
             r == k % 16
             left  == shuffle(d \div 16, c, l, r)
             right == shuffle(d % 16, c + 1, l, r)
  <1>1. l \in Nibble /\ r \in Nibble
    BY Halves
  <1>2. /\ left \in Nibble /\ left # d \div 16
        /\ shuffle(left, c, l, r) = d \div 16
    BY <1>1, Halves, ShuffleInverse
  <1>3. /\ right \in Nibble
        /\ shuffle(right, c + 1, l, r) = d % 16
    BY <1>1, Halves, ShuffleInverse
  <1> HIDE DEF left, right, l, r
  <1>4. EncDec(d, c, k) = 16 * left + right
    BY DEF EncDec, left, right, l, r
  <1>5. EncDec(16 * left + right, c, k) = 16 * (d \div 16) + (d % 16)
    <2>1. EncDec(16 * left + right, c, k)
            = 16 * shuffle(left, c, l, r) + shuffle(right, c + 1, l, r)
      BY <1>2, <1>3, Joined DEF EncDec, l, r
    <2> QED
      BY <2>1, <1>2, <1>3
  <1> QED
    BY <1>2, <1>3, <1>4, <1>5, Halves, Joined

-----------------------------------------------------------------------------
(* Induction: a set of naturals has a least element.                       *)
LEMMA LeastNumber ==
  ASSUME NEW T \in SUBSET Nat, T # {}
  PROVE  \E x \in T: \A y \in T: x <= y
  <1> DEFINE Less == OpToRel(<, Nat)
  <1>1. IsWellFoundedOn(Less, Nat)
    BY NatLessThanWellFounded
  <1>2. \A x, y \in Nat: <<y, x>> \in Less <=> y < x
    BY DEF OpToRel
  <1> HIDE DEF Less
  <1>3. PICK x \in T: \A y \in T: ~(<<y, x>> \in Less)
    BY <1>1, WFMin, Zenon
  <1>4. x \in Nat /\ \A y \in T: y \in Nat /\ ~(y < x)
    BY <1>2, <1>3
  <1> QED
    BY <1>4

(* A number is made of its digits one by one.                              *)
LEMMA DigitsMakeNumbers ==
  ASSUME NEW b \in Nat, NEW n \in Nat, NEW c \in [1..n -> Nat]
  PROVE  \E f \in [0..n -> Nat]:
            f = [i \in 0..n |-> IF i = 0 THEN 0 ELSE b * f[i - 1] + c[i]]
  <1> DEFINE Digits(f, m) == \A i \in 0..m: f[i] = IF i = 0 THEN 0 ELSE b * f[i - 1] + c[i]
             T == {m \in 0..n: ~ \E f \in [0..m -> Nat]: Digits(f, m)}
  <1>1. \A x \in Nat: b * x \in Nat
    OBVIOUS
  <1>2. T = {}
    <2> SUFFICES ASSUME T # {} PROVE FALSE
      OBVIOUS
    <2>1. T \in SUBSET Nat
      OBVIOUS
    <2> HIDE DEF T
    <2>2. PICK m \in T: \A k \in T: m <= k
      BY <2>1, LeastNumber
    <2>3. m \in 0..n /\ ~ \E f \in [0..m -> Nat]: Digits(f, m)
      BY <2>2 DEF T
    <2>4. m # 0
      <3> SUFFICES ASSUME m = 0 PROVE FALSE
        OBVIOUS
      <3> DEFINE f == [i \in 0..m |-> 0]
      <3>1. f \in [0..m -> Nat] /\ \A i \in 0..m: i = 0 /\ f[i] = 0
        OBVIOUS
      <3>2. Digits(f, m)
        BY <3>1
      <3> QED
        BY <2>3, <3>1, <3>2
    <2>5. m - 1 \in 0..n /\ ~(m <= m - 1) /\ m \in Nat
      BY <2>3, <2>4
    <2>6. PICK f \in [0..(m - 1) -> Nat]: Digits(f, m - 1)
      BY <2>2, <2>5 DEF T
    <2> DEFINE g == [i \in 0..m |-> IF i = m THEN b * f[m - 1] + c[m] ELSE f[i]]
    <2>7. f[m - 1] \in Nat /\ c[m] \in Nat
      BY <2>3, <2>4, <2>5
    <2>8. b * f[m - 1] + c[m] \in Nat
      <3>1. b * f[m - 1] \in Nat
        BY <1>1, <2>7, Zenon
      <3>2. \A x, y \in Nat: x + y \in Nat
        OBVIOUS
      <3> QED
        BY <2>7, <3>1, <3>2, Zenon
    <2>9. g \in [0..m -> Nat]
      <3> SUFFICES ASSUME NEW i \in 0..m PROVE g[i] \in Nat
        OBVIOUS
      <3>1. i # m => i \in 0..(m - 1)
        BY <2>5
      <3> QED
        BY <2>8, <3>1
    <2>10. Digits(g, m)
      <3> SUFFICES ASSUME NEW i \in 0..m
                   PROVE  g[i] = IF i = 0 THEN 0 ELSE b * g[i - 1] + c[i]
        OBVIOUS
      <3>1. CASE i = m
        <4>1. m - 1 \in 0..m /\ m - 1 # m
          BY <2>5, <2>3, <2>4
        <4>2. g[i] = b * f[m - 1] + c[m] /\ g[m - 1] = f[m - 1]
          BY <3>1, <4>1
        <4> QED
          BY <3>1, <4>2, <2>4
      <3>2. CASE i # m
        <4>1. i \in 0..(m - 1) /\ (i # 0 => i - 1 \in 0..(m - 1) /\ i - 1 # m)
          BY <3>2, <2>5
        <4>2. g[i] = f[i] /\ (i # 0 => i - 1 \in 0..m /\ g[i - 1] = f[i - 1])
          <5>1. i # 0 => i - 1 \in 0..m
            BY <4>1, <2>5
          <5> QED
            BY <3>2, <4>1, <5>1, Zenon
        <4>3. f[i] = IF i = 0 THEN 0 ELSE b * f[i - 1] + c[i]
          BY <2>6, <4>1
        <4> QED
          BY <4>2, <4>3
      <3> QED
        BY <3>1, <3>2
    <2> QED
      BY <2>3, <2>9, <2>10
  <1>3. n \in 0..n
    OBVIOUS
  <1>4. PICK f \in [0..n -> Nat]: Digits(f, n)
    BY <1>2, <1>3, Zenon
  <1> QED
    BY <1>4

(* A recursion over 1..n defines a function, and only functions into S.    *)
IsRecursion(f, b, n, step) == f = [k \in 0..n |-> IF k = 0 THEN b ELSE step[k][f[k - 1]]]

LEMMA RecursionDefines ==
  ASSUME NEW S, NEW b \in S, NEW n \in Nat, NEW step \in [1..n -> [S -> S]]
  PROVE  \E f: IsRecursion(f, b, n, step)
  <1> DEFINE Upto(f, m) == \A k \in 0..m: f[k] = IF k = 0 THEN b ELSE step[k][f[k - 1]]
             T == {m \in 0..n: ~ \E f \in [0..m -> S]: Upto(f, m)}
  <1>1. T = {}
    <2> SUFFICES ASSUME T # {} PROVE FALSE
      OBVIOUS
    <2>1. T \in SUBSET Nat
      OBVIOUS
    <2> HIDE DEF T
    <2>2. PICK m \in T: \A k \in T: m <= k
      BY <2>1, LeastNumber
    <2>3. m \in 0..n /\ ~ \E f \in [0..m -> S]: Upto(f, m)
      BY <2>2 DEF T
    <2>4. m # 0
      <3> SUFFICES ASSUME m = 0 PROVE FALSE
        OBVIOUS
      <3> DEFINE f == [k \in 0..m |-> b]
      <3>1. f \in [0..m -> S] /\ \A k \in 0..m: k = 0 /\ f[k] = b
        OBVIOUS
      <3>2. Upto(f, m)
        BY <3>1
      <3> QED
        BY <2>3, <3>1, <3>2
    <2>5. m - 1 \in 0..n /\ ~(m <= m - 1) /\ m \in Nat /\ m \in 1..n /\ m - 1 \in 0..(m - 1)
      BY <2>3, <2>4
    <2>6. PICK f \in [0..(m - 1) -> S]: Upto(f, m - 1)
      BY <2>2, <2>5 DEF T
    <2> DEFINE next == step[m][f[m - 1]]
    <2>7. next \in S
      <3>1. f[m - 1] \in S /\ step[m] \in [S -> S]
        BY <2>5
      <3> QED
        BY <3>1
    <2> HIDE DEF next
    <2> DEFINE g == [k \in 0..m |-> IF k = m THEN next ELSE f[k]]
    <2>8. g \in [0..m -> S]
      <3> SUFFICES ASSUME NEW k \in 0..m PROVE g[k] \in S
        OBVIOUS
      <3>1. k # m => k \in 0..(m - 1)
        BY <2>5
      <3> QED
        BY <2>7, <3>1
    <2>9. Upto(g, m)
      <3> SUFFICES ASSUME NEW k \in 0..m
                   PROVE  g[k] = IF k = 0 THEN b ELSE step[k][g[k - 1]]
        OBVIOUS
      <3>1. CASE k = m
        <4>1. m - 1 \in 0..m /\ m - 1 # m
          BY <2>3, <2>4, <2>5
        <4>2. g[k] = next /\ g[m - 1] = f[m - 1]
          BY <3>1, <4>1
        <4> QED
          BY <2>4, <3>1, <4>2, Zenon DEF next
      <3>2. CASE k # m
        <4>1. k \in 0..(m - 1) /\ (k # 0 => k - 1 \in 0..m /\ k - 1 # m)
          BY <2>5, <3>2
        <4>2. g[k] = f[k] /\ (k # 0 => g[k - 1] = f[k - 1])
          BY <3>2, <4>1, Zenon
        <4>3. f[k] = IF k = 0 THEN b ELSE step[k][f[k - 1]]
          BY <2>6, <4>1
        <4> QED
          BY <4>2, <4>3, Zenon
      <3> QED
        BY <3>1, <3>2
    <2> QED
      BY <2>3, <2>8, <2>9
  <1>2. n \in 0..n
    OBVIOUS
  <1>3. PICK f \in [0..n -> S]: Upto(f, n)
    BY <1>1, <1>2, Zenon
  <1>4. f = [k \in 0..n |-> f[k]]
    OBVIOUS
  <1> QED
    BY <1>3, <1>4 DEF IsRecursion

LEMMA RecursionStays ==
  ASSUME NEW S, NEW b \in S, NEW n \in Nat, NEW step \in [1..n -> [S -> S]],
         NEW f, IsRecursion(f, b, n, step)
  PROVE  \A k \in 0..n: f[k] \in S
  <1> USE DEF IsRecursion
  <1> DEFINE T == {k \in 0..n: f[k] \notin S}
  <1> SUFFICES ASSUME T # {} PROVE FALSE
    OBVIOUS
  <1>1. T \in SUBSET Nat
    OBVIOUS
  <1> HIDE DEF T
  <1>2. PICK m \in T: \A k \in T: m <= k
    BY <1>1, LeastNumber
  <1>3. m \in 0..n /\ f[m] \notin S
    BY <1>2 DEF T
  <1>4. m # 0
    BY <1>3
  <1>5. m - 1 \in 0..n /\ ~(m <= m - 1) /\ m \in 1..n
    BY <1>3, <1>4
  <1>6. f[m - 1] \in S
    BY <1>2, <1>5 DEF T
  <1>7. step[m] \in [S -> S]
    BY <1>5
  <1>8. f[m] = step[m][f[m - 1]]
    BY <1>3, <1>4
  <1> QED
    BY <1>3, <1>6, <1>7, <1>8

(* A function on 1..n is a sequence of length n.                           *)
LEMMA FunctionIsSequence ==
  ASSUME NEW S, NEW n \in Nat, NEW f \in [1..n -> S]
  PROVE  f \in Seq(S) /\ Len(f) = n
  <1>1. f \in Seq(S)
    BY SeqDef
  <1>2. 1..Len(f) = 1..n /\ Len(f) \in Nat
    BY <1>1, LenProperties
  <1> QED
    BY <1>1, <1>2

(* Whatever its length and the key, a message that is encoded and decoded  *)
(* is the message.                                                         *)
THEOREM EncDecBytesInverse ==
  ASSUME NEW d \in Seq(Byte), NEW k \in Byte
  PROVE  encDecBytes(d, k) \in Seq(Byte) /\ encDecBytes(encDecBytes(d, k), k) = d
  <1> DEFINE e == encDecBytes(d, k)
  <1>1. \A i \in 1..Len(d):
           /\ EncDec(d[i], 2 * (i - 1), k) \in Byte
           /\ EncDec(EncDec(d[i], 2 * (i - 1), k), 2 * (i - 1), k) = d[i]
    <2> SUFFICES ASSUME NEW i \in 1..Len(d)
                 PROVE  /\ EncDec(d[i], 2 * (i - 1), k) \in Byte
                        /\ EncDec(EncDec(d[i], 2 * (i - 1), k), 2 * (i - 1), k) = d[i]
      OBVIOUS
    <2>1. d[i] \in Byte /\ 2 * (i - 1) \in Nat
      OBVIOUS
    <2> QED
      BY <2>1, EncDecInverse
  <1>2. e \in [1..Len(d) -> Byte] /\ \A i \in 1..Len(d): e[i] = EncDec(d[i], 2 * (i - 1), k)
    BY <1>1 DEF encDecBytes
  <1>3. e \in Seq(Byte) /\ Len(e) = Len(d)
    BY <1>2, LenProperties, FunctionIsSequence
  <1>4. encDecBytes(e, k) = [i \in 1..Len(d) |-> d[i]]
    BY <1>1, <1>2, <1>3 DEF encDecBytes
  <1> QED
    BY <1>3, <1>4

-----------------------------------------------------------------------------
(* The sixteen digits, one by one.                                         *)
LEMMA HexDigit ==
  \A n \in Nibble: /\ HEX_CHARS[1 + n] \in Nat
                   /\ IsHexChar(HEX_CHARS[1 + n])
                   /\ get_hex_char_val(HEX_CHARS[1 + n]) = n
  BY DEF HEX_CHARS, Nibble, IsHexChar, get_hex_char_val

LEMMA ByteNibbles ==
  \A b \in Byte: b \div 16 \in Nibble /\ b % 16 \in Nibble /\ 16 * (b \div 16) + (b % 16) = b
  BY DEF Byte, Nibble

LEMMA HexShape ==
  ASSUME NEW d \in Seq(Byte)
  PROVE  /\ to_hex_string(d) \in Seq(Nat)
         /\ Len(to_hex_string(d)) = 2 * Len(d)
         /\ \A i \in 1..Len(d):
               /\ to_hex_string(d)[2 * i - 1] = HEX_CHARS[1 + (d[i] \div 16)]
               /\ to_hex_string(d)[2 * i] = HEX_CHARS[1 + (d[i] % 16)]
  <1> DEFINE h == to_hex_string(d)
  <1>1. \A j \in 1..(2 * Len(d)): (j + 1) \div 2 \in 1..Len(d)
    BY LenProperties
  <1>2. \A j \in 1..(2 * Len(d)): h[j] \in Nat
    <2> SUFFICES ASSUME NEW j \in 1..(2 * Len(d)) PROVE h[j] \in Nat
      OBVIOUS
    <2>1. d[(j + 1) \div 2] \in Byte
      BY <1>1
    <2> QED
      BY <2>1, ByteNibbles, HexDigit DEF to_hex_string
  <1>3. h \in [1..(2 * Len(d)) -> Nat] /\ 2 * Len(d) \in Nat
    BY <1>2, LenProperties DEF to_hex_string
  <1>4. h \in Seq(Nat) /\ Len(h) = 2 * Len(d)
    BY <1>3, FunctionIsSequence, LenProperties
  <1>5. ASSUME NEW i \in 1..Len(d)
        PROVE  h[2 * i - 1] = HEX_CHARS[1 + (d[i] \div 16)] /\ h[2 * i] = HEX_CHARS[1 + (d[i] % 16)]
    <2>1. /\ 2 * i - 1 \in 1..(2 * Len(d)) /\ 2 * i \in 1..(2 * Len(d))
          /\ ((2 * i - 1) + 1) \div 2 = i /\ (2 * i + 1) \div 2 = i
          /\ (2 * i - 1) % 2 = 1 /\ (2 * i) % 2 = 0
      BY LenProperties
    <2> QED
      BY <2>1 DEF to_hex_string
  <1> QED
    BY <1>4, <1>5

(* from_hex_string() never asserts on what to_hex_string() made, and gives *)
(* the bytes back.                                                         *)
THEOREM HexRoundTrip ==
  ASSUME NEW d \in Seq(Byte)
  PROVE  ~HexAsserts(to_hex_string(d)) /\ from_hex_string(to_hex_string(d)) = d
  <1> DEFINE h == to_hex_string(d)
  <1>1. Len(d) \in Nat /\ Len(h) = 2 * Len(d) /\ Len(h) \div 2 = Len(d) /\ Len(h) % 2 = 0
    BY HexShape, LenProperties
  <1>2. ASSUME NEW j \in 1..Len(h) PROVE IsHexChar(h[j])
    <2>1. j \in 1..(2 * Len(d)) /\ (j + 1) \div 2 \in 1..Len(d)
      BY <1>1
    <2>2. d[(j + 1) \div 2] \in Byte
      BY <2>1
    <2> QED
      BY <2>1, <2>2, ByteNibbles, HexDigit DEF to_hex_string
  <1>3. ASSUME NEW i \in 1..Len(d)
        PROVE  16 * get_hex_char_val(h[2 * i - 1]) + get_hex_char_val(h[2 * i]) = d[i]
    <2>1. d[i] \in Byte
      OBVIOUS
    <2>2. /\ get_hex_char_val(h[2 * i - 1]) = d[i] \div 16
          /\ get_hex_char_val(h[2 * i]) = d[i] % 16
      BY <2>1, HexShape, HexDigit, ByteNibbles
    <2> QED
      BY <2>1, <2>2, ByteNibbles
  <1>4. from_hex_string(h) = [i \in 1..Len(d) |-> d[i]]
    BY <1>1, <1>3 DEF from_hex_string
  <1> QED
    BY <1>1, <1>2, <1>4 DEF HexAsserts
=============================================================================
