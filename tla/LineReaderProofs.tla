--------------------------- MODULE LineReaderProofs ---------------------------
(***************************************************************************)
(* Proofs about LineReader, for every length of a block and every file:    *)
(* the two threads hand the third block over without touching it at once,  *)
(* no read is waited for that nobody makes, the lines stay within the      *)
(* first two blocks, and they are the lines of the file.  Then about       *)
(* MachineTable, which is the reader with load_machines() for its client:  *)
(* what is loaded is the table that the file holds.                        *)
(***************************************************************************)
EXTENDS MachineTable, BytesProofs, FiniteSetTheorems

USE BlockLenAssumption

(* A read gives no more than what is asked for and what is left,           *)
LEMMA ChunkElements ==
    ASSUME TypeOK, NEW n \in Nat
    PROVE  /\ Chunk(n) \in Seq(Int) /\ Len(Chunk(n)) \in Nat
           /\ Len(Chunk(n)) = IF offset + n < Len(file) THEN n ELSE Len(file) - offset
           /\ \A i \in 1..Len(Chunk(n)): Chunk(n)[i] = file[offset + i]
<1> DEFINE end == IF offset + n < Len(file) THEN offset + n ELSE Len(file)
<1>1. Len(file) \in Nat /\ offset \in Nat /\ offset <= Len(file)
  BY LenProperties DEF TypeOK
<1>2. end \in Nat /\ end >= offset /\ end <= Len(file)
  BY <1>1
<1>3. file \in Seq(Int) /\ \A i \in (offset + 1)..end: i \in 1..Len(file)
  BY <1>1, <1>2 DEF TypeOK
<1>4. \A i \in (offset + 1)..end: file[i] \in Int
  BY <1>3, ElementOfSeq
<1>5. Chunk(n) = SubSeq(file, offset + 1, end)
  BY DEF Chunk
<1>6. end - offset = IF offset + n < Len(file) THEN n ELSE Len(file) - offset
  BY <1>1
<1> HIDE DEF end
<1>7. /\ SubSeq(file, offset + 1, end) \in Seq(Int)
      /\ Len(SubSeq(file, offset + 1, end)) = IF offset + 1 <= end THEN end - (offset + 1) + 1 ELSE 0
      /\ \A i \in 1..(end - (offset + 1) + 1):
             SubSeq(file, offset + 1, end)[i] = file[offset + 1 + i - 1]
  <2>1. offset + 1 \in Int /\ end \in Int
    BY <1>1, <1>2
  <2> QED
    BY <1>4, <2>1, SubSeqProperties
<1>8. end - (offset + 1) + 1 = end - offset /\ \A i \in Int: offset + 1 + i - 1 = offset + i
  BY <1>1, <1>2
<1>9. Len(Chunk(n)) = end - offset
  BY <1>1, <1>2, <1>5, <1>7
<1>10. \A i \in 1..(end - offset): Chunk(n)[i] = file[offset + i]
  BY <1>1, <1>2, <1>5, <1>7
<1> QED
  BY <1>1, <1>2, <1>5, <1>6, <1>7, <1>9, <1>10

LEMMA ChunkLength ==
    ASSUME TypeOK, NEW n \in Nat
    PROVE  /\ Chunk(n) \in Seq(Int) /\ Len(Chunk(n)) \in 0..n
           /\ offset + Len(Chunk(n)) <= Len(file)
           /\ Chunk(n) = <<>> => Len(Chunk(n)) = 0
<1>1. Len(file) \in Nat /\ offset \in Nat /\ offset <= Len(file)
  BY LenProperties DEF TypeOK
<1>2. /\ Chunk(n) \in Seq(Int) /\ Len(Chunk(n)) \in Nat
      /\ Len(Chunk(n)) = IF offset + n < Len(file) THEN n ELSE Len(file) - offset
  BY ChunkElements
<1> QED
  BY <1>1, <1>2, EmptySeq

(* The newline that is found is the first of the data, or it is their end. *)
LEMMA LineFound ==
    ASSUME data_begin \in Nat, data_end \in Nat, data_begin < data_end
    PROVE  /\ LineEnd \in data_begin..data_end
           /\ \A i \in data_begin..(LineEnd - 1): buffer[i] # NL
           /\ LineEnd # data_end => buffer[LineEnd] = NL
<1> DEFINE newlines == {i \in data_begin..(data_end - 1): buffer[i] = NL}
<1>1. CASE newlines = {}
  <2>1. LineEnd = data_end
    BY <1>1 DEF LineEnd
  <2> QED
    BY <1>1, <2>1
<1>2. CASE newlines # {}
  <2>1. newlines \in SUBSET Nat
    OBVIOUS
  <2>2. \E i \in newlines: \A j \in newlines: i <= j
    BY <1>2, <2>1, LeastNumber
  <2>3. (CHOOSE i \in newlines: \A j \in newlines: i <= j) \in newlines
        /\ \A j \in newlines: (CHOOSE i \in newlines: \A j2 \in newlines: i <= j2) <= j
    BY <2>2
  <2>4. LineEnd \in newlines /\ \A j \in newlines: LineEnd <= j
    BY <1>2, <2>3 DEF LineEnd
  <2> QED
    BY <2>4
<1> QED
  BY <1>1, <1>2

LEMMA LineEndWithinData ==
    ASSUME data_begin \in Nat, data_end \in Nat, data_begin < data_end
    PROVE  LineEnd \in data_begin..data_end
  BY LineFound

(* The buffer keeps its places when characters are copied.                 *)
LEMMA BufferTypes ==
    ASSUME buffer \in [Places -> Int]
    PROVE  /\ \A s \in Seq(Int), place \in Nat: Stored(buffer, place, s) \in [Places -> Int]
           /\ Moved(buffer, BlockLen, 0) \in [Places -> Int]
           /\ Moved(buffer, 2 * BlockLen, BlockLen) \in [Places -> Int]
           /\ \A e \in Int: Terminated(buffer, e) \in [Places -> Int]
<1>1. ASSUME NEW s \in Seq(Int), NEW place \in Nat
      PROVE  Stored(buffer, place, s) \in [Places -> Int]
  <2>1. Len(s) \in Nat
    BY LenProperties
  <2>2. \A i \in place..(place + Len(s) - 1): s[i - place + 1] \in Int
    <3> SUFFICES ASSUME NEW i \in place..(place + Len(s) - 1) PROVE s[i - place + 1] \in Int
      OBVIOUS
    <3>1. i - place + 1 \in 1..Len(s)
      BY <2>1
    <3> QED
      BY <3>1, ElementOfSeq
  <2> QED
    BY <2>2 DEF Stored
<1>2. Moved(buffer, BlockLen, 0) \in [Places -> Int]
  <2>1. \A i \in 0..(0 + BlockLen - 1): i - 0 + BlockLen \in Places
    BY DEF Places
  <2> QED
    BY <2>1 DEF Moved
<1>3. Moved(buffer, 2 * BlockLen, BlockLen) \in [Places -> Int]
  <2>1. \A i \in BlockLen..(BlockLen + BlockLen - 1): i - BlockLen + 2 * BlockLen \in Places
    BY DEF Places
  <2> QED
    BY <2>1 DEF Moved
<1>4. ASSUME NEW e \in Int PROVE Terminated(buffer, e) \in [Places -> Int]
  <2>1. \/ Terminated(buffer, e) = [buffer EXCEPT ![e] = 0, ![e - 1] = 0]
        \/ Terminated(buffer, e) = [buffer EXCEPT ![e] = 0]
    BY DEF Terminated
  <2> QED
    BY <2>1
<1> QED
  BY <1>1, <1>2, <1>3, <1>4

(* A C string ends at a null, wherever the first one is.                   *)
LEMMA CStringType ==
    ASSUME NEW b \in [Places -> Int], NEW place \in Nat,
           NEW z \in Places, place <= z, b[z] = 0
    PROVE  CString(b, place) \in Seq(Int)
<1> DEFINE Zeros == {n \in Places: place <= n /\ b[n] = 0}
           IsNull(n) == /\ n \in Places => b[n] = 0
                        /\ \A i \in place..(n - 1): b[i] # 0
           null == CHOOSE n \in place..(3 * BlockLen): IsNull(n)
<1>1. Zeros \in SUBSET Nat /\ Zeros # {}
  BY DEF Places
<1>2. PICK n \in Zeros: \A m \in Zeros: n <= m
  BY <1>1, LeastNumber
<1>3. n \in place..(3 * BlockLen) /\ IsNull(n)
  <2>1. n \in place..(3 * BlockLen) /\ n \in Places /\ b[n] = 0
    BY <1>2 DEF Places
  <2>2. ASSUME NEW i \in place..(n - 1), b[i] = 0 PROVE FALSE
    <3>1. i \in Places /\ place <= i /\ i < n
      BY <2>1 DEF Places
    <3>2. i \in Zeros
      BY <2>2, <3>1
    <3>3. n <= i
      BY <1>2, <3>2
    <3> QED
      BY <2>1, <3>1, <3>3
  <2> QED
    BY <2>1, <2>2
<1> HIDE DEF IsNull
<1>4. null \in place..(3 * BlockLen)
  BY <1>3
<1>5. CString(b, place) = [i \in 1..(null - place) |-> b[place + i - 1]]
  BY DEF CString, IsNull
<1> HIDE DEF null
<1>6. null - place \in Nat /\ \A i \in 1..(null - place): place + i - 1 \in Places
  BY <1>4 DEF Places
<1>7. CString(b, place) \in [1..(null - place) -> Int]
  BY <1>5, <1>6
<1> QED
  BY <1>6, <1>7, FunctionIsSequence

-----------------------------------------------------------------------------
(* Every variable keeps its type, at each step of the two threads.         *)
LEMMA TypeStep ==
    ASSUME TypeOK, Handshake, DataInBlocks, [Next]_vars
    PROVE  TypeOK'
<1>0. \A n \in Nat: /\ Len(Chunk(n)) \in 0..n /\ Chunk(n) \in Seq(Int)
                     /\ offset + Len(Chunk(n)) <= Len(file)
  BY ChunkLength
<1>01. /\ Len(Chunk(2 * BlockLen)) \in Nat
      /\ offset + Len(Chunk(2 * BlockLen)) <= Len(file)
      /\ Chunk(2 * BlockLen) \in Seq(Int)
  <2>1. 2 * BlockLen \in Nat
    OBVIOUS
  <2> DEFINE n == 2 * BlockLen
  <2>2. n \in Nat
    BY <2>1
  <2> HIDE DEF n
  <2>3. Len(Chunk(n)) \in Nat /\ offset + Len(Chunk(n)) <= Len(file) /\ Chunk(n) \in Seq(Int)
    BY <1>0, <2>2
  <2> QED
    BY <2>3 DEF n
<1> USE DEF TypeOK, source, reader, data, results
<1>02. Moved(buffer, BlockLen, 0) \in [Places -> Int]
       /\ Moved(buffer, 2 * BlockLen, BlockLen) \in [Places -> Int]
  BY BufferTypes
<1>1. CASE Construct
  <2>1. Len(Chunk(2 * BlockLen)) \in 0..Len(file)
    BY <1>01, LenProperties
  <2>2. Stored(buffer, 0, Chunk(2 * BlockLen)) \in [Places -> Int]
    <3>1. Chunk(2 * BlockLen) \in Seq(Int)
      BY <1>01
    <3> QED
      BY <3>1, BufferTypes
  <2> QED
    BY <1>1, <1>01, <2>1, <2>2 DEF Construct
<1>2. CASE NextLine
  BY <1>2, <1>02 DEF NextLine, DataInBlocks
<1>3. CASE FinishRead
  BY <1>3 DEF FinishRead
<1>4. CASE CopyBlock
  BY <1>4, <1>02 DEF CopyBlock
<1>5. CASE StartRead
  BY <1>5 DEF StartRead, Notified
<1>6. CASE Scan
  <2>1. /\ LineEnd \in data_begin..data_end /\ data_end <= 2 * BlockLen
        /\ data_begin \in Nat /\ data_end \in Nat
    BY <1>6, LineEndWithinData DEF Scan, DataInBlocks
  <2> DEFINE b == Terminated(buffer, LineEnd)
  <2>2. LineEnd \in Int /\ LineEnd \in Places /\ data_begin <= LineEnd
    BY <2>1 DEF Places
  <2>3. b \in [Places -> Int]
    BY <2>2, BufferTypes
  <2>4. b[LineEnd] = 0
    <3>1. \/ b = [buffer EXCEPT ![LineEnd] = 0, ![LineEnd - 1] = 0]
          \/ b = [buffer EXCEPT ![LineEnd] = 0]
      BY DEF Terminated
    <3> QED
      BY <2>2, <3>1
  <2> HIDE DEF b
  <2>5. CString(b, data_begin) \in Seq(Int)
    BY <2>1, <2>2, <2>3, <2>4, CStringType
  <2>6. Append(lines, CString(b, data_begin)) \in Seq(Seq(Int))
    BY <2>5
  <2>7. CASE TooLong
    BY <1>6, <2>7 DEF Scan
  <2>8. CASE ~TooLong
    <3>1. /\ buffer' = b /\ lines' = Append(lines, CString(b, data_begin))
          /\ data_begin' = LineEnd + 1
          /\ data_end' = IF LineEnd = data_end THEN data_end + 1 ELSE data_end
          /\ client' = "idle"
          /\ UNCHANGED <<outcome, file, offset, desired_byte_count, read_byte_count,
                         termination_requested, worker>>
      BY <1>6, <2>8 DEF Scan, b
    <3>2. data_begin' \in Nat /\ data_end' \in Nat
      BY <2>1, <2>2, <3>1
    <3> QED
      BY <2>3, <2>6, <3>1, <3>2
  <2> QED
    BY <2>7, <2>8
<1>7. CASE Destroy \/ Terminate \/ NotifyWorker \/ Join \/ ClientSpuriouslyWoken
  BY <1>7 DEF Destroy, Terminate, NotifyWorker, Join, ClientSpuriouslyWoken, Notified
<1>8. CASE Lock \/ Check \/ WorkerSpuriouslyWoken
  BY <1>8 DEF Lock, Check, WorkerSpuriouslyWoken
<1>9. CASE Read
  <2>1. CASE desired_byte_count = BlockLen
    <3>1. /\ offset + Len(Chunk(BlockLen)) <= Len(file)
          /\ Len(Chunk(BlockLen)) \in 0..BlockLen
      BY <1>0
    <3>2. offset + Len(Chunk(BlockLen)) \in 0..Len(file)
      BY <3>1, LenProperties
    <3> QED
      <4>1. Stored(buffer, 2 * BlockLen, Chunk(BlockLen)) \in [Places -> Int]
        <5>1. 2 * BlockLen \in Nat /\ Chunk(BlockLen) \in Seq(Int)
          BY <1>0
        <5> QED
          BY <5>1, BufferTypes
      <4> QED
        BY <1>9, <2>1, <3>1, <3>2, <4>1 DEF Read, Notified
  <2>2. CASE desired_byte_count = -1
    BY <1>9, <2>2 DEF Handshake, Read
  <2> QED
    BY <2>1, <2>2
<1>10. CASE UNCHANGED vars
  BY <1>10 DEF vars
<1> QED
  BY <1>1, <1>2, <1>3, <1>4, <1>5, <1>6, <1>7, <1>8, <1>9, <1>10
     DEF Next, ClientStep, WorkerStep

(* The handshake of the two threads.                                       *)
LEMMA HandshakeStep ==
    ASSUME TypeOK, Handshake, DataInBlocks, Drained, Requested, ReadIsComing, [Next]_vars
    PROVE  Handshake'
<1> USE DEF Handshake, source, reader, data, results
<1>1. CASE Construct
  BY <1>1 DEF Construct, TypeOK
<1>2. CASE NextLine
  BY <1>2 DEF NextLine
<1>3. CASE FinishRead
  BY <1>3 DEF FinishRead
<1>4. CASE CopyBlock
  BY <1>4 DEF CopyBlock
<1>5. CASE StartRead
  BY <1>5 DEF StartRead, Notified, LockIsFree, Holding
<1>6. CASE Scan
  BY <1>6 DEF Scan
<1>7. CASE Destroy \/ Terminate \/ NotifyWorker \/ Join \/ ClientSpuriouslyWoken
  BY <1>7 DEF Destroy, Terminate, NotifyWorker, Join, ClientSpuriouslyWoken, Notified
<1>8. CASE Lock \/ Check \/ WorkerSpuriouslyWoken
  BY <1>8 DEF Lock, Check, WorkerSpuriouslyWoken
<1>9. CASE Read
  BY <1>9, ChunkLength DEF Read, Notified, TypeOK
<1>10. CASE UNCHANGED vars
  BY <1>10 DEF vars
<1> QED
  BY <1>1, <1>2, <1>3, <1>4, <1>5, <1>6, <1>7, <1>8, <1>9, <1>10
     DEF Next, ClientStep, WorkerStep

(* The unread data stay within the first two blocks, and what is left to   *)
(* read after the worker has ended is less than a block.                   *)
LEMMA DataStep ==
    ASSUME TypeOK, Handshake, DataInBlocks, Drained, Requested, ReadIsComing, [Next]_vars
    PROVE  DataInBlocks' /\ Drained' /\ Requested' /\ ReadIsComing'
<1> USE DEF DataInBlocks, Drained, Requested, ReadIsComing, source, reader, data, results
<1>1. CASE Construct
  <2>1. /\ Len(Chunk(2 * BlockLen)) \in 0..(2 * BlockLen)
    <3> DEFINE n == 2 * BlockLen
    <3>1. n \in Nat
      OBVIOUS
    <3> HIDE DEF n
    <3>2. Len(Chunk(n)) \in 0..n
      BY <3>1, ChunkLength
    <3> QED
      BY <3>2 DEF n
  <2> QED
    BY <1>1, <2>1 DEF Construct, Handshake
<1>2. CASE NextLine
  BY <1>2 DEF NextLine, TypeOK, Handshake
<1>3. CASE FinishRead
  BY <1>3 DEF FinishRead, TypeOK, Handshake
<1>4. CASE CopyBlock
  BY <1>4 DEF CopyBlock, TypeOK, Handshake
<1>5. CASE StartRead
  BY <1>5 DEF StartRead, Notified, LockIsFree, Holding, TypeOK, Handshake
<1>6. CASE Scan
  <2>1. LineEnd \in data_begin..data_end
    BY <1>6, LineEndWithinData DEF Scan, TypeOK
  <2>2. LineEnd \in Nat /\ data_begin <= LineEnd /\ LineEnd <= data_end
    BY <2>1 DEF TypeOK
  <2>3. /\ client = "scans" /\ client' = "idle"
        /\ UNCHANGED <<worker, desired_byte_count, read_byte_count>>
        /\ \/ UNCHANGED <<data_begin, data_end>>
           \/ data_begin' = data_end + 1 /\ data_end' = data_end + 1
           \/ /\ LineEnd # data_end
              /\ data_begin' = LineEnd + 1 /\ data_end' = data_end
    BY <1>6 DEF Scan
  <2>4. DataInBlocks'
    BY <2>2, <2>3 DEF TypeOK
  <2>5. Drained' /\ Requested' /\ ReadIsComing'
    BY <2>2, <2>3 DEF TypeOK
  <2> QED
    BY <2>4, <2>5
<1>7. CASE Destroy \/ Terminate \/ NotifyWorker \/ Join \/ ClientSpuriouslyWoken
  BY <1>7 DEF Destroy, Terminate, NotifyWorker, Join, ClientSpuriouslyWoken, Notified, Handshake
<1>8. CASE Lock \/ Check \/ WorkerSpuriouslyWoken
  BY <1>8 DEF Lock, Check, WorkerSpuriouslyWoken, Handshake
<1>9. CASE Read
  <2>1. worker = "reads" /\ desired_byte_count = BlockLen
    BY <1>9 DEF Read, TypeOK, Handshake
  <2>2. Len(Chunk(BlockLen)) \in Nat
    BY ChunkLength
  <2>3. /\ read_byte_count' \in Nat
        /\ client' = IF client = "waits" THEN "woken" ELSE client
        /\ worker' \in {"ended", "checks"} /\ UNCHANGED <<data_begin, data_end>>
    BY <1>9, <2>1, <2>2 DEF Read, Notified
  <2>4. client \notin {"copies", "start_read"}
    BY <2>1 DEF TypeOK, Handshake
  <2> QED
    BY <2>3, <2>4
<1>10. CASE UNCHANGED vars
  BY <1>10 DEF vars
<1> QED
  BY <1>1, <1>2, <1>3, <1>4, <1>5, <1>6, <1>7, <1>8, <1>9, <1>10
     DEF Next, ClientStep, WorkerStep

(* The types and the order of the reads are inductive, for every length of *)
(* a block and every file (csv.hpp:202-285, 343-486).                      *)
LEMMA OrderInitially == Init => TypeOK /\ ReadsInOrder
<1> SUFFICES ASSUME Init PROVE TypeOK /\ ReadsInOrder
  OBVIOUS
<1>1. file \in Seq(Int) /\ Len(file) \in Nat
  BY FilesAssumption, LenProperties DEF Init
<1>2. TypeOK
  <2>1. offset \in 0..Len(file)
    BY <1>1 DEF Init
  <2>2. buffer \in [Places -> Int] /\ lines \in Seq(Seq(Int))
    BY DEF Init, Uninitialized
  <2>3. read_byte_count \in -1..BlockLen
    BY DEF Init
  <2> QED
    BY <1>1, <2>1, <2>2, <2>3 DEF Init, TypeOK
<1>3. ReadsInOrder
  BY DEF Init, ReadsInOrder, Handshake, DataInBlocks, Drained, Requested, ReadIsComing
<1> QED
  BY <1>2, <1>3

LEMMA OrderCorrect == Spec => [](TypeOK /\ ReadsInOrder)
<1>1. Init => TypeOK /\ ReadsInOrder
  BY OrderInitially
<1>2. TypeOK /\ ReadsInOrder /\ [Next]_vars => (TypeOK /\ ReadsInOrder)'
  BY TypeStep, HandshakeStep, DataStep DEF ReadsInOrder
<1> QED
  BY <1>1, <1>2, PTL DEF Spec

-----------------------------------------------------------------------------
(* Every variable keeps its type: no read goes behind the file, and no     *)
(* index becomes negative when the blocks are shifted.                     *)
THEOREM LineReaderTypeCorrect == Spec => []TypeOK
  BY OrderCorrect, PTL

(* The inductive invariant of the theorems below.                          *)
THEOREM ReadsInOrderCorrect == Spec => []ReadsInOrder
  BY OrderCorrect, PTL

(* The worker and next_line() never have the third block at the same time, *)
(* and the worker is gone when the buffer is freed.                        *)
THEOREM NoRaceCorrect == Spec => []NoRace
<1>1. TypeOK /\ ReadsInOrder => NoRace
  BY DEF ReadsInOrder, Handshake, NoRace
<1> QED
  BY <1>1, OrderCorrect, PTL

(* finish_read() never waits for a worker that has ended.                  *)
THEOREM ReadIsComingCorrect == Spec => []ReadIsComing
<1>1. ReadsInOrder => ReadIsComing
  BY DEF ReadsInOrder
<1> QED
  BY <1>1, OrderCorrect, PTL

(* The assertions of next_line() hold, and the null behind a line is never *)
(* stored in the block that the worker fills.                              *)
THEOREM StaysInBlocksCorrect == Spec => []StaysInBlocks
<1>1. TypeOK /\ ReadsInOrder => StaysInBlocks
  <2> SUFFICES ASSUME TypeOK, ReadsInOrder PROVE StaysInBlocks
    OBVIOUS
  <2>1. ASSUME client = "idle", data_begin # data_end
        PROVE  data_begin < data_end /\ data_end <= 2 * BlockLen
    BY <2>1 DEF ReadsInOrder, DataInBlocks, TypeOK
  <2>2. ASSUME client = "scans", ~TooLong PROVE LineEnd < 2 * BlockLen
    <3>1. data_begin < BlockLen /\ data_begin < data_end /\ data_end <= 2 * BlockLen
      BY <2>2 DEF ReadsInOrder, DataInBlocks
    <3>2. LineEnd \in data_begin..data_end
      BY <3>1, LineEndWithinData DEF TypeOK
    <3> QED
      BY <2>2, <3>1, <3>2 DEF TooLong, TypeOK
  <2> QED
    BY <2>1, <2>2 DEF StaysInBlocks
<1> QED
  BY <1>1, OrderCorrect, PTL

-----------------------------------------------------------------------------
(* The lines of a file, by the places of their ends.                       *)

Text(f) == Promised!Content(f)
Ends(c) == Promised!Ends(c)
Counted(c, p) == Cardinality({i \in Ends(c): i <= p})

(* Cardinality is the same in the abstract specification.                  *)
LEMMA SameCardinality ==
    ASSUME NEW S
    PROVE  Promised!Cardinality(S) = Cardinality(S)
  BY Zenon DEF Promised!Cardinality, Cardinality

LEMMA EndsArePlaces ==
    ASSUME NEW c \in Seq(Int)
    PROVE  /\ Len(c) \in Nat /\ Ends(c) \in SUBSET (1..Len(c))
           /\ \A q \in Ends(c): q \in Int /\ 1 <= q /\ q <= Len(c)
<1>1. Len(c) \in Nat
  BY LenProperties
<1>2. Ends(c) \in SUBSET (1..Len(c))
  BY DEF Ends, Promised!Ends
<1> QED
  BY <1>1, <1>2

LEMMA EndsFinite ==
    ASSUME NEW c \in Seq(Int), NEW p \in Int
    PROVE  /\ Ends(c) \in SUBSET (1..Len(c)) /\ Len(c) \in Nat
           /\ IsFiniteSet(Ends(c)) /\ IsFiniteSet({i \in Ends(c): i <= p})
           /\ Counted(c, p) \in Nat /\ Counted(c, p) <= Cardinality(Ends(c))
<1>1. Len(c) \in Nat
  BY LenProperties
<1>2. Ends(c) \in SUBSET (1..Len(c))
  BY DEF Ends, Promised!Ends
<1>3. IsFiniteSet(1..Len(c))
  BY <1>1, FS_Interval
<1>4. IsFiniteSet(Ends(c))
  BY <1>2, <1>3, FS_Subset
<1> DEFINE S == {i \in Ends(c): i <= p}
<1>5. S \in SUBSET Ends(c)
  OBVIOUS
<1>6. IsFiniteSet(S) /\ Cardinality(S) <= Cardinality(Ends(c))
  BY <1>4, <1>5, FS_Subset
<1>7. Cardinality(S) \in Nat
  BY <1>6, FS_CardinalityType
<1> QED
  BY <1>1, <1>2, <1>4, <1>6, <1>7 DEF Counted

(* The next end counts one more,                                           *)
LEMMA NextEndCounts ==
    ASSUME NEW c \in Seq(Int), NEW p \in Nat, NEW q \in Ends(c), p < q,
           \A i \in (p + 1)..(q - 1): i \notin Ends(c)
    PROVE  Counted(c, q) = Counted(c, p) + 1
<1> DEFINE S == {i \in Ends(c): i <= p}
           T == {i \in Ends(c): i <= q}
<1>1. IsFiniteSet(S) /\ Ends(c) \in SUBSET Int
  <2>1. p \in Int /\ Ends(c) \in SUBSET Int
    BY EndsArePlaces
  <2> QED
    BY <2>1, EndsFinite
<1>2. q \in Int /\ q \notin S
  BY <1>1
<1>3. T = S \cup {q}
  BY <1>1, <1>2
<1>4. Cardinality(S \cup {q}) = Cardinality(S) + 1
  BY <1>1, <1>2, FS_AddElement
<1> QED
  BY <1>3, <1>4 DEF Counted

(* so that a count tells the end.                                          *)
LEMMA CountTellsEnd ==
    ASSUME NEW c \in Seq(Int), NEW p \in Int, p = 0 \/ p \in Ends(c)
    PROVE  Promised!EndOf(c, Counted(c, p)) = p
<1> DEFINE S(i) == {j \in Ends(c): j <= i}
<1>1. \A q \in Ends(c): q \in Int /\ 1 <= q
  BY EndsArePlaces
<1>0. \A i \in Int: IsFiniteSet(S(i))
  BY EndsFinite
<1>2. CASE p = 0
  <2>1. S(p) = {}
    BY <1>1, <1>2
  <2> QED
    <3>1. Counted(c, p) = 0
      BY <2>1, FS_EmptySet DEF Counted
    <3> QED
      BY <1>2, <3>1 DEF Promised!EndOf
<1>3. CASE p \in Ends(c)
  <2>1. \A i \in Ends(c): Counted(c, i) = Counted(c, p) => i = p
    <3> SUFFICES ASSUME NEW i \in Ends(c), NEW k \in Ends(c), i < k,
                        Counted(c, i) = Counted(c, k)
                 PROVE  FALSE
      BY <1>1, <1>3
    <3>1. i \in Int /\ k \in Int
      BY <1>1
    <3>2. S(i) \in SUBSET S(k) /\ k \in S(k) /\ k \notin S(i)
      <4>1. \A q \in Ends(c): q <= i => q <= k
        BY <1>1, <3>1
      <4>2. ~(k <= i) /\ k <= k
        BY <3>1
      <4>3. S(i) \in SUBSET S(k)
        BY <4>1
      <4>4. k \in S(k) /\ k \notin S(i)
        BY <4>2
      <4> QED
        BY <4>3, <4>4
    <3>3. IsFiniteSet(S(k)) /\ Cardinality(S(k)) = Cardinality(S(i))
      BY <1>0, <3>1 DEF Counted
    <3> HIDE DEF S
    <3>4. S(k) = S(i)
      BY <3>2, <3>3, FS_Subset
    <3> QED
      BY <3>2, <3>4
  <2>2. Counted(c, p) # 0
    <3>1. p \in S(p) /\ IsFiniteSet(S(p))
      BY <1>0, <1>1, <1>3
    <3> HIDE DEF S
    <3>2. Cardinality(S(p)) # 0
      BY <3>1, FS_EmptySet
    <3> QED
      BY <3>2 DEF Counted, S
  <2> DEFINE k == Counted(c, p)
  <2>3. \A i \in Ends(c): Promised!Cardinality(S(i)) = k <=> i = p
    BY <1>3, <2>1, SameCardinality, Zenon DEF Counted
  <2>4. \A i \in Promised!Ends(c):
            Promised!Cardinality({j \in Promised!Ends(c): j <= i}) = k <=> i = p
    BY <2>3, Zenon DEF Ends
  <2>5. p \in Promised!Ends(c) /\ k # 0
    BY <1>3, <2>2 DEF Ends
  <2> HIDE DEF k
  <2>6. Promised!EndOf(c, k) = p
    BY <2>4, <2>5 DEF Promised!EndOf
  <2> QED
    BY <2>6 DEF k
<1> QED
  BY <1>2, <1>3

(* The text of a file goes on behind its mark.                             *)
LEMMA TextOfFile ==
    ASSUME file \in Seq(Int)
    PROVE  /\ Text(file) \in Seq(Int) /\ MarkLength \in {0, 3} /\ Len(file) \in Nat
           /\ Len(Text(file)) = Len(file) - MarkLength /\ Len(Text(file)) \in Nat
           /\ \A i \in 1..Len(Text(file)): Text(file)[i] = file[MarkLength + i]
<1>1. Len(file) \in Nat
  BY LenProperties
<1> DEFINE mark == Len(file) >= 3 /\ SubSeq(file, 1, 3) = BOM
<1>2. CASE ~mark
  <2>1. Text(file) = file /\ MarkLength = 0
    BY <1>2 DEF Text, Promised!Content, MarkLength, BOM, Promised!BOM
  <2> QED
    BY <1>1, <2>1
<1>3. CASE mark
  <2>1. Text(file) = SubSeq(file, 4, Len(file)) /\ MarkLength = 3
    BY <1>3 DEF Text, Promised!Content, MarkLength, BOM, Promised!BOM
  <2>2. \A i \in 4..Len(file): file[i] \in Int
    BY <1>1, ElementOfSeq
  <2>3. /\ SubSeq(file, 4, Len(file)) \in Seq(Int)
        /\ Len(SubSeq(file, 4, Len(file))) = IF 4 <= Len(file) THEN Len(file) - 4 + 1 ELSE 0
        /\ \A i \in 1..(Len(file) - 4 + 1): SubSeq(file, 4, Len(file))[i] = file[4 + i - 1]
    BY <1>1, <2>2, SubSeqProperties
  <2>4. Len(Text(file)) = Len(file) - MarkLength /\ Text(file) \in Seq(Int)
    <3>1. /\ Len(Text(file)) = IF 4 <= Len(file) THEN Len(file) - 4 + 1 ELSE 0
          /\ Text(file) \in Seq(Int)
      BY <2>1, <2>3, Zenon
    <3> DEFINE n == Len(file)
               t == Len(Text(file))
    <3>2. n \in Nat /\ n >= 3 /\ MarkLength = 3 /\ t = IF 4 <= n THEN n - 4 + 1 ELSE 0
      BY <1>1, <1>3, <2>1, <3>1, Zenon
    <3> HIDE DEF n, t
    <3>3. t = n - MarkLength
      BY <3>2
    <3> QED
      BY <3>1, <3>3, Zenon DEF n, t
  <2>5. ASSUME NEW i \in 1..Len(Text(file)) PROVE Text(file)[i] = file[MarkLength + i]
    <3>1. i \in 1..(Len(file) - 4 + 1) /\ 4 + i - 1 = 3 + i
      BY <1>1, <2>1, <2>4
    <3> QED
      BY <2>1, <2>3, <3>1
  <2> QED
    BY <1>1, <1>3, <2>1, <2>4, <2>5
<1> QED
  BY <1>2, <1>3

(* The line between an end and the next.                                   *)
LEMMA LineBetweenEnds ==
    ASSUME file \in Seq(Int), NEW c, c = Text(file),
           NEW p \in Nat, p = 0 \/ p \in Ends(c), NEW q \in Ends(c), p < q,
           \A i \in (p + 1)..(q - 1): i \notin Ends(c),
           NEW k, k = Counted(c, p)
    PROVE  LET raw == Promised!RawLine(file, k + 1)
               m == IF c[q] = NL THEN q - p - 1 ELSE q - p
           IN  /\ k \in Nat /\ k < Promised!LineCount(file)
               /\ raw \in Seq(Int) /\ Len(raw) = m
               /\ \A i \in 1..m: raw[i] = c[p + i]
<1>1. c \in Seq(Int) /\ Len(c) \in Nat /\ \A i \in 1..Len(c): c[i] \in Int
  BY TextOfFile, ElementOfSeq
<1>2. q \in 1..Len(c) /\ q \in Int
  BY <1>1, EndsArePlaces
<1>3. k \in Nat /\ Counted(c, q) = k + 1 /\ k + 1 <= Cardinality(Ends(c))
  <2>1. k \in Nat
    <3>1. p \in Int
      OBVIOUS
    <3>2. Counted(c, p) \in Nat
      BY <1>1, <3>1, EndsFinite
    <3> QED
      BY <3>2
  <2>2. Counted(c, q) = k + 1
    BY <1>1, NextEndCounts
  <2>3. Counted(c, q) <= Cardinality(Ends(c))
    BY <1>1, <1>2, EndsFinite
  <2> QED
    BY <2>1, <2>2, <2>3
<1>4. Promised!EndOf(c, k) = p /\ Promised!EndOf(c, k + 1) = q
  BY <1>1, <1>2, <1>3, CountTellsEnd
<1> DEFINE s == SubSeq(c, p + 1, q)
<1>5. /\ s \in Seq(Int) /\ Len(s) = q - p
      /\ \A i \in 1..(q - p): s[i] = c[p + i]
  <2>1. p + 1 \in Int /\ \A i \in (p + 1)..q: c[i] \in Int
    BY <1>1, <1>2
  <2>2. /\ s \in Seq(Int) /\ Len(s) = IF p + 1 <= q THEN q - (p + 1) + 1 ELSE 0
        /\ \A i \in 1..(q - (p + 1) + 1): s[i] = c[p + 1 + i - 1]
    BY <1>2, <2>1, SubSeqProperties
  <2> QED
    BY <1>2, <2>2
<1>6. (k + 1) - 1 = k
  BY <1>3
<1>7. Promised!RawLine(file, k + 1) = Promised!WithoutNewline(s)
  BY <1>4, <1>6, Zenon DEF Promised!RawLine, Text
<1> HIDE DEF s
<1>8. s # <<>> /\ s[Len(s)] = c[q]
  BY <1>2, <1>5, EmptySeq
<1>9. k < Promised!LineCount(file)
  <2>1. Promised!LineCount(file) = Cardinality(Ends(c))
    <3>1. Promised!LineCount(file) = Cardinality(Ends(Text(file)))
      BY SameCardinality, Zenon DEF Promised!LineCount, Ends, Text
    <3> QED
      BY <3>1
  <2>2. Cardinality(Ends(c)) \in Nat
    BY <1>1, <1>2, EndsFinite, FS_CardinalityType
  <2> QED
    BY <1>3, <2>1, <2>2
<1>10. CASE c[q] # NL
  BY <1>3, <1>5, <1>7, <1>8, <1>9, <1>10 DEF Promised!WithoutNewline, NL, Promised!NL
<1>11. CASE c[q] = NL
  <2>1. Promised!RawLine(file, k + 1) = SubSeq(s, 1, Len(s) - 1)
    BY <1>7, <1>8, <1>11 DEF Promised!WithoutNewline, NL, Promised!NL
  <2>2. \A i \in 1..(q - p - 1): s[i] \in Int
    BY <1>2, <1>5, ElementOfSeq
  <2>3. /\ SubSeq(s, 1, q - p - 1) \in Seq(Int)
        /\ Len(SubSeq(s, 1, q - p - 1)) = IF 1 <= q - p - 1 THEN q - p - 1 - 1 + 1 ELSE 0
        /\ \A i \in 1..(q - p - 1 - 1 + 1): SubSeq(s, 1, q - p - 1)[i] = s[1 + i - 1]
    <3>1. 1 \in Int /\ q - p - 1 \in Int
      BY <1>2
    <3> QED
      BY ONLY <2>2, <3>1, SubSeqProperties
  <2> DEFINE raw == Promised!RawLine(file, k + 1)
  <2>4. /\ raw \in Seq(Int) /\ Len(raw) = q - p - 1
        /\ \A i \in 1..(q - p - 1): raw[i] = s[i]
    <3>1. raw = SubSeq(s, 1, q - p - 1)
      BY <1>5, <2>1
    <3> HIDE DEF raw
    <3> QED
      BY <1>2, <2>3, <3>1
  <2> HIDE DEF raw
  <2>5. \A i \in 1..(q - p - 1): raw[i] = c[p + i]
    <3>1. \A i \in 1..(q - p - 1): i \in 1..(q - p)
      BY <1>2
    <3> QED
      BY ONLY <1>5, <2>4, <3>1, Zenon
  <2> QED
    BY <1>3, <1>9, <1>11, <2>4, <2>5 DEF raw
<1> QED
  BY <1>10, <1>11
-----------------------------------------------------------------------------
(* The data go on from the same place, and the same lines are in front.    *)
LEMMA LinesKept ==
    ASSUME LinesSoFar, Alive, UNCHANGED <<file, lines>>, Begin' = Begin,
           client' \notin {"idle", "first_read"} => outcome' = "lines"
    PROVE  LinesSoFar'
  BY DEF LinesSoFar, MarkLength

LEMMA FileInBlocksAtConstruct ==
    ASSUME TypeOK, ReadsInOrder, FileInBlocks, Construct
    PROVE  FileInBlocks' /\ BlocksAreFull' /\ LinesSoFar'
<1> DEFINE n == 2 * BlockLen
           read == Chunk(n)
<1>1. /\ client = "new" /\ worker = "none" /\ offset = 0 /\ lines = <<>>
      /\ read_byte_count = -1 /\ file \in Seq(Int)
  BY DEF Construct, ReadsInOrder, Handshake, FileInBlocks, TypeOK
<1>2. n \in Nat /\ n >= 4
  OBVIOUS
<1>3. Len(file) \in Nat
  BY <1>1, LenProperties
<1>4. /\ UNCHANGED <<file, read_byte_count, lines>>
      /\ buffer' = Stored(buffer, 0, read)
      /\ offset' = Len(read) /\ data_end' = Len(read)
      /\ data_begin' = IF Len(read) >= 3 /\ SubSeq(read, 1, 3) = BOM THEN 3 ELSE 0
      /\ client' \in {"first_read", "idle"}
      /\ worker' = "none" => Len(read) # n
  BY <1>1 DEF Construct, source, reader, results
<1> HIDE DEF n
<1>5. /\ read \in Seq(Int) /\ Len(read) \in Nat
      /\ Len(read) = IF offset + n < Len(file) THEN n ELSE Len(file) - offset
      /\ \A i \in 1..Len(read): read[i] = file[offset + i]
  BY <1>2, ChunkElements
<1> HIDE DEF read
<1>6. /\ Len(read) = IF n < Len(file) THEN n ELSE Len(file)
      /\ \A i \in 1..Len(read): read[i] = file[i]
  <2>1. offset = 0 /\ \A i \in 1..Len(read): offset + i = i
    BY <1>1, <1>5
  <2> QED
    BY ONLY <1>2, <1>3, <1>5, <2>1
<1>7. data_begin' = MarkLength
  <2>1. Len(read) >= 3 <=> Len(file) >= 3
    BY <1>2, <1>3, <1>6
  <2>2. ASSUME Len(read) >= 3 PROVE SubSeq(read, 1, 3) = SubSeq(file, 1, 3)
    <3>1. Len(file) >= 3
      BY <2>1, <2>2
    <3>2. \A i \in 1..3: read[i] = file[i] /\ read[i] \in Int
      BY <1>5, <1>6, <2>2, ElementOfSeq
    <3>3. /\ SubSeq(read, 1, 3) = [i \in 1..3 |-> read[1 + i - 1]]
          /\ SubSeq(file, 1, 3) = [i \in 1..3 |-> file[1 + i - 1]]
      OBVIOUS
    <3>4. \A i \in 1..3: 1 + i - 1 = i
      OBVIOUS
    <3> QED
      BY <3>2, <3>3, <3>4
  <2> QED
    BY <1>4, <2>1, <2>2 DEF MarkLength
<1>8. MarkLength' = MarkLength /\ MarkLength \in {0, 3} /\ MarkLength <= Len(read)
  BY <1>2, <1>3, <1>4, <1>6 DEF MarkLength
<1>9. Pending' = 0 /\ Begin' = MarkLength
  <2>1. Pending' = 0
    BY <1>1, <1>4 DEF Pending
  <2> QED
    BY <1>4, <1>5, <1>7, <1>8, <2>1 DEF Begin
<1>10. FileInBlocks'
  <2>1. ASSUME NEW i \in data_begin'..(data_end' - 1)
        PROVE  Cell(i)' = file'[Begin' + i - data_begin' + 1]
    <3>1. i \in Int /\ i >= 0 /\ i < Len(read) /\ Begin' + i - data_begin' + 1 = i + 1
      BY <1>4, <1>5, <1>7, <1>8, <1>9
    <3>2. i + 1 \in 1..Len(read) /\ i \in 0..(0 + Len(read) - 1) /\ i \in Places /\ i - 0 + 1 = i + 1
      BY <1>2, <1>3, <1>5, <1>6, <3>1 DEF Places, n
    <3>3. buffer'[i] = read[i + 1]
      BY <1>4, <3>2 DEF Stored
    <3>4. Cell(i)' = buffer'[i]
      BY <1>4 DEF Cell
    <3> QED
      BY <1>4, <1>6, <3>1, <3>2, <3>3, <3>4
  <2> QED
    BY <1>4, <1>9, <2>1 DEF FileInBlocks
<1>11. BlocksAreFull'
  <2>1. Len(read) # n => Len(read) = Len(file)
    BY <1>6
  <2>2. read_byte_count' \notin 0..(BlockLen - 1)
    BY <1>1, <1>4
  <2>3. \/ offset' - Pending' = Len(file')
        \/ data_begin' < data_end' /\ data_end' >= 2 * BlockLen
    BY <1>2, <1>4, <1>5, <1>9, <2>1 DEF n
  <2> QED
    BY <1>1, <1>4, <2>1, <2>2, <2>3 DEF BlocksAreFull
<1>12. LinesSoFar'
  <2> DEFINE ends == Promised!Ends(Promised!Content(file))
  <2>1. {i \in ends: i <= 0} = {}
    <3>1. Text(file) \in Seq(Int)
      BY <1>1, TextOfFile
    <3>2. \A q \in Ends(Text(file)): q \in Int /\ 1 <= q
      BY <3>1, EndsArePlaces
    <3> QED
      BY <3>2 DEF Ends, Text
  <2>2. Cardinality({i \in ends: i <= 0}) = 0
    BY <2>1, FS_EmptySet
  <2>3. Len(lines') = 0 /\ Begin' - MarkLength' = 0
    BY <1>1, <1>4, <1>8, <1>9
  <2> QED
    BY <1>4, <1>8, <1>9, <2>2, <2>3 DEF LinesSoFar
<1> QED
  BY <1>10, <1>11, <1>12

LEMMA FileInBlocksAtNextLine ==
    ASSUME TypeOK, ReadsInOrder, FileInBlocks, BlocksAreFull, LinesSoFar, NextLine
    PROVE  FileInBlocks' /\ BlocksAreFull' /\ LinesSoFar'
<1>1. /\ client = "idle" /\ outcome = "lines"
      /\ UNCHANGED <<file, offset, read_byte_count, worker, lines>>
  BY DEF NextLine, source, reader
<1>2. CASE UNCHANGED <<buffer, data_begin, data_end>> /\ client' \in {"idle", "scans"}
  <2>1. Alive /\ Pending' = Pending /\ Begin' = Begin
    BY <1>1, <1>2 DEF Alive, Pending, Begin
  <2>2. client' \notin {"idle", "first_read"} => outcome' = "lines"
    BY <1>1, <1>2 DEF NextLine
  <2>3. LinesSoFar'
    BY <1>1, <2>1, <2>2, LinesKept
  <2>4. \A i: Cell(i)' = Cell(i)
    BY <1>1, <1>2 DEF Cell
  <2>5. FileInBlocks'
    BY <1>1, <1>2, <2>1, <2>4 DEF FileInBlocks
  <2>6. BlocksAreFull'
    BY <1>1, <1>2, <2>1 DEF BlocksAreFull
  <2> QED
    BY <2>3, <2>5, <2>6
<1>3. CASE /\ data_begin # data_end /\ data_begin >= BlockLen
           /\ outcome' = outcome
           /\ buffer' = Moved(buffer, BlockLen, 0)
           /\ data_begin' = data_begin - BlockLen
           /\ data_end' = data_end - BlockLen
           /\ client' = IF worker = "none" THEN "scans" ELSE "finish_read"
  <2>1. data_begin \in Nat /\ data_end \in Nat /\ data_end <= 2 * BlockLen /\ offset \in Int
    BY <1>1, <1>3 DEF TypeOK, ReadsInOrder, DataInBlocks
  <2>2. Alive /\ Pending' = Pending /\ Pending \in Int
    BY <1>1, <1>3 DEF Alive, Pending, TypeOK
  <2>3. Begin' = Begin /\ Begin' - data_begin' = Begin - data_begin + BlockLen /\ Begin \in Int
    BY <1>1, <1>3, <2>1, <2>2 DEF Begin
  <2>4. LinesSoFar'
    BY <1>1, <1>3, <2>2, <2>3, LinesKept
  <2>5. ASSUME NEW i \in data_begin'..(data_end' - 1)
        PROVE  Cell(i)' = file'[Begin' + i - data_begin' + 1]
    <3> DEFINE j == i + BlockLen
    <3>1. /\ i \in Int /\ i \in 0..(0 + BlockLen - 1) /\ i \in Places /\ j \in data_begin..(data_end - 1)
          /\ i - 0 + BlockLen = j
      BY <1>3, <2>1 DEF Places
    <3>2. buffer'[i] = buffer[j]
      BY <1>3, <3>1 DEF Moved
    <3>3. Cell(i)' = buffer'[i] /\ Cell(j) = buffer[j]
      BY <1>1, <1>3 DEF Cell
    <3>4. Cell(j) = file[Begin + j - data_begin + 1]
      BY <2>2, <3>1 DEF FileInBlocks
    <3>5. Begin' + i - data_begin' + 1 = Begin + j - data_begin + 1
      BY <1>3, <2>1, <2>3, <3>1
    <3> QED
      BY <1>1, <3>2, <3>3, <3>4, <3>5
  <2>6. ASSUME NEW i \in 1..Pending'
        PROVE  buffer'[2 * BlockLen + i - 1] = file'[offset' - Pending' + i]
    <3> DEFINE k == 2 * BlockLen + i - 1
    <3>0. Pending <= BlockLen
      BY DEF Pending, TypeOK
    <3>1. i \in Int /\ k \in Places /\ k \notin 0..(0 + BlockLen - 1)
      BY <2>2, <3>0 DEF Places
    <3>2. buffer'[k] = buffer[k]
      BY <1>3, <3>1 DEF Moved
    <3>3. buffer[k] = file[offset - Pending + i]
      BY <2>2 DEF FileInBlocks
    <3> QED
      BY <1>1, <2>2, <3>2, <3>3
  <2>7. FileInBlocks'
    BY <1>3, <2>5, <2>6 DEF FileInBlocks
  <2>8. BlocksAreFull'
    BY <1>1, <1>3, <2>1, <2>2 DEF BlocksAreFull, Pending
  <2> QED
    BY <2>4, <2>7, <2>8
<1> QED
  BY <1>1, <1>2, <1>3 DEF NextLine, data

LEMMA FileInBlocksAtFinishRead ==
    ASSUME TypeOK, ReadsInOrder, FileInBlocks, BlocksAreFull, LinesSoFar, FinishRead
    PROVE  FileInBlocks' /\ BlocksAreFull' /\ LinesSoFar'
<1>1. /\ client \in {"finish_read", "woken"} /\ outcome' = outcome /\ outcome = "lines"
      /\ UNCHANGED <<file, offset, read_byte_count, buffer, data_begin, worker, lines>>
  BY DEF FinishRead, source, reader, results, LinesSoFar, Alive
<1>2. /\ data_begin \in Nat /\ data_end \in Nat /\ data_begin < data_end /\ data_end <= BlockLen
      /\ offset \in Int /\ offset <= Len(file) /\ Len(file) \in Nat /\ read_byte_count \in -1..BlockLen
  <2>1. Len(file) \in Nat /\ offset \in 0..Len(file)
    BY LenProperties DEF TypeOK
  <2> QED
    BY <1>1, <2>1 DEF TypeOK, ReadsInOrder, DataInBlocks
<1>3. Alive
  BY <1>1 DEF Alive
<1>4. CASE read_byte_count = -1
  <2>1. client' = "waits" /\ data_end' = data_end
    BY <1>4 DEF FinishRead
  <2>2. Pending' = Pending /\ Begin' = Begin
    BY <1>1, <1>4, <2>1 DEF Pending, Begin
  <2>3. LinesSoFar'
    BY <1>1, <1>3, <2>2, LinesKept
  <2>4. \A i: Cell(i)' = Cell(i)
    BY <1>1, <2>1 DEF Cell
  <2>5. FileInBlocks'
    BY <1>1, <1>3, <2>1, <2>2, <2>4 DEF FileInBlocks
  <2>6. BlocksAreFull'
    BY <1>1, <1>3, <2>1, <2>2 DEF BlocksAreFull
  <2> QED
    BY <2>3, <2>5, <2>6
<1>5. CASE read_byte_count # -1
  <2>1. client' = "copies" /\ data_end' = data_end + read_byte_count
    BY <1>5 DEF FinishRead
  <2>2. Pending = read_byte_count /\ Pending' = 0 /\ read_byte_count \in 0..BlockLen
    BY <1>1, <1>2, <1>5, <2>1 DEF Pending
  <2>3. Begin' = Begin /\ Begin - data_begin = offset - read_byte_count - data_end
    BY <1>1, <1>2, <2>1, <2>2 DEF Begin
  <2>4. read_byte_count > 0 => data_end = BlockLen
    BY <1>2, <1>3, <2>2 DEF BlocksAreFull
  <2>5. LinesSoFar'
    BY <1>1, <1>3, <2>3, LinesKept
  <2>6. ASSUME NEW i \in data_begin'..(data_end' - 1)
        PROVE  Cell(i)' = file'[Begin' + i - data_begin' + 1]
    <3>1. i \in Int /\ data_begin <= i /\ i < data_end + read_byte_count
      BY <1>1, <1>2, <2>1, <2>2
    <3>2. CASE i < data_end
      <4>1. i \in data_begin..(data_end - 1) /\ ~(i >= BlockLen)
        BY <1>2, <3>1, <3>2
      <4>2. Cell(i) = file[Begin + i - data_begin + 1]
        BY <1>3, <4>1 DEF FileInBlocks
      <4>3. Cell(i)' = Cell(i)
        BY <1>1, <4>1 DEF Cell
      <4> QED
        BY <1>1, <2>3, <4>2, <4>3
    <3>3. CASE i >= data_end
      <4> DEFINE k == i - BlockLen + 1
      <4>1. /\ data_end = BlockLen /\ k \in 1..Pending /\ 2 * BlockLen + k - 1 = i + BlockLen
            /\ offset - Pending + k = Begin' + i - data_begin' + 1
        <5>1. data_end = BlockLen /\ read_byte_count \in Nat
          BY <1>2, <2>2, <2>4, <3>1, <3>3
        <5>2. k \in 1..Pending /\ 2 * BlockLen + k - 1 = i + BlockLen
          BY <1>2, <2>2, <3>1, <3>3, <5>1
        <5>3. Begin' - data_begin' = offset - read_byte_count - BlockLen /\ Begin \in Int
          BY <1>1, <1>2, <2>2, <2>3, <5>1 DEF Begin
        <5>4. Begin' + i - data_begin' + 1 = (Begin' - data_begin') + i + 1
          BY <1>1, <1>2, <2>3, <3>1, <5>3
        <5>5. offset - Pending + k = Begin' + i - data_begin' + 1
          BY <1>1, <1>2, <2>2, <3>1, <5>1, <5>3, <5>4
        <5> QED
          BY <5>1, <5>2, <5>5
      <4>2. buffer[2 * BlockLen + k - 1] = file[offset - Pending + k]
        BY <1>3, <4>1 DEF FileInBlocks
      <4>3. Cell(i)' = buffer[i + BlockLen]
        BY <1>1, <2>1, <3>3, <4>1 DEF Cell
      <4> QED
        BY <1>1, <4>1, <4>2, <4>3
    <3> QED
      BY <1>2, <3>1, <3>2, <3>3
  <2>7. FileInBlocks'
    BY <2>1, <2>2, <2>6 DEF FileInBlocks
  <2>8. BlocksAreFull'
    BY <1>1, <1>2, <1>3, <2>1, <2>2, <2>4 DEF BlocksAreFull, Alive
  <2> QED
    BY <2>5, <2>7, <2>8
<1> QED
  BY <1>4, <1>5

LEMMA FileInBlocksAtCopyBlock ==
    ASSUME TypeOK, ReadsInOrder, FileInBlocks, BlocksAreFull, LinesSoFar, CopyBlock
    PROVE  FileInBlocks' /\ BlocksAreFull' /\ LinesSoFar'
<1>1. /\ client = "copies" /\ client' = "start_read" /\ outcome' = outcome /\ outcome = "lines"
      /\ UNCHANGED <<file, offset, read_byte_count, data_begin, data_end, worker, lines>>
      /\ buffer' = Moved(buffer, 2 * BlockLen, BlockLen)
  BY DEF CopyBlock, source, reader, results, LinesSoFar, Alive
<1>2. data_begin \in Nat /\ data_end \in Nat /\ data_end <= 2 * BlockLen
  BY <1>1 DEF TypeOK, ReadsInOrder, DataInBlocks
<1>3. Alive /\ Pending = 0 /\ Pending' = 0 /\ Begin' = Begin
  BY <1>1 DEF Alive, Pending, Begin
<1>4. LinesSoFar'
  BY <1>1, <1>3, LinesKept
<1>5. ASSUME NEW i \in data_begin'..(data_end' - 1)
      PROVE  Cell(i)' = file'[Begin' + i - data_begin' + 1]
  <2>1. i \in data_begin..(data_end - 1) /\ i \in Places /\ i \in Int /\ i < 2 * BlockLen
    BY <1>1, <1>2 DEF Places
  <2>2. Cell(i) = file[Begin + i - data_begin + 1]
    BY <1>3, <2>1 DEF FileInBlocks
  <2>3. /\ i \in BlockLen..(BlockLen + BlockLen - 1) <=> i >= BlockLen
        /\ i - BlockLen + 2 * BlockLen = i + BlockLen
    BY <2>1
  <2>4. buffer'[i] = IF i >= BlockLen THEN buffer[i + BlockLen] ELSE buffer[i]
    BY <1>1, <2>1, <2>3 DEF Moved
  <2>5. Cell(i)' = buffer'[i] /\ Cell(i) = IF i >= BlockLen THEN buffer[i + BlockLen] ELSE buffer[i]
    BY <1>1 DEF Cell
  <2> QED
    BY <1>1, <1>3, <2>2, <2>4, <2>5
<1>6. FileInBlocks'
  BY <1>1, <1>3, <1>5 DEF FileInBlocks
<1>7. BlocksAreFull'
  BY <1>1, <1>3 DEF BlocksAreFull, Alive
<1> QED
  BY <1>4, <1>6, <1>7

LEMMA FileInBlocksAtStartRead ==
    ASSUME TypeOK, ReadsInOrder, FileInBlocks, BlocksAreFull, LinesSoFar, StartRead
    PROVE  FileInBlocks' /\ BlocksAreFull' /\ LinesSoFar'
<1>1. /\ client \in {"first_read", "start_read"} /\ outcome' = outcome
      /\ client' = IF client = "first_read" THEN "idle" ELSE "scans"
      /\ read_byte_count' = -1
      /\ UNCHANGED <<file, offset, buffer, data_begin, data_end, lines>>
      /\ worker' = "none" => worker = "none"
  BY DEF StartRead, source, data, results, Notified
<1>2. Alive /\ Pending = 0 /\ Pending' = 0 /\ Begin' = Begin /\ worker # "none"
  BY <1>1 DEF Alive, Pending, Begin, ReadsInOrder, Handshake
<1>3. client' \notin {"idle", "first_read"} => outcome' = "lines"
  BY <1>1, <1>2 DEF LinesSoFar
<1>4. LinesSoFar'
  BY <1>1, <1>2, <1>3, LinesKept
<1>5. \A i: Cell(i)' = Cell(i)
  BY <1>1 DEF Cell
<1>6. FileInBlocks'
  BY <1>1, <1>2, <1>5 DEF FileInBlocks
<1>7. BlocksAreFull'
  BY <1>1, <1>2 DEF BlocksAreFull, Alive
<1> QED
  BY <1>4, <1>6, <1>7

LEMMA FileInBlocksAtRead ==
    ASSUME TypeOK, ReadsInOrder, FileInBlocks, BlocksAreFull, LinesSoFar, Read
    PROVE  FileInBlocks' /\ BlocksAreFull' /\ LinesSoFar'
<1> DEFINE read == Chunk(BlockLen)
<1>1. /\ worker = "reads" /\ desired_byte_count = BlockLen /\ read_byte_count = -1
      /\ client \notin {"new", "copies", "start_read"}
  BY DEF Read, TypeOK, ReadsInOrder, Handshake
<1>2. /\ read \in Seq(Int) /\ Len(read) \in Nat
      /\ Len(read) = IF offset + BlockLen < Len(file) THEN BlockLen ELSE Len(file) - offset
      /\ \A i \in 1..Len(read): read[i] = file[offset + i]
  BY ChunkElements
<1>3. /\ buffer' = Stored(buffer, 2 * BlockLen, read)
      /\ offset' = offset + Len(read) /\ read_byte_count' = Len(read)
      /\ client' = Notified(client) /\ worker' # "none"
      /\ UNCHANGED <<file, data_begin, data_end, lines, outcome>>
  BY <1>1 DEF Read, results
<1> HIDE DEF read
<1>4. /\ Len(file) \in Nat /\ offset \in Nat /\ offset <= Len(file)
      /\ Len(read) <= BlockLen /\ data_begin \in Nat /\ data_end \in Nat
  <2>1. Len(file) \in Nat /\ offset \in 0..Len(file)
    BY LenProperties DEF TypeOK
  <2> QED
    BY <1>2, <2>1 DEF TypeOK
<1>5. /\ Alive' <=> Alive
      /\ client' \notin {"new", "copies", "start_read"}
      /\ client' \in {"idle", "first_read"} <=> client \in {"idle", "first_read"}
      /\ client \in {"finish_read", "waits", "woken"} => client' \in {"finish_read", "waits", "woken"}
  BY <1>1, <1>3 DEF Alive, Notified
<1>6. Pending = 0 /\ Pending' = Len(read) /\ offset' - Pending' = offset - Pending /\ Begin' = Begin
  <2>1. Pending = 0 /\ Pending' = Len(read)
    BY <1>1, <1>2, <1>3, <1>5 DEF Pending
  <2>2. offset' - Pending' = offset - Pending
    BY <1>2, <1>3, <1>4, <2>1
  <2> QED
    BY <1>3, <2>1, <2>2 DEF Begin
<1>7. LinesSoFar'
  <2>1. CASE Alive
    <3>1. client' \notin {"idle", "first_read"} => outcome' = "lines"
      BY <1>3, <1>5, <2>1 DEF LinesSoFar
    <3> QED
      BY <1>3, <1>6, <2>1, <3>1, LinesKept
  <2>2. CASE ~Alive
    BY <1>5, <2>2 DEF LinesSoFar
  <2> QED
    BY <2>1, <2>2
<1>8. ASSUME Alive, NEW i \in data_begin'..(data_end' - 1)
      PROVE  Cell(i)' = file'[Begin' + i - data_begin' + 1]
  <2>1. i \in data_begin..(data_end - 1) /\ i \in Int /\ data_begin < data_end
    BY <1>3, <1>4, <1>8
  <2>2. data_end <= 2 * BlockLen
    BY <1>1, <1>4, <1>8, <2>1 DEF TypeOK, ReadsInOrder, DataInBlocks, Alive
  <2>3. i \in Places /\ i \notin (2 * BlockLen)..(2 * BlockLen + Len(read) - 1)
    BY <1>4, <2>1, <2>2 DEF Places
  <2>4. buffer'[i] = buffer[i]
    BY <1>3, <2>3 DEF Stored
  <2>5. Cell(i)' = buffer'[i] /\ Cell(i) = buffer[i]
    BY <1>1, <1>5 DEF Cell
  <2>6. Cell(i) = file[Begin + i - data_begin + 1]
    BY <1>8, <2>1 DEF FileInBlocks
  <2> QED
    BY <1>3, <1>6, <2>4, <2>5, <2>6
<1>9. ASSUME NEW i \in 1..Pending'
      PROVE  buffer'[2 * BlockLen + i - 1] = file'[offset' - Pending' + i]
  <2> DEFINE k == 2 * BlockLen + i - 1
  <2>1. /\ i \in 1..Len(read) /\ k \in Places /\ k - 2 * BlockLen + 1 = i
        /\ k \in (2 * BlockLen)..(2 * BlockLen + Len(read) - 1)
    BY <1>4, <1>6, <1>9 DEF Places
  <2>2. buffer'[k] = read[i]
    BY <1>3, <2>1 DEF Stored
  <2>3. offset' - Pending' = offset
    BY <1>2, <1>3, <1>4, <1>6
  <2> QED
    BY <1>2, <1>3, <2>1, <2>2, <2>3
<1>10. FileInBlocks'
  BY <1>5, <1>8, <1>9 DEF FileInBlocks
<1>11. BlocksAreFull'
  <2>1. read_byte_count' \in 0..(BlockLen - 1) => offset' = Len(file')
    BY <1>2, <1>3, <1>4
  <2>2. Alive' => \/ offset' - Pending' = Len(file')
                  \/ data_end' >= BlockLen /\ client' \in {"finish_read", "waits", "woken"}
                  \/ data_begin' < data_end' /\ data_end' >= 2 * BlockLen
    BY <1>3, <1>5, <1>6 DEF BlocksAreFull
  <2> QED
    BY <1>3, <2>1, <2>2 DEF BlocksAreFull
<1> QED
  BY <1>7, <1>10, <1>11

(* The steps that touch neither the file nor the data.                     *)
LEMMA FileInBlocksElsewhere ==
    ASSUME TypeOK, ReadsInOrder, FileInBlocks, BlocksAreFull, LinesSoFar,
           \/ Destroy \/ Terminate \/ NotifyWorker \/ Join \/ ClientSpuriouslyWoken
           \/ Lock \/ Check \/ WorkerSpuriouslyWoken \/ UNCHANGED vars
    PROVE  FileInBlocks' /\ BlocksAreFull' /\ LinesSoFar'
<1>1. UNCHANGED <<file, offset, read_byte_count, buffer, data_begin, data_end, lines, outcome>>
  BY DEF Destroy, Terminate, NotifyWorker, Join, ClientSpuriouslyWoken, Lock, Check,
         WorkerSpuriouslyWoken, vars, source, reader, data, results
<1>2. /\ worker' = "none" => worker = "none"
      /\ \/ UNCHANGED client
         \/ client = "waits" /\ client' = "woken"
         \/ client # "new" /\ client' \in {"terminate", "notify", "joins", "destroyed"}
  BY DEF Destroy, Terminate, NotifyWorker, Join, ClientSpuriouslyWoken, Lock, Check,
         WorkerSpuriouslyWoken, vars, Notified
<1>3. CASE ~Alive'
  <2>1. client' = "new" => client = "new"
    BY <1>2
  <2> QED
    BY <1>1, <1>3, <2>1 DEF FileInBlocks, BlocksAreFull, LinesSoFar
<1>4. CASE Alive'
  <2>1. /\ Alive /\ client' # "new"
        /\ client' \in {"idle", "first_read"} <=> client \in {"idle", "first_read"}
        /\ client' \in {"copies", "start_read"} <=> client \in {"copies", "start_read"}
        /\ client' = "copies" <=> client = "copies"
        /\ client \in {"finish_read", "waits", "woken"} => client' \in {"finish_read", "waits", "woken"}
    <3>1. CASE UNCHANGED client
      BY <1>4, <3>1 DEF Alive
    <3>2. CASE client = "waits" /\ client' = "woken"
      BY <3>2 DEF Alive
    <3>3. client' \notin {"terminate", "notify", "joins", "destroyed"}
      BY <1>4 DEF Alive
    <3> QED
      BY <1>2, <3>1, <3>2, <3>3
  <2>2. Pending' = Pending /\ Begin' = Begin
    BY <1>1, <2>1 DEF Pending, Begin
  <2>3. client' \notin {"idle", "first_read"} => outcome' = "lines"
    BY <1>1, <2>1 DEF LinesSoFar
  <2>4. LinesSoFar'
    BY <1>1, <2>1, <2>2, <2>3, LinesKept
  <2>5. \A i: Cell(i)' = Cell(i)
    BY <1>1, <2>1 DEF Cell
  <2>6. FileInBlocks'
    BY <1>1, <2>1, <2>2, <2>5 DEF FileInBlocks
  <2>7. BlocksAreFull'
    BY <1>1, <1>2, <2>1, <2>2 DEF BlocksAreFull
  <2> QED
    BY <2>4, <2>6, <2>7
<1> QED
  BY <1>3, <1>4

-----------------------------------------------------------------------------
(* What next_line() finds in the data are the characters of the file up to *)
(* the next end of a line.                                                 *)
LEMMA DataAreText ==
    ASSUME TypeOK, ReadsInOrder, FileInBlocks, LinesSoFar, client = "scans",
           NEW c, c = Text(file), NEW p, p = Begin - MarkLength
    PROVE  /\ p \in Nat /\ (p = 0 \/ p \in Ends(c)) /\ Len(lines) = Counted(c, p)
           /\ Len(c) = Len(file) - MarkLength
           /\ p + (data_end - data_begin) = offset - Pending - MarkLength
           /\ p + (data_end - data_begin) <= Len(c)
           /\ \A i \in 1..(data_end - data_begin): c[p + i] = buffer[data_begin + i - 1]
<1>1. Alive
  BY DEF Alive
<1>2. /\ file \in Seq(Int) /\ offset \in Nat /\ Len(file) \in Nat /\ offset <= Len(file)
      /\ data_begin \in Nat /\ data_end \in Nat /\ Pending \in Nat
      /\ data_begin < data_end
  <2>1. Len(file) \in Nat /\ offset \in 0..Len(file) /\ file \in Seq(Int)
    BY LenProperties DEF TypeOK
  <2>2. Pending \in Nat
    BY DEF TypeOK, Pending
  <2> QED
    BY <2>1, <2>2 DEF TypeOK, ReadsInOrder, DataInBlocks
<1>3. /\ MarkLength \in {0, 3} /\ Len(c) \in Nat /\ Len(c) = Len(file) - MarkLength
      /\ \A i \in 1..Len(c): c[i] = file[MarkLength + i]
  BY <1>2, TextOfFile
<1>4. /\ Begin >= MarkLength /\ (Begin = MarkLength \/ p \in Ends(c))
      /\ Len(lines) = Counted(c, p)
  BY <1>1 DEF LinesSoFar, Counted, Ends, Text
<1>5. Begin = offset - Pending - (data_end - data_begin) /\ Begin \in Int
  BY <1>2 DEF Begin
<1>6. p \in Nat /\ (p = 0 \/ p \in Ends(c))
  BY <1>3, <1>4, <1>5
<1>7. /\ p + (data_end - data_begin) = offset - Pending - MarkLength
      /\ p + (data_end - data_begin) <= Len(c)
  BY <1>2, <1>3, <1>5
<1>8. ASSUME NEW i \in 1..(data_end - data_begin)
      PROVE  c[p + i] = buffer[data_begin + i - 1]
  <2> DEFINE j == data_begin + i - 1
  <2>0. /\ i \in Int /\ 1 <= i /\ i <= data_end - data_begin
        /\ data_begin \in Nat /\ data_end \in Nat /\ p \in Nat /\ Len(c) \in Nat
        /\ p + (data_end - data_begin) <= Len(c)
    BY <1>2, <1>3, <1>6, <1>7
  <2>1. i \in Int /\ j \in data_begin..(data_end - 1) /\ p + i \in 1..Len(c)
    <3> DEFINE length == Len(c)
    <3>1. length \in Nat /\ p + (data_end - data_begin) <= length
      BY <2>0
    <3> HIDE DEF length
    <3>2. j \in data_begin..(data_end - 1) /\ p + i \in 1..length
      BY <2>0, <3>1
    <3> QED
      BY <2>0, <3>2 DEF length
  <2>2. Cell(j) = file[Begin + j - data_begin + 1] /\ Cell(j) = buffer[j]
    BY <1>1, <2>1 DEF FileInBlocks, Cell
  <2>3. Begin + j - data_begin + 1 = MarkLength + (p + i)
    BY <1>2, <1>3, <1>5, <2>1
  <2> QED
    BY <1>3, <2>1, <2>2, <2>3
<1> QED
  BY <1>3, <1>4, <1>6, <1>7, <1>8

LEMMA NoNewlineBefore ==
    ASSUME TypeOK, ReadsInOrder, FileInBlocks, LinesSoFar, client = "scans",
           NEW c, c = Text(file), NEW p, p = Begin - MarkLength,
           NEW l, l = LineEnd - data_begin, NEW d, d = data_end - data_begin
    PROVE  /\ p \in Nat /\ l \in Nat /\ d \in Nat /\ l <= d /\ d > 0
           /\ Len(c) \in Nat /\ p + d <= Len(c)
           /\ l = d <=> LineEnd = data_end
           /\ \A i \in (p + 1)..(p + l): c[i] # NL
           /\ LineEnd # data_end => c[p + l + 1] = NL
<1>1. /\ p \in Nat /\ p + (data_end - data_begin) <= Len(c)
      /\ \A i \in 1..(data_end - data_begin): c[p + i] = buffer[data_begin + i - 1]
  BY DataAreText
<1>2. data_begin \in Nat /\ data_end \in Nat /\ data_begin < data_end
  BY DEF TypeOK, ReadsInOrder, DataInBlocks
<1>3. /\ LineEnd \in data_begin..data_end
      /\ \A i \in data_begin..(LineEnd - 1): buffer[i] # NL
      /\ LineEnd # data_end => buffer[LineEnd] = NL
  BY <1>2, LineFound
<1>4. LineEnd \in Int /\ data_begin <= LineEnd /\ LineEnd <= data_end
  BY <1>2, <1>3
<1>5. Len(c) \in Nat
  BY TextOfFile DEF TypeOK
<1>6. /\ l \in Nat /\ d \in Nat /\ l <= d /\ (l = d <=> LineEnd = data_end) /\ d > 0
      /\ p + d <= Len(c)
  BY <1>1, <1>2, <1>4
<1>7. \A i \in (p + 1)..(p + l): c[i] # NL
  <2> SUFFICES ASSUME NEW i \in (p + 1)..(p + l) PROVE c[i] # NL
    OBVIOUS
  <2> DEFINE k == i - p
  <2>0. p \in Nat /\ l \in Nat /\ d \in Nat /\ l <= d
    BY <1>1, <1>6
  <2>1. k \in 1..d /\ p + k = i /\ k <= l /\ k >= 1
    BY ONLY <2>0, i \in (p + 1)..(p + l)
  <2>2. k \in 1..(data_end - data_begin) /\ data_begin + k - 1 \in data_begin..(LineEnd - 1)
    BY <1>2, <1>4, <2>1
  <2> HIDE DEF k
  <2> QED
    BY <1>1, <1>3, <2>1, <2>2
<1>8. ASSUME LineEnd # data_end PROVE c[p + l + 1] = NL
  <2>1. l + 1 \in 1..(data_end - data_begin) /\ data_begin + (l + 1) - 1 = LineEnd
    BY <1>2, <1>4, <1>6, <1>8
  <2> DEFINE k == l + 1
  <2>2. c[p + k] = buffer[data_begin + k - 1]
    BY <1>1, <2>1
  <2>3. p \in Nat /\ l \in Nat
    BY <1>1, <1>6
  <2>4. p + k = p + l + 1
    BY ONLY <2>3
  <2> QED
    BY <1>3, <1>8, <2>1, <2>2, <2>4
<1> QED
  BY <1>1, <1>5, <1>6, <1>7, <1>8

(* A line that is returned ends at the next end of a line in the file.     *)
LEMMA NextEndFound ==
    ASSUME TypeOK, ReadsInOrder, FileInBlocks, BlocksAreFull, LinesSoFar,
           client = "scans", ~TooLong,
           NEW c, c = Text(file), NEW p, p = Begin - MarkLength,
           NEW q, q = IF LineEnd = data_end THEN p + (LineEnd - data_begin)
                      ELSE p + (LineEnd - data_begin) + 1
    PROVE  /\ q \in Ends(c) /\ p < q
           /\ \A i \in (p + 1)..(q - 1): i \notin Ends(c)
           /\ c[q] = NL <=> LineEnd # data_end
<1> DEFINE l == LineEnd - data_begin
           d == data_end - data_begin
<1>1. /\ p \in Nat /\ l \in Nat /\ d \in Nat /\ l <= d /\ d > 0
      /\ Len(c) \in Nat /\ p + d <= Len(c)
      /\ (l = d <=> LineEnd = data_end)
      /\ \A i \in (p + 1)..(p + l): c[i] # NL
      /\ LineEnd # data_end => c[p + l + 1] = NL
  BY NoNewlineBefore
<1>2. data_begin \in Nat /\ data_end \in Nat /\ data_begin < BlockLen
  BY DEF TypeOK, ReadsInOrder, DataInBlocks
<1>3. q = IF l = d THEN p + l ELSE p + l + 1
  BY <1>1
<1>4. LineEnd = data_end => data_end < 2 * BlockLen
  BY <1>2 DEF TooLong
<1>5. LineEnd = data_end => p + d = Len(c)
  <2>1. LineEnd = data_end => offset - Pending = Len(file)
    BY <1>2, <1>4 DEF BlocksAreFull, Alive
  <2>2. p + d = offset - Pending - MarkLength /\ Len(c) = Len(file) - MarkLength
    BY DataAreText
  <2> QED
    BY <2>1, <2>2
<1> HIDE DEF l, d
<1>6. p < q /\ q <= Len(c) /\ q \in Int
  BY <1>1, <1>3
<1>7. \A i \in (p + 1)..(q - 1): i \notin Ends(c)
  <2> SUFFICES ASSUME NEW i \in (p + 1)..(q - 1) PROVE i \notin Ends(c)
    OBVIOUS
  <2>1. i \in (p + 1)..(p + l) /\ i # Len(c)
    BY <1>1, <1>3, <1>6
  <2> QED
    BY <1>1, <2>1 DEF Ends, Promised!Ends, NL, Promised!NL
<1>8. CASE LineEnd # data_end
  <2>1. q = p + l + 1
    BY <1>1, <1>3, <1>8
  <2>2. c[q] = NL
    BY <1>1, <1>8, <2>1
  <2>3. q \in Ends(c)
    BY <1>1, <1>6, <2>2 DEF Ends, Promised!Ends, NL, Promised!NL
  <2> QED
    BY <1>6, <1>7, <1>8, <2>2, <2>3
<1>9. CASE LineEnd = data_end
  <2>1. q = Len(c) /\ q \in (p + 1)..(p + l)
    BY <1>1, <1>3, <1>5, <1>6, <1>9
  <2>2. c[q] # NL
    BY <1>1, <2>1
  <2>3. q \in Ends(c)
    BY <1>1, <1>6, <2>1 DEF Ends, Promised!Ends
  <2> QED
    BY <1>6, <1>7, <1>9, <2>2, <2>3
<1> QED
  BY <1>8, <1>9

(* The C string in front of the null is the line without its end.          *)
LEMMA CStringOfLine ==
    ASSUME DOMAIN buffer = Places, data_begin \in Nat,
           NEW e \in Int, data_begin <= e, e < 2 * BlockLen,
           \A i \in data_begin..(e - 1): buffer[i] # 0,
           NEW raw \in Seq(Int), Len(raw) = e - data_begin,
           \A i \in 1..(e - data_begin): raw[i] = buffer[data_begin + i - 1]
    PROVE  CString(Terminated(buffer, e), data_begin) = Promised!WithoutReturn(raw)
<1> DEFINE b == Terminated(buffer, e)
           cr == e # data_begin /\ buffer[e - 1] = CR
           null == IF cr THEN e - 1 ELSE e
<1>1. /\ e \in Places /\ null \in Int /\ data_begin <= null /\ null <= e
      /\ e # data_begin => e - 1 \in Places /\ data_begin <= e - 1
      /\ e <= 3 * BlockLen
  BY DEF Places
<1>2. \A i \in Places: b[i] = IF i = e \/ (cr /\ i = e - 1) THEN 0 ELSE buffer[i]
  <2>1. CASE cr
    <3>1. b = [buffer EXCEPT ![e] = 0, ![e - 1] = 0]
      BY <2>1 DEF Terminated
    <3> QED
      BY <2>1, <3>1
  <2>2. CASE ~cr
    <3>1. b = [buffer EXCEPT ![e] = 0]
      BY <2>2 DEF Terminated
    <3> QED
      BY <2>2, <3>1
  <2> QED
    BY <2>1, <2>2
<1> HIDE DEF b
<1>3. /\ null \in data_begin..(3 * BlockLen) /\ null \in Places /\ b[null] = 0
      /\ \A i \in data_begin..(null - 1): b[i] = buffer[i] /\ b[i] # 0
  <2>1. null \in Places /\ null \in data_begin..(3 * BlockLen) /\ b[null] = 0
    BY <1>1, <1>2
  <2>2. ASSUME NEW i \in data_begin..(null - 1) PROVE b[i] = buffer[i] /\ b[i] # 0
    <3>1. i \in data_begin..(e - 1) /\ i \in Places /\ ~(i = e \/ (cr /\ i = e - 1))
      BY <1>1 DEF Places
    <3> QED
      BY <1>2, <3>1
  <2> QED
    BY <2>1, <2>2
<1> HIDE DEF null
<1>4. \A n \in data_begin..(3 * BlockLen):
          (n \in Places => b[n] = 0) /\ (\A i \in data_begin..(n - 1): b[i] # 0) <=> n = null
  <2> SUFFICES ASSUME NEW n \in data_begin..(3 * BlockLen),
                      n \in Places => b[n] = 0, \A i \in data_begin..(n - 1): b[i] # 0
               PROVE  n = null
    BY <1>3
  <2>1. n \in Int /\ data_begin <= n
    OBVIOUS
  <2>2. CASE n < null
    <3>1. n \in data_begin..(null - 1) /\ n \in Places
      BY <1>1, <2>1, <2>2 DEF Places
    <3> QED
      BY <1>3, <3>1
  <2>3. CASE n > null
    <3>1. null \in data_begin..(n - 1)
      BY <1>1, <2>1, <2>3
    <3> QED
      BY <1>3, <3>1
  <2> QED
    BY <1>1, <2>1, <2>2, <2>3
<1>5. CString(b, data_begin) = [i \in 1..(null - data_begin) |-> b[data_begin + i - 1]]
  <2>1. (CHOOSE n \in data_begin..(3 * BlockLen):
            /\ n \in Places => b[n] = 0
            /\ \A i \in data_begin..(n - 1): b[i] # 0) = null
    BY <1>3, <1>4
  <2> QED
    BY <2>1 DEF CString
<1>6. \A i \in 1..(null - data_begin): b[data_begin + i - 1] = raw[i]
  <2> SUFFICES ASSUME NEW i \in 1..(null - data_begin) PROVE b[data_begin + i - 1] = raw[i]
    OBVIOUS
  <2>1. data_begin + i - 1 \in data_begin..(null - 1) /\ i \in 1..(e - data_begin)
    BY <1>1
  <2> QED
    BY <1>3, <2>1
<1>7. CString(b, data_begin) = [i \in 1..(null - data_begin) |-> raw[i]]
  BY <1>5, <1>6
<1>8. CASE ~cr
  <2>1. Promised!WithoutReturn(raw) = raw
    <3>1. raw # <<>> => Len(raw) # 0
      BY EmptySeq
    <3>2. ASSUME raw # <<>> PROVE raw[Len(raw)] = buffer[e - 1] /\ e # data_begin
      <4>1. Len(raw) \in 1..(e - data_begin) /\ data_begin + Len(raw) - 1 = e - 1
        BY <3>1, <3>2, LenProperties
      <4> QED
        BY <4>1
    <3> QED
      BY <1>8, <3>2 DEF Promised!WithoutReturn, CR, Promised!CR
  <2>2. raw = [i \in 1..Len(raw) |-> raw[i]]
    BY LenProperties
  <2>3. null - data_begin = Len(raw)
    BY <1>8 DEF null
  <2> QED
    BY <1>7, <2>1, <2>2, <2>3 DEF b
<1>9. CASE cr
  <2>1. Len(raw) \in 1..(e - data_begin) /\ data_begin + Len(raw) - 1 = e - 1 /\ raw # <<>>
    BY <1>9, EmptySeq
  <2>2. raw[Len(raw)] = CR
    BY <1>9, <2>1
  <2>3. Promised!WithoutReturn(raw) = SubSeq(raw, 1, Len(raw) - 1)
    BY <2>1, <2>2 DEF Promised!WithoutReturn, CR, Promised!CR
  <2>4. SubSeq(raw, 1, Len(raw) - 1) = [i \in 1..(Len(raw) - 1) |-> raw[1 + i - 1]]
    <3>1. Len(raw) - 1 - 1 + 1 = Len(raw) - 1
      BY <2>1
    <3> QED
      BY <3>1
  <2>5. SubSeq(raw, 1, Len(raw) - 1) = [i \in 1..(Len(raw) - 1) |-> raw[i]]
    BY <2>1, <2>4
  <2>6. null - data_begin = Len(raw) - 1
    BY <1>9, <2>1 DEF null
  <2> QED
    BY <1>7, <2>3, <2>5, <2>6 DEF b
<1> QED
  BY <1>8, <1>9

(* Where the data go on once the line is read.                             *)
Passed == Begin - MarkLength
NextEnd == Passed + (LineEnd - data_begin) + IF LineEnd = data_end THEN 0 ELSE 1

(* What Scan leaves when it returns a line.                                *)
LEMMA AfterLine ==
    ASSUME TypeOK, ReadsInOrder, FileInBlocks, BlocksAreFull, LinesSoFar, Scan, ~TooLong,
           NEW c, c = Text(file)
    PROVE  /\ Begin' - MarkLength' = NextEnd /\ Begin' >= MarkLength'
           /\ NextEnd \in Ends(c) /\ Counted(c, NextEnd) = Len(lines) + 1
<1>1. /\ client = "scans" /\ client' = "idle"
      /\ UNCHANGED <<file, offset, read_byte_count>>
      /\ data_end' = IF LineEnd = data_end THEN data_end + 1 ELSE data_end
      /\ data_begin' = LineEnd + 1
  BY DEF Scan, source, reader
<1>2. /\ data_begin \in Nat /\ data_end \in Nat /\ data_begin < data_end
      /\ LineEnd \in Int /\ offset \in Int /\ Pending \in Int /\ Begin \in Int
  <2>1. data_begin \in Nat /\ data_end \in Nat /\ data_begin < data_end
    BY <1>1 DEF TypeOK, ReadsInOrder, DataInBlocks
  <2>2. LineEnd \in Int
    BY <2>1, LineFound
  <2>3. offset \in Int /\ Pending \in Int
    BY LenProperties DEF TypeOK, Pending
  <2> QED
    BY <2>1, <2>2, <2>3 DEF Begin
<1>3. /\ Passed \in Nat /\ (Passed = 0 \/ Passed \in Ends(c)) /\ Len(lines) = Counted(c, Passed)
  BY <1>1, DataAreText DEF Passed
<1>4. NextEnd = IF LineEnd = data_end THEN Passed + (LineEnd - data_begin)
                ELSE Passed + (LineEnd - data_begin) + 1
  BY <1>2, <1>3 DEF NextEnd
<1>5. /\ NextEnd \in Ends(c) /\ Passed < NextEnd
      /\ \A i \in (Passed + 1)..(NextEnd - 1): i \notin Ends(c)
  BY <1>1, <1>4, NextEndFound DEF Passed
<1>6. c \in Seq(Int) /\ MarkLength \in {0, 3}
  BY TextOfFile DEF TypeOK
<1>7. Counted(c, NextEnd) = Len(lines) + 1
  BY <1>3, <1>5, <1>6, NextEndCounts
<1>8. MarkLength' = MarkLength /\ Pending' = Pending
  BY <1>1 DEF MarkLength, Pending
<1>9. Begin' = Begin + (LineEnd - data_begin) + IF LineEnd = data_end THEN 0 ELSE 1
  BY <1>1, <1>2, <1>8 DEF Begin
<1>10. Begin' - MarkLength' = NextEnd
  BY <1>2, <1>6, <1>8, <1>9 DEF NextEnd, Passed
<1>11. Begin' >= MarkLength'
  <2>1. NextEnd \in Int
    BY <1>2, <1>3, <1>4
  <2>2. NextEnd > 0
    BY <1>3, <1>5, <2>1
  <2>3. Begin' \in Int
    BY <1>2, <1>9
  <2>4. MarkLength' \in Int
    BY <1>6, <1>8
  <2>5. \A b, m, e \in Int: b - m = e /\ e > 0 => b >= m
    OBVIOUS
  <2> QED
    BY ONLY <1>10, <2>1, <2>2, <2>3, <2>4, <2>5, Zenon
<1> QED
  BY <1>5, <1>7, <1>10, <1>11

LEMMA FileInBlocksAtScan ==
    ASSUME TypeOK, ReadsInOrder, FileInBlocks, BlocksAreFull, LinesSoFar, Scan
    PROVE  FileInBlocks' /\ BlocksAreFull' /\ LinesSoFar'
<1>1. /\ client = "scans" /\ client' = "idle"
      /\ UNCHANGED <<file, offset, read_byte_count, worker>>
  BY DEF Scan, source, reader
<1>2. Alive /\ Pending' = Pending
  BY <1>1 DEF Alive, Pending
<1>3. CASE TooLong
  <2>1. UNCHANGED <<buffer, data_begin, data_end, lines>>
    BY <1>3 DEF Scan, data
  <2>2. Begin' = Begin
    BY <1>1, <1>2, <2>1 DEF Begin
  <2>3. LinesSoFar'
    BY <1>1, <1>2, <2>1, <2>2, LinesKept
  <2>4. \A i: Cell(i)' = Cell(i)
    BY <1>1, <2>1 DEF Cell
  <2>5. FileInBlocks'
    BY <1>1, <1>2, <2>1, <2>2, <2>4 DEF FileInBlocks
  <2>6. BlocksAreFull'
    BY <1>1, <1>2, <2>1 DEF BlocksAreFull
  <2> QED
    BY <2>3, <2>5, <2>6
<1>4. CASE ~TooLong
  <2>1. /\ data_end' = IF LineEnd = data_end THEN data_end + 1 ELSE data_end
        /\ buffer' = Terminated(buffer, LineEnd)
        /\ lines' = Append(lines, CString(buffer', data_begin))
        /\ data_begin' = LineEnd + 1
    BY <1>4 DEF Scan
  <2>2. /\ data_begin \in Nat /\ data_end \in Nat /\ data_begin < data_end /\ data_end <= 2 * BlockLen
        /\ data_begin < BlockLen
        /\ LineEnd \in data_begin..data_end /\ LineEnd \in Int /\ offset \in Int
        /\ DOMAIN buffer = Places
    <3>1. /\ data_begin \in Nat /\ data_end \in Nat /\ data_begin < data_end /\ data_end <= 2 * BlockLen
          /\ data_begin < BlockLen
      BY <1>1 DEF TypeOK, ReadsInOrder, DataInBlocks
    <3>2. LineEnd \in data_begin..data_end
      BY <3>1, LineFound
    <3>3. offset \in Int /\ DOMAIN buffer = Places
      BY LenProperties DEF TypeOK
    <3> QED
      BY <3>1, <3>2, <3>3
  <2>3. LineEnd < 2 * BlockLen
    BY <1>4, <2>2 DEF TooLong
  <2>4. \A i \in Places: i > LineEnd => buffer'[i] = buffer[i]
    <3>1. \A i \in Places: i > LineEnd => i \in Int /\ i # LineEnd /\ i # LineEnd - 1
      BY <2>2 DEF Places
    <3>2. \/ buffer' = [buffer EXCEPT ![LineEnd] = 0, ![LineEnd - 1] = 0]
          \/ buffer' = [buffer EXCEPT ![LineEnd] = 0]
      BY <2>1 DEF Terminated
    <3> QED
      BY <2>2, <3>1, <3>2
  <2>5. /\ Begin' - MarkLength' = NextEnd /\ Begin' >= MarkLength'
        /\ NextEnd \in Ends(Text(file)) /\ Counted(Text(file), NextEnd) = Len(lines) + 1
    BY <1>4, AfterLine
  <2>6. Len(lines') = Len(lines) + 1
    BY <2>1 DEF TypeOK
  <2>7. LinesSoFar'
    BY <1>1, <2>5, <2>6 DEF LinesSoFar, Counted, Ends, Text
  <2>8. ASSUME NEW i \in data_begin'..(data_end' - 1)
        PROVE  Cell(i)' = file'[Begin' + i - data_begin' + 1]
    <3>1. /\ LineEnd # data_end /\ i \in data_begin..(data_end - 1) /\ i \in Int
          /\ i \in Places /\ i > LineEnd
      BY <2>1, <2>2 DEF Places
    <3>2. Cell(i) = file[Begin + i - data_begin + 1]
      BY <1>2, <3>1 DEF FileInBlocks
    <3>3. Cell(i)' = buffer'[i] /\ Cell(i) = buffer[i]
      BY <1>1 DEF Cell
    <3>4. Begin' - data_begin' = Begin - data_begin /\ Begin \in Int /\ Begin' \in Int /\ data_begin' \in Int
      <4>1. Pending \in Int
        BY DEF TypeOK, Pending
      <4> QED
        BY <1>1, <1>2, <2>1, <2>2, <3>1, <4>1 DEF Begin
    <3>5. Begin' + i - data_begin' + 1 = Begin + i - data_begin + 1
      <4>1. Begin' + i - data_begin' + 1 = (Begin' - data_begin') + i + 1
        BY <3>1, <3>4
      <4>2. Begin + i - data_begin + 1 = (Begin - data_begin) + i + 1
        BY <2>2, <3>1, <3>4
      <4> QED
        BY <3>4, <4>1, <4>2
    <3> QED
      BY <1>1, <2>4, <3>1, <3>2, <3>3, <3>5
  <2>9. ASSUME NEW i \in 1..Pending'
        PROVE  buffer'[2 * BlockLen + i - 1] = file'[offset' - Pending' + i]
    <3> DEFINE k == 2 * BlockLen + i - 1
    <3>1. Pending \in Int /\ Pending <= BlockLen
      BY DEF Pending, TypeOK
    <3>2. i \in Int /\ k \in Places /\ k > LineEnd
      BY <1>2, <2>2, <2>3, <3>1 DEF Places
    <3>3. buffer[k] = file[offset - Pending + i]
      BY <1>2 DEF FileInBlocks
    <3> QED
      BY <1>1, <1>2, <2>4, <3>2, <3>3
  <2>10. FileInBlocks'
    BY <1>1, <2>8, <2>9 DEF FileInBlocks
  <2>11. data_end >= 2 * BlockLen => data_begin' < data_end' /\ data_end' >= 2 * BlockLen
    BY <1>4, <2>1, <2>2 DEF TooLong
  <2>12. BlocksAreFull'
    BY <1>1, <1>2, <2>1, <2>2, <2>11 DEF BlocksAreFull, Alive
  <2> QED
    BY <2>7, <2>10, <2>12
<1> QED
  BY <1>3, <1>4

(* The whole invariant is inductive.                                       *)
LEMMA FileInBlocksStep ==
    ASSUME TypeOK, ReadsInOrder, FileInBlocks, BlocksAreFull, LinesSoFar, [Next]_vars
    PROVE  FileInBlocks' /\ BlocksAreFull' /\ LinesSoFar'
  BY FileInBlocksAtConstruct, FileInBlocksAtNextLine, FileInBlocksAtFinishRead,
     FileInBlocksAtCopyBlock, FileInBlocksAtStartRead, FileInBlocksAtScan, FileInBlocksAtRead,
     FileInBlocksElsewhere
     DEF Next, ClientStep, WorkerStep

LEMMA ReaderInitially == Init => Inductive
<1>1. Init => FileInBlocks /\ BlocksAreFull /\ LinesSoFar
  BY DEF Init, FileInBlocks, BlocksAreFull, LinesSoFar, Alive
<1> QED
  BY <1>1, OrderInitially DEF Inductive

LEMMA ReaderStep ==
    ASSUME Inductive, [Next]_vars
    PROVE  Inductive'
BY TypeStep, HandshakeStep, DataStep, FileInBlocksStep DEF Inductive, ReadsInOrder

(* The data of the first two blocks, with the block that is still pending, *)
(* are the file from one place on, the blocks are full until the file      *)
(* ends, and as many lines are returned as end in front of that place      *)
(* (csv.hpp:343-486): what the refinement below rests on.                  *)
THEOREM InductiveCorrect == Spec => []Inductive
<1>1. Init => Inductive
  BY ReaderInitially
<1>2. Inductive /\ [Next]_vars => Inductive'
  BY ReaderStep
<1> QED
  BY <1>1, <1>2, PTL DEF Spec

-----------------------------------------------------------------------------
(* Each step of the two threads is one of the promise, or none of it.      *)

LEMMA LineIsDelivered ==
    ASSUME TextFiles, file \in Files, TypeOK, ReadsInOrder, FileInBlocks, BlocksAreFull, LinesSoFar,
           Scan, ~TooLong
    PROVE  Promised!Deliver
<1> DEFINE c == Text(file)
           l == LineEnd - data_begin
           raw == Promised!RawLine(file, Len(lines) + 1)
<1>1. client = "scans" /\ file \in Seq(Int) /\ buffer \in [Places -> Int]
  BY DEF Scan, TypeOK
<1>2. /\ data_begin \in Nat /\ data_end \in Nat /\ data_begin < BlockLen
      /\ data_begin < data_end /\ data_end <= 2 * BlockLen
  BY <1>1 DEF TypeOK, ReadsInOrder, DataInBlocks
<1>3. /\ Passed \in Nat /\ (Passed = 0 \/ Passed \in Ends(c)) /\ Len(lines) = Counted(c, Passed)
      /\ Passed + (data_end - data_begin) <= Len(c)
      /\ \A i \in 1..(data_end - data_begin): c[Passed + i] = buffer[data_begin + i - 1]
  BY <1>1, DataAreText DEF Passed
<1>4. LineEnd \in data_begin..data_end
  BY <1>2, LineFound
<1>5. NextEnd = IF LineEnd = data_end THEN Passed + (LineEnd - data_begin)
                ELSE Passed + (LineEnd - data_begin) + 1
  BY <1>2, <1>3, <1>4 DEF NextEnd
<1>6. /\ NextEnd \in Ends(c) /\ Passed < NextEnd
      /\ \A i \in (Passed + 1)..(NextEnd - 1): i \notin Ends(c)
      /\ c[NextEnd] = NL <=> LineEnd # data_end
  BY <1>1, <1>5, NextEndFound DEF Passed
<1>7. /\ Len(lines) < Promised!LineCount(file)
      /\ raw \in Seq(Int)
      /\ Len(raw) = IF c[NextEnd] = NL THEN NextEnd - Passed - 1 ELSE NextEnd - Passed
      /\ \A i \in 1..(IF c[NextEnd] = NL THEN NextEnd - Passed - 1 ELSE NextEnd - Passed):
             raw[i] = c[Passed + i]
  BY <1>1, <1>3, <1>6, LineBetweenEnds
<1>8. l = IF c[NextEnd] = NL THEN NextEnd - Passed - 1 ELSE NextEnd - Passed
  BY <1>2, <1>3, <1>4, <1>5, <1>6
<1> HIDE DEF raw
<1>9. Len(raw) = l /\ \A i \in 1..l: raw[i] = c[Passed + i]
  BY <1>7, <1>8
<1>10. l \in Nat /\ l < BlockLen /\ LineEnd < 2 * BlockLen /\ l <= data_end - data_begin
  BY <1>2, <1>4 DEF TooLong
<1>11. \A i \in 1..l: raw[i] = buffer[data_begin + i - 1] /\ raw[i] # 0
  <2>1. /\ MarkLength \in {0, 3} /\ Len(c) \in Nat /\ Len(c) = Len(file) - MarkLength
        /\ \A i \in 1..Len(c): c[i] = file[MarkLength + i]
    BY <1>1, TextOfFile
  <2>2. Len(file) \in Nat /\ \A i \in 1..Len(file): file[i] # 0
    BY <1>1, LenProperties DEF TextFiles
  <2>3. \A i \in 1..Len(c): c[i] # 0
    BY <2>1, <2>2
  <2> SUFFICES ASSUME NEW i \in 1..l PROVE raw[i] = buffer[data_begin + i - 1] /\ raw[i] # 0
    OBVIOUS
  <2>4. i \in 1..(data_end - data_begin) /\ Passed + i \in 1..Len(c)
    BY <1>2, <1>3, <1>10, <2>1
  <2> HIDE DEF c, l
  <2> QED
    BY <1>3, <1>9, <2>3, <2>4
<1>12. \A i \in data_begin..(LineEnd - 1): buffer[i] # 0
  <2> SUFFICES ASSUME NEW i \in data_begin..(LineEnd - 1) PROVE buffer[i] # 0
    OBVIOUS
  <2> DEFINE k == i - data_begin + 1
  <2>1. k \in 1..l /\ data_begin + k - 1 = i
    BY <1>2, <1>4
  <2> HIDE DEF k, l
  <2> QED
    BY <1>11, <2>1
<1>13. CString(Terminated(buffer, LineEnd), data_begin) = Promised!WithoutReturn(raw)
  BY <1>1, <1>2, <1>4, <1>7, <1>9, <1>10, <1>11, <1>12, CStringOfLine
<1>14. /\ outcome = "lines" /\ outcome' = outcome /\ file' = file
       /\ lines' = Append(lines, CString(Terminated(buffer, LineEnd), data_begin))
  BY <1>1 DEF LinesSoFar, Alive, Scan, source
<1>15. Promised!Line(file, Len(lines) + 1) = Promised!WithoutReturn(raw)
  BY Zenon DEF Promised!Line, raw
<1>16. Len(raw) < BlockLen
  BY <1>9, <1>10
<1> QED
  BY <1>7, <1>13, <1>14, <1>15, <1>16 DEF Promised!Deliver, raw

LEMMA LineIsRefused ==
    ASSUME TypeOK, ReadsInOrder, FileInBlocks, BlocksAreFull, LinesSoFar, Scan, TooLong
    PROVE  Promised!Refuse
<1> DEFINE c == Text(file)
           l == LineEnd - data_begin
           d == data_end - data_begin
           raw == Promised!RawLine(file, Len(lines) + 1)
<1>1. client = "scans" /\ file \in Seq(Int)
  BY DEF Scan, TypeOK
<1>2. /\ (Passed = 0 \/ Passed \in Ends(c)) /\ Len(lines) = Counted(c, Passed)
  BY <1>1, DataAreText DEF Passed
<1>3. /\ Passed \in Nat /\ l \in Nat /\ d \in Nat /\ l <= d /\ d > 0
      /\ Len(c) \in Nat /\ Passed + d <= Len(c)
      /\ \A i \in (Passed + 1)..(Passed + l): c[i] # NL
  BY <1>1, NoNewlineBefore DEF Passed
<1>4. l >= BlockLen
  BY <1>3 DEF TooLong
<1> HIDE DEF c, l, d
<1>5. c \in Seq(Int)
  BY <1>1, TextOfFile DEF c
<1>6. /\ Ends(c) \in SUBSET (1..Len(c))
      /\ \A i \in Ends(c): c[i] = NL \/ i = Len(c)
      /\ Len(c) \in Ends(c) /\ Len(c) > Passed
  <2>1. Len(c) \in 1..Len(c) /\ Len(c) > Passed
    BY <1>3
  <2> QED
    BY <2>1 DEF Ends, Promised!Ends, NL, Promised!NL
<1> DEFINE T == {i \in Ends(c): i > Passed}
<1>7. T \in SUBSET Nat /\ T # {}
  BY <1>6
<1>8. PICK q \in T: \A i \in T: q <= i
  BY <1>7, LeastNumber
<1>9. q \in Ends(c) /\ q \in Nat /\ Passed < q /\ (c[q] = NL \/ q = Len(c))
  BY <1>6, <1>7, <1>8
<1>10. \A i \in (Passed + 1)..(q - 1): i \notin Ends(c)
  <2> SUFFICES ASSUME NEW i \in (Passed + 1)..(q - 1), i \in Ends(c) PROVE FALSE
    OBVIOUS
  <2>1. i \in T /\ ~(q <= i)
    BY <1>3, <1>9
  <2> QED
    BY <1>8, <2>1
<1>11. /\ Len(lines) < Promised!LineCount(file)
       /\ Len(raw) = IF c[q] = NL THEN q - Passed - 1 ELSE q - Passed
  BY <1>1, <1>2, <1>3, <1>9, <1>10, LineBetweenEnds DEF c
<1>12. q > Passed + l \/ c[q] # NL
  <2> SUFFICES ASSUME ~(q > Passed + l) PROVE c[q] # NL
    OBVIOUS
  <2>1. q \in (Passed + 1)..(Passed + l)
    BY <1>3, <1>9
  <2> QED
    BY <1>3, <2>1
<1>13. Len(raw) >= BlockLen
  <2>1. CASE c[q] = NL
    BY <1>3, <1>4, <1>9, <1>11, <1>12, <2>1
  <2>2. CASE c[q] # NL
    BY <1>3, <1>4, <1>9, <1>11, <2>2
  <2> QED
    BY <2>1, <2>2
<1>14. outcome = "lines" /\ outcome' = "too_long" /\ UNCHANGED <<file, lines>>
  BY <1>1 DEF LinesSoFar, Alive, Scan, source
<1> QED
  BY <1>11, <1>13, <1>14 DEF Promised!Refuse

LEMMA EndIsReached ==
    ASSUME TypeOK, ReadsInOrder, FileInBlocks, BlocksAreFull, LinesSoFar,
           NextLine, data_begin = data_end
    PROVE  Promised!End
<1> DEFINE c == Text(file)
<1>1. client = "idle" /\ outcome = "lines" /\ outcome' = "end" /\ UNCHANGED <<file, lines>>
  BY DEF NextLine, source
<1>2. file \in Seq(Int) /\ offset \in Int /\ Len(file) \in Nat /\ Pending \in Int
  BY LenProperties DEF TypeOK, Pending
<1>3. data_begin \in Nat /\ Alive
  BY <1>1 DEF TypeOK, Alive
<1>4. offset - Pending = Len(file)
  BY <1>1, <1>3 DEF BlocksAreFull
<1>5. Begin = Len(file)
  BY <1>2, <1>3, <1>4 DEF Begin
<1>6. c \in Seq(Int) /\ Len(c) = Begin - MarkLength /\ Len(c) \in Nat
  BY <1>2, <1>5, TextOfFile
<1>7. Len(lines) = Counted(c, Len(c))
  BY <1>3, <1>6 DEF LinesSoFar, Counted, Ends, Text
<1>8. {i \in Ends(c): i <= Len(c)} = Ends(c)
  BY <1>6, EndsArePlaces
<1>9. Len(lines) = Cardinality(Ends(c))
  BY <1>7, <1>8 DEF Counted
<1>10. Promised!LineCount(file) = Cardinality(Ends(c))
  BY SameCardinality, Zenon DEF Promised!LineCount, Ends, Text
<1> QED
  BY <1>1, <1>9, <1>10 DEF Promised!End

LEMMA FileStays ==
    ASSUME file \in Files, [Next]_vars
    PROVE  file' \in Files
BY DEF Next, ClientStep, WorkerStep, Construct, NextLine, FinishRead, CopyBlock, StartRead, Scan,
       Destroy, Terminate, NotifyWorker, Join, ClientSpuriouslyWoken, Lock, Check, Read,
       WorkerSpuriouslyWoken, vars, source

(* No step but these two has a line or an end.                             *)
LEMMA NothingReturned ==
    ASSUME [Next]_vars, ~Scan, ~NextLine
    PROVE  UNCHANGED <<file, lines, outcome>>
BY DEF Next, ClientStep, WorkerStep, Construct, FinishRead, CopyBlock, StartRead,
       Destroy, Terminate, NotifyWorker, Join, ClientSpuriouslyWoken, Lock, Check, Read,
       WorkerSpuriouslyWoken, vars, source, results

LEMMA LineStep ==
    ASSUME TextFiles, file \in Files, Inductive, [Next]_vars
    PROVE  [Promised!Deliver \/ Promised!End \/ Promised!Refuse]_<<file, lines, outcome>>
<1>1. TypeOK /\ ReadsInOrder /\ FileInBlocks /\ BlocksAreFull /\ LinesSoFar
  BY DEF Inductive
<1>2. CASE Scan
  BY <1>1, <1>2, LineIsDelivered, LineIsRefused
<1>3. CASE NextLine
  <2>1. CASE data_begin = data_end
    BY <1>1, <1>3, <2>1, EndIsReached
  <2>2. CASE data_begin # data_end
    BY <1>3, <2>2 DEF NextLine, source
  <2> QED
    BY <2>1, <2>2
<1>4. CASE ~Scan /\ ~NextLine
  BY <1>4, NothingReturned
<1> QED
  BY <1>2, <1>3, <1>4

(* The reader returns the lines of the file, one after the other, whatever *)
(* the blocks cut through and however the two threads take turns           *)
(* (csv.hpp:343-486).  Lines are returned as C strings, so that files with *)
(* a null inside are left out: such a line is cut there.                   *)
THEOREM LinesAreTheFilesCorrect ==
    ASSUME TextFiles
    PROVE  Spec => LinesAreTheFiles
<1>1. Init => file \in Files /\ Promised!Init
  BY DEF Init, Promised!Init
<1>2. file \in Files /\ [Next]_vars => (file \in Files)'
  BY FileStays
<1>3. Inductive /\ file \in Files /\ [Next]_vars
      => [Promised!Deliver \/ Promised!End \/ Promised!Refuse]_<<file, lines, outcome>>
  BY LineStep
<1> QED
  BY <1>1, <1>2, <1>3, InductiveCorrect, PTL DEF Spec, LinesAreTheFiles, Promised!Spec

-----------------------------------------------------------------------------
(* The table that load_machines() makes of such lines.                     *)

HIDE BlockLenAssumption

(* A result is an error, or it is none.                                    *)
LEMMA ErrorsFail ==
    /\ \A e: Failed([error |-> e]) /\ [error |-> e].error = e
    /\ \A v: ~Failed([value |-> v])
    /\ \A c: ~Failed([columns |-> c])
    /\ \A l, b, c: ~Failed([line |-> l, left |-> b, columns |-> c])
    /\ \A a, n, f, v: ~Failed([articleNumber |-> a, name |-> n, fileName |-> f, version |-> v])
  BY DEF Failed

(* The least and the greatest of some numbers.                             *)
LEMMA MinIsLeast ==
    ASSUME NEW T \in SUBSET Nat, T # {}
    PROVE  Min(T) \in T /\ \A i \in T: Min(T) <= i
<1>1. \E m \in T: \A i \in T: m <= i
  BY LeastNumber
<1> QED
  BY <1>1 DEF Min

(* (see MinIsLeast; the numbers are bounded)                               *)
LEMMA MaxIsGreatest ==
    ASSUME NEW n \in Nat, NEW T \in SUBSET (0..n), T # {}
    PROVE  Max(T) \in T /\ \A i \in T: i <= Max(T)
<1> DEFINE below == {n - i: i \in T}
<1>1. below \in SUBSET Nat /\ below # {}
  <2>1. \A i \in T: n - i \in Nat
    OBVIOUS
  <2> QED
    BY <2>1
<1>2. PICK m \in below: \A i \in below: m <= i
  <2> HIDE DEF below
  <2> QED
    BY <1>1, LeastNumber
<1>3. PICK g \in T: m = n - g
  BY <1>2
<1>4. ASSUME NEW i \in T PROVE i <= g
  <2>1. n - i \in below
    OBVIOUS
  <2> HIDE DEF below
  <2>2. n - g <= n - i
    BY <1>2, <1>3, <2>1
  <2>3. i \in Nat /\ g \in Nat
    OBVIOUS
  <2> QED
    BY <2>2, <2>3
<1> QED
  BY <1>3, <1>4 DEF Max

(* A part of a part of a line.                                             *)
LEMMA PartOfPart ==
    ASSUME NEW l, NEW s \in Nat, NEW e \in Nat, 1 <= s, s <= e + 1, \A i \in s..e: l[i] \in Int,
           NEW a \in Nat, NEW b \in Nat, 1 <= a, b <= e - s + 1
    PROVE  /\ SubSeq(SubSeq(l, s, e), a, b) = SubSeq(l, s + a - 1, s + b - 1)
           /\ SubSeq(l, s, e) \in Seq(Int) /\ Len(SubSeq(l, s, e)) = e - s + 1
           /\ \A i \in 1..(e - s + 1): SubSeq(l, s, e)[i] = l[s + i - 1]
<1> DEFINE t == SubSeq(l, s, e)
           m == e - s + 1
           c == s + a - 1
           d == s + b - 1
           u == SubSeq(t, a, b)
           v == SubSeq(l, c, d)
<1>1. t \in Seq(Int) /\ Len(t) = m /\ \A i \in 1..m: t[i] = l[s + i - 1]
  <2>1. /\ t \in Seq(Int) /\ Len(t) = IF s <= e THEN e - s + 1 ELSE 0
        /\ \A i \in 1..(e - s + 1): t[i] = l[s + i - 1]
    BY SubSeqProperties
  <2>2. Len(t) = m
    BY <2>1
  <2> QED
    BY <2>1, <2>2
<1> HIDE DEF t
<1>2. \A k \in a..b: k \in 1..m /\ t[k] = l[s + k - 1] /\ s + k - 1 \in s..e /\ t[k] \in Int
  <2> SUFFICES ASSUME NEW k \in a..b
               PROVE  k \in 1..m /\ t[k] = l[s + k - 1] /\ s + k - 1 \in s..e /\ t[k] \in Int
    OBVIOUS
  <2>1. k \in 1..m /\ s + k - 1 \in s..e
    OBVIOUS
  <2> QED
    BY <1>1, <2>1
<1>3. /\ u \in Seq(Int) /\ Len(u) = IF a <= b THEN b - a + 1 ELSE 0
      /\ \A k \in 1..(b - a + 1): u[k] = t[a + k - 1]
  <2>1. \A k \in a..b: t[k] \in Int
    BY <1>2
  <2> QED
    BY <2>1, SubSeqProperties
<1>4. /\ v \in Seq(Int) /\ Len(v) = IF a <= b THEN b - a + 1 ELSE 0
      /\ \A k \in 1..(b - a + 1): v[k] = l[c + k - 1]
  <2>1. c \in Int /\ d \in Int /\ d - c + 1 = b - a + 1 /\ (c <= d <=> a <= b)
    OBVIOUS
  <2>2. \A k \in c..d: l[k] \in Int
    <3> SUFFICES ASSUME NEW k \in c..d PROVE k \in s..e
      OBVIOUS
    <3> QED
      OBVIOUS
  <2> HIDE DEF c, d
  <2>3. /\ v \in Seq(Int) /\ Len(v) = IF c <= d THEN d - c + 1 ELSE 0
        /\ \A k \in 1..(d - c + 1): v[k] = l[c + k - 1]
    BY <2>1, <2>2, SubSeqProperties
  <2> HIDE DEF v
  <2> QED
    BY <2>1, <2>3
<1>5. \A k \in 1..(b - a + 1): t[a + k - 1] = l[c + k - 1]
  <2> SUFFICES ASSUME NEW k \in 1..(b - a + 1) PROVE t[a + k - 1] = l[c + k - 1]
    OBVIOUS
  <2>1. a + k - 1 \in a..b /\ s + (a + k - 1) - 1 = c + k - 1
    OBVIOUS
  <2> HIDE DEF c
  <2> QED
    BY <1>2, <2>1
<1> HIDE DEF u, v, c
<1>6. \A k \in 1..Len(u): u[k] = v[k]
  <2>1. \A k \in 1..Len(u): k \in 1..(b - a + 1)
    BY <1>3
  <2> QED
    BY ONLY <1>3, <1>4, <1>5, <2>1, Zenon
<1>7. u = v
  <2>1. u \in Seq(Int) /\ v \in Seq(Int) /\ Len(u) = Len(v)
    BY <1>3, <1>4
  <2> QED
    BY <1>6, <2>1, SeqEqual, Zenon
<1> QED
  BY <1>1, <1>7, Zenon DEF t, u, v, c, d, m

(* What trim() leaves of a part of a line.                                 *)
LEMMA TrimIsTrimmed ==
    ASSUME NEW l \in Seq(Int), NEW s \in Nat, NEW e \in Nat, 1 <= s, s <= e + 1, e <= Len(l)
    PROVE  /\ trim(SubSeq(l, s, e)) = Trimmed(l, s, e)
           /\ Trimmed(l, s, e) \in Seq(Int)
<1> DEFINE t == SubSeq(l, s, e)
           m == e - s + 1
           kept == {i \in DOMAIN t: ~is_trim_char(t[i])}
           solid == {i \in s..e: l[i] \notin {32, 9}}
<1>1. m \in Nat /\ Len(l) \in Nat /\ \A i \in s..e: i \in 1..Len(l) /\ l[i] \in Int
  <2>1. m \in Nat /\ Len(l) \in Nat /\ \A i \in s..e: i \in 1..Len(l)
    BY LenProperties
  <2> QED
    BY <2>1, ElementOfSeq
<1>2. t \in Seq(Int) /\ Len(t) = m /\ \A i \in 1..m: t[i] = l[s + i - 1]
  <2>1. 1 \in Nat /\ 0 \in Nat /\ 0 <= e - s + 1
    OBVIOUS
  <2> QED
    BY <1>1, <2>1, PartOfPart
<1>3. DOMAIN t = 1..m
  BY <1>2, LenProperties
<1>4. /\ trim(t) = IF kept = {} THEN <<>> ELSE SubSeq(t, Min(kept), Max(kept))
      /\ Trimmed(l, s, e)
            = IF solid = {} THEN <<>> ELSE SubSeq(l, Min(solid), Max(solid))
  BY Zenon DEF trim, Trimmed
<1>5. \A i \in 1..m: i \in kept <=> s + i - 1 \in solid
  <2> SUFFICES ASSUME NEW i \in 1..m PROVE i \in kept <=> s + i - 1 \in solid
    OBVIOUS
  <2>1. s + i - 1 \in s..e
    OBVIOUS
  <2>2. t[i] = l[s + i - 1]
    BY <1>2
  <2> HIDE DEF t, m
  <2> QED
    BY <1>3, <2>1, <2>2 DEF is_trim_char
<1>6. kept \in SUBSET (1..m) /\ solid \in SUBSET (s..e)
  <2> HIDE DEF t
  <2> QED
    BY <1>3
<1>7. \A j \in s..e: j - s + 1 \in 1..m /\ s + (j - s + 1) - 1 = j
  OBVIOUS
<1> HIDE DEF t, kept, solid
<1>8. CASE kept = {}
  <2>1. solid = {}
    BY <1>5, <1>6, <1>7, <1>8
  <2> QED
    BY <1>4, <1>8, <2>1, EmptySeq DEF t
<1>9. CASE kept # {}
  <2> DEFINE a == Min(kept)
             b == Max(kept)
             c == Min(solid)
             d == Max(solid)
  <2>1. PICK i \in kept: TRUE
    BY <1>9
  <2>2. solid # {}
    BY <1>5, <1>6, <2>1
  <2>3. a \in kept /\ \A j \in kept: a <= j
    <3>1. kept \in SUBSET Nat
      BY <1>6
    <3> QED
      BY <1>9, <3>1, MinIsLeast
  <2>4. b \in kept /\ \A j \in kept: j <= b
    <3>1. kept \in SUBSET (0..m)
      BY <1>6
    <3> QED
      BY <1>1, <1>9, <3>1, MaxIsGreatest
  <2>5. c \in solid /\ \A j \in solid: c <= j
    <3>1. solid \in SUBSET Nat
      BY <1>6
    <3> QED
      BY <2>2, <3>1, MinIsLeast
  <2>6. d \in solid /\ \A j \in solid: j <= d
    <3>1. solid \in SUBSET (0..e)
      BY <1>6
    <3> QED
      BY <2>2, <3>1, MaxIsGreatest
  <2> HIDE DEF a, b, c, d
  <2>7. c = s + a - 1
    <3>1. s + a - 1 \in solid /\ a \in 1..m
      BY <1>5, <1>6, <2>3
    <3>2. c - s + 1 \in kept /\ c \in s..e
      BY <1>5, <1>6, <1>7, <2>5
    <3>3. c <= s + a - 1 /\ a <= c - s + 1
      BY <2>3, <2>5, <3>1, <3>2
    <3> QED
      BY ONLY s \in Nat, e \in Nat, <3>1, <3>2, <3>3
  <2>8. d = s + b - 1
    <3>1. s + b - 1 \in solid /\ b \in 1..m
      BY <1>5, <1>6, <2>4
    <3>2. d - s + 1 \in kept /\ d \in s..e
      BY <1>5, <1>6, <1>7, <2>6
    <3>3. s + b - 1 <= d /\ d - s + 1 <= b
      BY <2>4, <2>6, <3>1, <3>2
    <3> QED
      BY ONLY s \in Nat, e \in Nat, <3>1, <3>2, <3>3
  <2>9. a \in 1..m /\ b \in 1..m /\ a <= b
    BY <1>6, <2>3, <2>4
  <2>10. SubSeq(t, a, b) = SubSeq(l, c, d)
    <3>1. a \in Nat /\ b \in Nat /\ 1 <= a /\ b <= e - s + 1
      BY <2>9
    <3>2. SubSeq(t, a, b) = SubSeq(l, s + a - 1, s + b - 1)
      BY <1>1, <3>1, PartOfPart DEF t
    <3> QED
      BY <2>7, <2>8, <3>2
  <2>11. SubSeq(l, c, d) \in Seq(Int)
    <3>1. c \in Int /\ d \in Int /\ \A k \in c..d: l[k] \in Int
      BY <1>1, <1>6, <2>5, <2>6
    <3> QED
      BY <3>1, SubSeqProperties
  <2> QED
    BY <1>4, <1>9, <2>2, <2>10, <2>11, Zenon DEF t, a, b, c, d
<1> QED
  BY <1>8, <1>9
(* A turn of parse_line() on what is left of a line from s on: the column  *)
(* up to the next separator p,                                             *)
LeftFrom(l, s, columns) ==
    [line |-> SubSeq(l, s, Len(l)), left |-> TRUE, columns |-> columns]

LEMMA ChopColumn ==
    ASSUME NEW l \in Seq(Int), NEW s \in Nat, 1 <= s, NEW p \in s..Len(l),
           l[p] = Separator, \A i \in s..(p - 1): l[i] # Separator, NEW columns
    PROVE  chop_next_column(LeftFrom(l, s, columns))
              = LeftFrom(l, p + 1, Append(columns, Trimmed(l, s, p - 1)))
<1> DEFINE e == Len(l)
           m == e - s + 1
           t == SubSeq(l, s, e)
           r == LeftFrom(l, s, columns)
           separators == {i \in 1..Len(t): t[i] = Separator}
           end == find_next_column_end(t)
<1>1. e \in Nat /\ p \in Nat /\ s <= e + 1 /\ \A i \in s..e: l[i] \in Int
  <2>1. e \in Nat /\ p \in Nat /\ s <= e + 1 /\ \A i \in s..e: i \in 1..e
    BY LenProperties
  <2> QED
    BY <2>1, ElementOfSeq
<1> HIDE DEF e
<1>2. /\ Len(t) = m /\ t \in Seq(Int) /\ m \in Nat
      /\ \A i \in 1..m: t[i] = l[s + i - 1]
  <2>1. 1 \in Nat /\ 0 \in Nat /\ 1 <= 1 /\ 0 <= e - s + 1 /\ m \in Nat
    BY <1>1
  <2> QED
    BY <1>1, <2>1, PartOfPart
<1>3. p - s + 1 \in 1..m /\ s + (p - s + 1) - 1 = p
  BY <1>1 DEF e
<1>4. p - s + 1 \in separators /\ \A i \in separators: p - s + 1 <= i
  <2>1. p - s + 1 \in separators
    BY <1>2, <1>3
  <2>2. ASSUME NEW i \in 1..m, i < p - s + 1 PROVE t[i] # Separator
    <3>1. s + i - 1 \in s..(p - 1)
      BY <1>1, <2>2
    <3> QED
      BY <1>2, <2>2, <3>1
  <2>3. \A i \in 1..m: ~(i < p - s + 1) => p - s + 1 <= i
    BY <1>1
  <2> HIDE DEF t, m
  <2> QED
    BY <1>2, <2>1, <2>2, <2>3
<1>5. end = p - s
  <2>1. Min(separators) = p - s + 1
    <3>1. separators \in SUBSET Nat /\ separators # {}
      <4>1. separators \in SUBSET Nat
        <5> HIDE DEF t, m
        <5> QED
          BY <1>2
      <4> HIDE DEF separators
      <4> QED
        BY <1>4, <4>1
    <3> HIDE DEF separators
    <3>2. Min(separators) \in separators /\ \A i \in separators: Min(separators) <= i
      BY <3>1, MinIsLeast
    <3>3. Min(separators) \in Nat
      BY <3>1, <3>2
    <3> QED
      BY <1>1, <1>4, <3>2, <3>3
  <2>2. separators # {}
    BY <1>4
  <2>3. end = IF separators = {} THEN Len(t) ELSE Min(separators) - 1
    BY Zenon DEF find_next_column_end
  <2> HIDE DEF end, separators
  <2> QED
    BY <1>1, <2>1, <2>2, <2>3
<1>6. SubSeq(t, 1, p - s) = SubSeq(l, s, p - 1)
  <2> DEFINE a == 1
             b == p - s
  <2>1. a \in Nat /\ b \in Nat /\ 1 <= a /\ b <= e - s + 1 /\ s + a - 1 = s /\ s + b - 1 = p - 1
    BY <1>1, <1>3
  <2> HIDE DEF a, b
  <2>2. SubSeq(t, a, b) = SubSeq(l, s + a - 1, s + b - 1)
    BY <1>1, <2>1, PartOfPart
  <2> QED
    BY <2>1, <2>2, Zenon DEF a, b
<1>7. SubSeq(t, p - s + 2, m) = SubSeq(l, p + 1, e)
  <2> DEFINE a == p - s + 2
             b == m
  <2>1. a \in Nat /\ b \in Nat /\ 1 <= a /\ b <= e - s + 1 /\ s + a - 1 = p + 1 /\ s + b - 1 = e
    BY <1>1, <1>3
  <2> HIDE DEF a, b
  <2>2. SubSeq(t, a, b) = SubSeq(l, s + a - 1, s + b - 1)
    BY <1>1, <2>1, PartOfPart
  <2> QED
    BY <2>1, <2>2, Zenon DEF a, b
<1>8. trim(SubSeq(l, s, p - 1)) = Trimmed(l, s, p - 1)
  <2> DEFINE d == p - 1
  <2>1. d \in Nat /\ s <= d + 1 /\ d <= Len(l)
    BY <1>1 DEF e
  <2> HIDE DEF d
  <2>2. trim(SubSeq(l, s, d)) = Trimmed(l, s, d)
    BY <2>1, TrimIsTrimmed
  <2> QED
    BY <2>2 DEF d
<1>9. ~Failed(r) /\ r.line = t /\ r.left = TRUE /\ r.columns = columns
  BY ErrorsFail DEF LeftFrom, e
<1>10. end + 2 = p - s + 2 /\ end < m
  BY <1>1, <1>3, <1>5
<1> HIDE DEF t, r, m
<1>11. chop_next_column(r)
         = [line |-> SubSeq(t, end + 2, Len(t)), left |-> end < Len(t),
            columns |-> Append(columns, trim(SubSeq(t, 1, end)))]
  BY <1>9 DEF chop_next_column
<1> HIDE DEF end
<1>12. chop_next_column(r)
         = [line |-> SubSeq(l, p + 1, e), left |-> TRUE,
            columns |-> Append(columns, Trimmed(l, s, p - 1))]
  BY <1>2, <1>5, <1>6, <1>7, <1>8, <1>10, <1>11
<1> QED
  BY <1>12, Zenon DEF LeftFrom, r, e

(* or all of it, when there is none.                                       *)
LEMMA ChopRest ==
    ASSUME NEW l \in Seq(Int), NEW s \in Nat, 1 <= s, s <= Len(l) + 1,
           \A i \in s..Len(l): l[i] # Separator, NEW columns
    PROVE  chop_next_column(LeftFrom(l, s, columns))
              = [line |-> <<>>, left |-> FALSE,
                 columns |-> Append(columns, Trimmed(l, s, Len(l)))]
<1> DEFINE e == Len(l)
           m == e - s + 1
           t == SubSeq(l, s, e)
           r == LeftFrom(l, s, columns)
           separators == {i \in 1..Len(t): t[i] = Separator}
           end == find_next_column_end(t)
<1>1. e \in Nat /\ s <= e + 1 /\ \A i \in s..e: l[i] \in Int /\ l[i] # Separator
  <2>1. e \in Nat /\ s <= e + 1 /\ \A i \in s..e: i \in 1..e
    BY LenProperties
  <2> QED
    BY <2>1, ElementOfSeq
<1>2. trim(SubSeq(l, s, e)) = Trimmed(l, s, e)
  <2>1. e <= Len(l)
    BY <1>1
  <2> QED
    BY <1>1, <2>1, TrimIsTrimmed
<1>3. ~Failed(r) /\ r.line = t /\ r.left = TRUE /\ r.columns = columns
  BY ErrorsFail DEF LeftFrom
<1> HIDE DEF e
<1>4. /\ Len(t) = m /\ t \in Seq(Int) /\ m \in Nat
      /\ \A i \in 1..m: t[i] = l[s + i - 1]
  <2>1. 1 \in Nat /\ 0 \in Nat /\ 1 <= 1 /\ 0 <= e - s + 1 /\ m \in Nat
    BY <1>1
  <2> QED
    BY <1>1, <2>1, PartOfPart
<1>5. SubSeq(t, 1, m) = t
  <2> DEFINE a == 1
             b == m
  <2>1. a \in Nat /\ b \in Nat /\ 1 <= a /\ b <= e - s + 1 /\ s + a - 1 = s /\ s + b - 1 = e
    BY <1>1, <1>4
  <2> HIDE DEF a, b
  <2>2. SubSeq(t, a, b) = SubSeq(l, s + a - 1, s + b - 1)
    BY <1>1, <2>1, PartOfPart
  <2> QED
    BY <2>1, <2>2, Zenon DEF a, b
<1>6. SubSeq(t, m + 2, m) = <<>>
  <2>1. m + 2 \in Int /\ m \in Int /\ m < m + 2
    BY <1>4
  <2> HIDE DEF m, t
  <2> QED
    BY <2>1, SubSeqEmpty
<1>7. end = m
  <2>1. ASSUME NEW i \in 1..m PROVE t[i] # Separator
    <3>1. s + i - 1 \in s..e
      BY <1>1
    <3> QED
      BY <1>1, <1>4, <3>1
  <2>2. separators = {}
    <3> HIDE DEF t, m
    <3> QED
      BY <1>4, <2>1
  <2>3. end = IF separators = {} THEN Len(t) ELSE Min(separators) - 1
    BY Zenon DEF find_next_column_end
  <2> HIDE DEF end, separators
  <2> QED
    BY <1>4, <2>2, <2>3
<1> HIDE DEF t, r, m
<1>8. chop_next_column(r)
         = [line |-> SubSeq(t, end + 2, Len(t)), left |-> end < Len(t),
            columns |-> Append(columns, trim(SubSeq(t, 1, end)))]
  BY <1>3 DEF chop_next_column
<1> HIDE DEF end
<1>9. ~(end < m)
  BY <1>4, <1>7
<1>10. chop_next_column(r)
         = [line |-> <<>>, left |-> FALSE,
            columns |-> Append(columns, Trimmed(l, s, e))]
  <2>1. trim(t) = Trimmed(l, s, e)
    BY <1>2 DEF t
  <2>3. SubSeq(t, end + 2, Len(t)) = <<>> /\ SubSeq(t, 1, end) = t
    BY <1>4, <1>5, <1>6, <1>7
  <2>4. (end < Len(t)) = FALSE
    BY <1>4, <1>9
  <2> QED
    BY <1>8, <2>1, <2>3, <2>4
<1> QED
  BY <1>10, Zenon DEF r, e

(* Past the last column there is nothing to chop.                          *)
LEMMA ChopNothing ==
    /\ \A l, c: chop_next_column([line |-> l, left |-> FALSE, columns |-> c])
                   = [error |-> "too_few_columns"]
    /\ \A e: chop_next_column([error |-> e]) = [error |-> e]
  BY ErrorsFail DEF chop_next_column

(* parse_line() takes four turns.                                          *)
LEMMA FourTurns ==
    ASSUME NEW l, NEW r0, r0 = [line |-> l, left |-> TRUE, columns |-> <<>>],
           NEW r1, r1 = chop_next_column(r0), NEW r2, r2 = chop_next_column(r1),
           NEW r3, r3 = chop_next_column(r2), NEW r4, r4 = chop_next_column(r3)
    PROVE  parse_line(l)
              = IF Failed(r4) THEN r4
                ELSE IF r4.left THEN [error |-> "too_many_columns"] ELSE [columns |-> r4.columns]
<1> DEFINE Turns(f) == f = [i \in 0..ColumnCount |->
                               IF i = 0 THEN [line |-> l, left |-> TRUE, columns |-> <<>>]
                               ELSE chop_next_column(f[i - 1])]
           g == [i \in 0..4 |-> IF i = 0 THEN r0 ELSE IF i = 1 THEN r1 ELSE IF i = 2 THEN r2
                                ELSE IF i = 3 THEN r3 ELSE r4]
           f == CHOOSE h: Turns(h)
<1>1. Turns(g)
  <2> DEFINE next(i) == IF i = 0 THEN r0 ELSE chop_next_column(g[i - 1])
  <2>1. ASSUME NEW i \in 0..4 PROVE g[i] = next(i)
    <3>1. CASE i = 0
      BY <3>1
    <3>2. CASE i = 1
      BY <3>2
    <3>3. CASE i = 2
      BY <3>3
    <3>4. CASE i = 3
      BY <3>4
    <3>5. CASE i = 4
      BY <3>5
    <3> QED
      BY <3>1, <3>2, <3>3, <3>4, <3>5
  <2>2. g = [i \in 0..4 |-> g[i]]
    OBVIOUS
  <2> HIDE DEF g
  <2> QED
    BY <2>1, <2>2 DEF ColumnCount
<1>2. Turns(f)
  <2> HIDE DEF Turns
  <2> QED
    BY <1>1, Zenon
<1>3. parse_line(l) = IF Failed(f[4]) THEN f[4]
                            ELSE IF f[4].left THEN [error |-> "too_many_columns"]
                            ELSE [columns |-> f[4].columns]
  BY Zenon DEF parse_line, ColumnCount
<1> HIDE DEF f, g
<1>4. f[0] = r0 /\ \A i \in 1..4: f[i] = chop_next_column(f[i - 1])
  <2>1. \A i \in 0..4: f[i] = IF i = 0 THEN [line |-> l, left |-> TRUE, columns |-> <<>>]
                             ELSE chop_next_column(f[i - 1])
    BY <1>2, Zenon DEF ColumnCount
  <2>2. f[0] = [line |-> l, left |-> TRUE, columns |-> <<>>]
    BY <2>1
  <2>3. \A i \in 1..4: i \in 0..4 /\ i # 0
    OBVIOUS
  <2> QED
    BY ONLY r0 = [line |-> l, left |-> TRUE, columns |-> <<>>], <2>1, <2>2, <2>3, Zenon
<1>5. f[1] = r1
  BY <1>4
<1>6. f[2] = r2
  BY <1>4, <1>5
<1>7. f[3] = r3
  BY <1>4, <1>6
<1>8. f[4] = r4
  BY <1>4, <1>7
<1> QED
  BY <1>3, <1>8, Zenon

(* There is a next separator, or none is left.                             *)
NoneIn(l, s, e) == \A i \in s..e: l[i] # Separator
NextAt(l, s, p) == p \in s..Len(l) /\ l[p] = Separator /\ NoneIn(l, s, p - 1)

(* On from a place there is one of the two.                                *)
LEMMA NextSeparator ==
    ASSUME NEW l \in Seq(Int), NEW s \in Nat, 1 <= s
    PROVE  NoneIn(l, s, Len(l)) \/ \E p: NextAt(l, s, p)
<1> DEFINE T == {i \in s..Len(l): l[i] = Separator}
<1>1. Len(l) \in Nat
  BY LenProperties
<1>2. CASE T = {}
  BY <1>2 DEF NoneIn
<1>3. CASE T # {}
  <2>1. T \in SUBSET Nat
    BY <1>1
  <2> HIDE DEF T
  <2>2. PICK p \in T: \A i \in T: p <= i
    BY <1>3, <2>1, LeastNumber
  <2>3. p \in s..Len(l) /\ l[p] = Separator
    BY DEF T
  <2>4. ASSUME NEW i \in s..(p - 1) PROVE l[i] # Separator
    <3>1. i \in s..Len(l) /\ ~(p <= i)
      BY <1>1, <2>3
    <3>2. i \notin T
      BY <2>2, <3>1
    <3> QED
      BY <3>1, <3>2 DEF T
  <2> QED
    BY <2>3, <2>4 DEF NextAt, NoneIn
<1> QED
  BY <1>2, <1>3

(* A turn of parse_line() chops the column before the next separator,      *)
LEMMA TurnFollows ==
    ASSUME NEW l \in Seq(Int), NEW s \in Nat, 1 <= s, NEW p, NextAt(l, s, p), NEW columns
    PROVE  /\ p \in Nat /\ s <= p /\ p <= Len(l) /\ p + 1 \in Nat /\ 1 <= p + 1
           /\ Trimmed(l, s, p - 1) \in Seq(Int)
           /\ chop_next_column(LeftFrom(l, s, columns))
                 = LeftFrom(l, p + 1, Append(columns, Trimmed(l, s, p - 1)))
<1>1. Len(l) \in Nat
  BY LenProperties
<1>2. p \in s..Len(l) /\ l[p] = Separator /\ \A i \in s..(p - 1): l[i] # Separator
  BY DEF NextAt, NoneIn
<1>3. p \in Nat /\ s <= p /\ p <= Len(l) /\ p + 1 \in Nat /\ 1 <= p + 1
  BY <1>1, <1>2
<1>4. Trimmed(l, s, p - 1) \in Seq(Int)
  <2> DEFINE e == p - 1
  <2>1. e \in Nat /\ s <= e + 1 /\ e <= Len(l)
    BY <1>1, <1>3
  <2> HIDE DEF e
  <2>2. Trimmed(l, s, e) \in Seq(Int)
    BY <2>1, TrimIsTrimmed
  <2> QED
    BY <2>2 DEF e
<1> QED
  BY <1>2, <1>3, <1>4, ChopColumn

(* or the last one.                                                        *)
LEMMA TurnEnds ==
    ASSUME NEW l \in Seq(Int), NEW s \in Nat, 1 <= s, s <= Len(l) + 1, NoneIn(l, s, Len(l)), NEW columns
    PROVE  /\ Trimmed(l, s, Len(l)) \in Seq(Int)
           /\ chop_next_column(LeftFrom(l, s, columns))
                 = [line |-> <<>>, left |-> FALSE,
                    columns |-> Append(columns, Trimmed(l, s, Len(l)))]
<1>1. Len(l) \in Nat
  BY LenProperties
<1>2. Trimmed(l, s, Len(l)) \in Seq(Int)
  <2> DEFINE e == Len(l)
  <2>1. e \in Nat /\ s <= e + 1 /\ e <= Len(l)
    BY <1>1
  <2> HIDE DEF e
  <2>2. Trimmed(l, s, e) \in Seq(Int)
    BY <2>1, TrimIsTrimmed
  <2> QED
    BY <2>2 DEF e
<1> QED
  BY <1>2, ChopRest DEF NoneIn

(* Fewer separators than three do not part a line,                         *)
LEMMA NoParting ==
    ASSUME NEW l \in Seq(Int), NEW a, NEW b, Separators(l) \in SUBSET {a, b}
    PROVE  Partings(l) = {}
<1> DEFINE S == Separators(l)
<1>1. S \in SUBSET (1..Len(l)) /\ Len(l) \in Nat
  BY LenProperties DEF Separators
<1>2. ASSUME NEW x \in S, NEW y \in S, NEW z \in S, x < y, y < z PROVE FALSE
  <2>1. x \in Nat /\ y \in Nat /\ z \in Nat
    BY <1>1
  <2>2. x # y /\ y # z /\ x # z
    BY <1>2, <2>1
  <2>3. x \in {a, b} /\ y \in {a, b} /\ z \in {a, b}
    OBVIOUS
  <2> QED
    BY <2>2, <2>3
<1> QED
  BY <1>2 DEF Partings

(* nor do more.                                                            *)
LEMMA TooManyToPart ==
    ASSUME NEW l \in Seq(Int), NEW a \in Separators(l), NEW b \in Separators(l),
           NEW c \in Separators(l), NEW d \in Separators(l), a < b, b < c, c < d
    PROVE  Partings(l) = {}
<1> DEFINE S == Separators(l)
<1>1. S \in SUBSET (1..Len(l)) /\ Len(l) \in Nat
  BY LenProperties DEF Separators
<1>2. a \in Nat /\ b \in Nat /\ c \in Nat /\ d \in Nat
  BY <1>1
<1>3. a # b /\ a # c /\ a # d /\ b # c /\ b # d /\ c # d
  BY <1>2
<1>4. ASSUME NEW x, NEW y, NEW z, S = {x, y, z} PROVE FALSE
  <2>1. a \in {x, y, z} /\ b \in {x, y, z} /\ c \in {x, y, z} /\ d \in {x, y, z}
    BY <1>4
  <2> QED
    BY <1>3, <2>1
<1> QED
  BY <1>4 DEF Partings

(* Three separators part it in one way.                                    *)
LEMMA OneParting ==
    ASSUME NEW l \in Seq(Int), NEW a, NEW b, NEW c, Separators(l) = {a, b, c}, a < b, b < c
    PROVE  /\ Partings(l) # {}
           /\ Columns(l) = <<Trimmed(l, 1, a - 1), Trimmed(l, a + 1, b - 1),
                                   Trimmed(l, b + 1, c - 1), Trimmed(l, c + 1, Len(l))>>
<1> DEFINE S == Separators(l)
<1>1. S \in SUBSET (1..Len(l)) /\ Len(l) \in Nat
  BY LenProperties DEF Separators
<1>2. a \in Nat /\ b \in Nat /\ c \in Nat
  BY <1>1
<1>3. <<a, b, c>> \in Partings(l)
  BY DEF Partings
<1>4. ASSUME NEW p \in Partings(l) PROVE p[1] = a /\ p[2] = b /\ p[3] = c
  <2>1. /\ p[1] \in S /\ p[2] \in S /\ p[3] \in S /\ p[1] < p[2] /\ p[2] < p[3]
        /\ S = {p[1], p[2], p[3]}
    BY DEF Partings
  <2>2. p[1] \in {a, b, c} /\ p[2] \in {a, b, c} /\ p[3] \in {a, b, c}
    BY <2>1
  <2> HIDE DEF S
  <2> QED
    BY <1>2, <2>1, <2>2
<1> DEFINE p == CHOOSE p \in Partings(l): TRUE
<1>5. p \in Partings(l)
  BY <1>3
<1>6. p[1] = a /\ p[2] = b /\ p[3] = c
  <2> HIDE DEF p
  <2> QED
    BY <1>4, <1>5
<1>7. Columns(l) = <<Trimmed(l, 1, p[1] - 1), Trimmed(l, p[1] + 1, p[2] - 1),
                           Trimmed(l, p[2] + 1, p[3] - 1), Trimmed(l, p[3] + 1, Len(l))>>
  BY Zenon DEF Columns
<1> HIDE DEF p
<1> QED
  BY <1>3, <1>6, <1>7

(* The separators of a line that are found one after the other are all     *)
(* that it has.                                                            *)
LEMMA TwoSeparators ==
    ASSUME NEW l \in Seq(Int), NEW a, NEW b, NextAt(l, 1, a), NextAt(l, a + 1, b),
           NoneIn(l, b + 1, Len(l))
    PROVE  Separators(l) \in SUBSET {a, b}
<1> DEFINE n == Len(l)
<1>5. DOMAIN l = 1..n /\ n \in Nat
  BY LenProperties
<1>6. a \in Nat /\ b \in Nat /\ NoneIn(l, 1, a - 1) /\ NoneIn(l, a + 1, b - 1) /\ NoneIn(l, b + 1, n)
  BY <1>5 DEF NextAt
<1> HIDE DEF n
<1> SUFFICES ASSUME NEW i \in 1..n, l[i] = Separator PROVE i = a \/ i = b
  BY <1>5 DEF Separators
<1> USE <1>5, <1>6
<1>1. i < a => i \in 1..(a - 1)
  OBVIOUS
<1>2. i > a /\ i < b => i \in (a + 1)..(b - 1)
  OBVIOUS
<1>3. i > b => i \in (b + 1)..n
  OBVIOUS
<1>4. i < a \/ i = a \/ (i > a /\ i < b) \/ i = b \/ i > b
  OBVIOUS
<1> QED
  BY <1>1, <1>2, <1>3, <1>4 DEF NoneIn

(* (the same for three)                                                    *)
LEMMA ThreeSeparators ==
    ASSUME NEW l \in Seq(Int), NEW a, NEW b, NEW c,
           NextAt(l, 1, a), NextAt(l, a + 1, b), NextAt(l, b + 1, c), NoneIn(l, c + 1, Len(l))
    PROVE  Separators(l) = {a, b, c} /\ a < b /\ b < c
<1> DEFINE n == Len(l)
           S == Separators(l)
<1>3. DOMAIN l = 1..n /\ n \in Nat
  BY LenProperties
<1>4. /\ a \in 1..n /\ b \in 1..n /\ c \in 1..n /\ a < b /\ b < c
      /\ l[a] = Separator /\ l[b] = Separator /\ l[c] = Separator
      /\ NoneIn(l, 1, a - 1) /\ NoneIn(l, a + 1, b - 1)
      /\ NoneIn(l, b + 1, c - 1) /\ NoneIn(l, c + 1, n)
  BY <1>3 DEF NextAt
<1>5. S = {i \in 1..n: l[i] = Separator}
  BY <1>3 DEF Separators
<1> HIDE DEF n, S
<1> USE <1>3, <1>4
<1>1. ASSUME NEW i \in S PROVE i \in {a, b, c}
  <2>1. i \in 1..n /\ l[i] = Separator
    BY <1>5
  <2>2. i < a => i \in 1..(a - 1)
    BY <2>1
  <2>3. i > a /\ i < b => i \in (a + 1)..(b - 1)
    BY <2>1
  <2>4. i > b /\ i < c => i \in (b + 1)..(c - 1)
    BY <2>1
  <2>5. i > c => i \in (c + 1)..n
    BY <2>1
  <2>6. i < a \/ i = a \/ (i > a /\ i < b) \/ i = b \/ (i > b /\ i < c) \/ i = c \/ i > c
    BY <2>1
  <2> QED
    BY <2>1, <2>2, <2>3, <2>4, <2>5, <2>6 DEF NoneIn
<1>2. a \in S /\ b \in S /\ c \in S
  BY <1>5
<1>6. S = {a, b, c}
  BY ONLY <1>1, <1>2
<1> QED
  BY <1>6 DEF S

(* Four values appended are a tuple of them.                               *)
LEMMA FourAppended ==
    ASSUME NEW t1, NEW t2, NEW t3, NEW t4
    PROVE  Append(Append(Append(Append(<<>>, t1), t2), t3), t4) = <<t1, t2, t3, t4>>
<1> DEFINE T == {t1, t2, t3, t4}
           s1 == Append(<<>>, t1)
           s2 == Append(s1, t2)
           s3 == Append(s2, t3)
           s4 == Append(s3, t4)
<1>1. s1 \in Seq(T) /\ Len(s1) = 1 /\ s1[1] = t1
  <2>1. <<>> \in Seq(T) /\ Len(<<>>) = 0 /\ t1 \in T
    BY EmptySeq
  <2> HIDE DEF T
  <2> QED
    BY <2>1, AppendProperties
<1>2. s2 \in Seq(T) /\ Len(s2) = 2 /\ s2[1] = t1 /\ s2[2] = t2
  <2>1. t2 \in T
    OBVIOUS
  <2> HIDE DEF T, s1
  <2>2. /\ s2 \in Seq(T) /\ Len(s2) = Len(s1) + 1
        /\ \A i \in 1..Len(s1): s2[i] = s1[i]
        /\ s2[Len(s1) + 1] = t2
    <3>1. s1 \in Seq(T)
      BY <1>1
    <3> QED
      BY ONLY <2>1, <3>1, AppendProperties
  <2> HIDE DEF s2
  <2> QED
    BY <1>1, <2>2
<1>3. s3 \in Seq(T) /\ Len(s3) = 3 /\ s3[1] = t1 /\ s3[2] = t2 /\ s3[3] = t3
  <2>1. t3 \in T
    OBVIOUS
  <2> HIDE DEF T, s2
  <2>2. /\ s3 \in Seq(T) /\ Len(s3) = Len(s2) + 1
        /\ \A i \in 1..Len(s2): s3[i] = s2[i]
        /\ s3[Len(s2) + 1] = t3
    <3>1. s2 \in Seq(T)
      BY <1>2
    <3> QED
      BY ONLY <2>1, <3>1, AppendProperties
  <2> HIDE DEF s3
  <2> QED
    BY <1>2, <2>2
<1>4. s4 \in Seq(T) /\ Len(s4) = 4 /\ s4[1] = t1 /\ s4[2] = t2 /\ s4[3] = t3 /\ s4[4] = t4
  <2>1. t4 \in T
    OBVIOUS
  <2> HIDE DEF T, s3
  <2>2. /\ s4 \in Seq(T) /\ Len(s4) = Len(s3) + 1
        /\ \A i \in 1..Len(s3): s4[i] = s3[i]
        /\ s4[Len(s3) + 1] = t4
    <3>1. s3 \in Seq(T)
      BY <1>3
    <3> QED
      BY ONLY <2>1, <3>1, AppendProperties
  <2> HIDE DEF s4
  <2> QED
    BY <1>3, <2>2
<1> DEFINE u == <<t1, t2, t3, t4>>
<1>5. u \in Seq(T) /\ Len(u) = 4 /\ u[1] = t1 /\ u[2] = t2 /\ u[3] = t3 /\ u[4] = t4
  OBVIOUS
<1> HIDE DEF u, s4, T
<1>6. \A i \in 1..4: s4[i] = u[i]
  BY <1>4, <1>5
<1>7. s4 = u
  BY <1>4, <1>5, <1>6, SeqEqual
<1> QED
  BY <1>7 DEF u, s4

(* parse_line() gives the columns of a line that has four, and fails on    *)
(* every other.                                                            *)
LEMMA ParseLine ==
    ASSUME NEW l \in Seq(Int)
    PROVE  IF Partings(l) # {}
           THEN /\ parse_line(l) = [columns |-> Columns(l)]
                /\ \A k \in 1..4: Columns(l)[k] \in Seq(Int)
           ELSE \/ parse_line(l) = [error |-> "too_few_columns"]
                \/ parse_line(l) = [error |-> "too_many_columns"]
<1> DEFINE n == Len(l)
           S == Separators(l)
           few == [error |-> "too_few_columns"]
           r0 == LeftFrom(l, 1, <<>>)
           r1 == chop_next_column(r0)
           r2 == chop_next_column(r1)
           r3 == chop_next_column(r2)
           r4 == chop_next_column(r3)
<1>1. n \in Nat /\ 1 \in Nat /\ 1 <= 1 /\ 1 <= n + 1 /\ S = {i \in 1..n: l[i] = Separator}
  BY LenProperties DEF Separators
<1>2. parse_line(l)
         = IF Failed(r4) THEN r4
           ELSE IF r4.left THEN [error |-> "too_many_columns"] ELSE [columns |-> r4.columns]
  <2>1. r0 = [line |-> l, left |-> TRUE, columns |-> <<>>]
    <3>1. SubSeq(l, 1, Len(l)) = l
      <4> DEFINE t == SubSeq(l, 1, n)
      <4>1. /\ t \in Seq(Int) /\ Len(t) = n /\ \A i \in 1..n: t[i] = l[i]
        <5>1. \A i \in 1..n: l[i] \in Int
          BY ElementOfSeq
        <5>2. /\ t \in Seq(Int) /\ Len(t) = IF 1 <= n THEN n - 1 + 1 ELSE 0
              /\ \A i \in 1..(n - 1 + 1): t[i] = l[1 + i - 1]
          BY <1>1, <5>1, SubSeqProperties
        <5> HIDE DEF t, n
        <5> QED
          BY <1>1, <5>2
      <4> HIDE DEF t
      <4>2. t = l
        BY <4>1, SeqEqual
      <4> QED
        BY <4>2 DEF t
    <3> QED
      BY <3>1, Zenon DEF LeftFrom
  <2> HIDE DEF r0
  <2>2. r1 = chop_next_column(r0) /\ r2 = chop_next_column(r1)
        /\ r3 = chop_next_column(r2) /\ r4 = chop_next_column(r3)
    BY Zenon
  <2> HIDE DEF r1, r2, r3, r4
  <2> QED
    BY <2>1, <2>2, FourTurns, Zenon
<1>3. ASSUME r4 = few, Partings(l) = {}
      PROVE  parse_line(l) = few /\ Partings(l) = {}
  <2> HIDE DEF r4
  <2> QED
    BY <1>2, <1>3, ErrorsFail
<1>4. chop_next_column(few) = few
  BY ChopNothing
<1> DEFINE c1(a) == Append(<<>>, Trimmed(l, 1, a - 1))
           c2(a, b) == Append(c1(a), Trimmed(l, a + 1, b - 1))
           c3(a, b, c) == Append(c2(a, b), Trimmed(l, b + 1, c - 1))
           c4(a, b, c) == Append(c3(a, b, c), Trimmed(l, c + 1, n))
           Done(columns) == [line |-> <<>>, left |-> FALSE, columns |-> columns]
<1>5. \A columns: chop_next_column(Done(columns)) = few
  BY ChopNothing
<1>6. CASE NoneIn(l, 1, n)
  <2>1. r1 = Done(Append(<<>>, Trimmed(l, 1, n)))
    BY <1>1, <1>6, TurnEnds
  <2>2. r2 = few
    <3> HIDE DEF r1, few, Done
    <3> QED
      BY <1>5, <2>1
  <2>3. r3 = few /\ r4 = few
    <3> HIDE DEF r2, few
    <3> QED
      BY <1>4, <2>2
  <2>4. Partings(l) = {}
    <3>1. S \in SUBSET {0, 0}
      BY <1>1, <1>6 DEF NoneIn
    <3> QED
      BY <3>1, NoParting
  <2> QED
    BY <1>3, <2>3, <2>4
<1>7. ASSUME NEW a, NextAt(l, 1, a)
      PROVE  IF Partings(l) # {}
             THEN /\ parse_line(l) = [columns |-> Columns(l)]
                  /\ \A k \in 1..4: Columns(l)[k] \in Seq(Int)
             ELSE \/ parse_line(l) = [error |-> "too_few_columns"]
                  \/ parse_line(l) = [error |-> "too_many_columns"]
  <2>1. /\ a \in Nat /\ 1 <= a /\ a <= n /\ a + 1 \in Nat /\ 1 <= a + 1
        /\ Trimmed(l, 1, a - 1) \in Seq(Int)
        /\ r1 = LeftFrom(l, a + 1, c1(a))
    BY <1>1, <1>7, TurnFollows
  <2>2. a + 1 <= n + 1 /\ l[a] = Separator /\ NoneIn(l, 1, a - 1)
    BY <1>1, <1>7, <2>1 DEF NextAt
  <2> HIDE DEF r0, r1
  <2>3. CASE NoneIn(l, a + 1, n)
    <3>1. r2 = Done(Append(c1(a), Trimmed(l, a + 1, n)))
      BY <2>1, <2>2, <2>3, TurnEnds
    <3>2. r3 = few
      <4> HIDE DEF r2, few, Done
      <4> QED
        BY <1>5, <3>1
    <3>3. r4 = few
      <4> HIDE DEF r3, few
      <4> QED
        BY <1>4, <3>2
    <3>4. Partings(l) = {}
      <4>1. S \in SUBSET {a, a}
        BY <1>1, <2>1, <2>2, <2>3 DEF NoneIn
      <4> QED
        BY <4>1, NoParting
    <3> QED
      BY <1>3, <3>3, <3>4
  <2>4. ASSUME NEW b, NextAt(l, a + 1, b)
        PROVE  IF Partings(l) # {}
               THEN /\ parse_line(l) = [columns |-> Columns(l)]
                    /\ \A k \in 1..4: Columns(l)[k] \in Seq(Int)
               ELSE \/ parse_line(l) = [error |-> "too_few_columns"]
                    \/ parse_line(l) = [error |-> "too_many_columns"]
    <3>1. /\ b \in Nat /\ a + 1 <= b /\ b <= n /\ b + 1 \in Nat /\ 1 <= b + 1
          /\ Trimmed(l, a + 1, b - 1) \in Seq(Int)
          /\ r2 = LeftFrom(l, b + 1, c2(a, b))
      BY <2>1, <2>4, TurnFollows
    <3>2. b + 1 <= n + 1 /\ l[b] = Separator /\ NoneIn(l, a + 1, b - 1)
      BY <1>1, <2>4, <3>1 DEF NextAt
    <3> HIDE DEF r2
    <3>3. CASE NoneIn(l, b + 1, n)
      <4>1. r3 = Done(Append(c2(a, b), Trimmed(l, b + 1, n)))
        BY <3>1, <3>2, <3>3, TurnEnds
      <4>2. r4 = few
        <5> HIDE DEF r3, few, Done
        <5> QED
          BY <1>5, <4>1
      <4>3. Partings(l) = {}
        <5>1. S \in SUBSET {a, b}
          BY <1>7, <2>4, <3>3, TwoSeparators
        <5> QED
          BY <5>1, NoParting
      <4> QED
        BY <1>3, <4>2, <4>3
    <3>4. ASSUME NEW c, NextAt(l, b + 1, c)
          PROVE  IF Partings(l) # {}
                 THEN /\ parse_line(l) = [columns |-> Columns(l)]
                      /\ \A k \in 1..4: Columns(l)[k] \in Seq(Int)
                 ELSE \/ parse_line(l) = [error |-> "too_few_columns"]
                      \/ parse_line(l) = [error |-> "too_many_columns"]
      <4>1. /\ c \in Nat /\ b + 1 <= c /\ c <= n /\ c + 1 \in Nat /\ 1 <= c + 1
            /\ Trimmed(l, b + 1, c - 1) \in Seq(Int)
            /\ r3 = LeftFrom(l, c + 1, c3(a, b, c))
        BY <3>1, <3>4, TurnFollows
      <4>2. c + 1 <= n + 1 /\ l[c] = Separator /\ NoneIn(l, b + 1, c - 1)
        BY <1>1, <3>4, <4>1 DEF NextAt
      <4> HIDE DEF r3
      <4>3. CASE NoneIn(l, c + 1, n)
        <5>1. /\ Trimmed(l, c + 1, n) \in Seq(Int)
              /\ r4 = Done(c4(a, b, c))
          BY <4>1, <4>2, <4>3, TurnEnds
        <5>2. S = {a, b, c} /\ a < b /\ b < c
          BY <1>7, <2>4, <3>4, <4>3, ThreeSeparators
        <5>3. /\ Partings(l) # {}
              /\ Columns(l) = <<Trimmed(l, 1, a - 1), Trimmed(l, a + 1, b - 1),
                                      Trimmed(l, b + 1, c - 1), Trimmed(l, c + 1, n)>>
          BY <5>2, OneParting
        <5>4. c4(a, b, c) = Columns(l)
          <6> DEFINE t1 == Trimmed(l, 1, a - 1)
                     t2 == Trimmed(l, a + 1, b - 1)
                     t3 == Trimmed(l, b + 1, c - 1)
                     t4 == Trimmed(l, c + 1, n)
          <6> HIDE DEF t1, t2, t3, t4
          <6>1. Append(Append(Append(Append(<<>>, t1), t2), t3), t4) = <<t1, t2, t3, t4>>
            BY FourAppended
          <6> QED
            BY <5>3, <6>1, Zenon DEF t1, t2, t3, t4
        <5>5. \A k \in 1..4: Columns(l)[k] \in Seq(Int)
          <6> DEFINE t1 == Trimmed(l, 1, a - 1)
                     t2 == Trimmed(l, a + 1, b - 1)
                     t3 == Trimmed(l, b + 1, c - 1)
                     t4 == Trimmed(l, c + 1, n)
                     columns == Columns(l)
          <6>1. t1 \in Seq(Int) /\ t2 \in Seq(Int) /\ t3 \in Seq(Int) /\ t4 \in Seq(Int)
            BY <2>1, <3>1, <4>1, <5>1, Zenon
          <6>2. columns = <<t1, t2, t3, t4>>
            BY <5>3, Zenon
          <6> HIDE DEF t1, t2, t3, t4, columns
          <6>3. columns[1] = t1 /\ columns[2] = t2 /\ columns[3] = t3 /\ columns[4] = t4
            BY ONLY <6>2
          <6>4. \A k \in 1..4: columns[k] \in {t1, t2, t3, t4}
            BY ONLY <6>3
          <6> QED
            BY ONLY <6>1, <6>4, Zenon DEF columns
        <5>6. parse_line(l) = [columns |-> c4(a, b, c)]
          <6> HIDE DEF r4, c4
          <6>1. ~Failed(r4) /\ r4.left = FALSE /\ r4.columns = c4(a, b, c)
            BY <5>1, ErrorsFail
          <6> QED
            BY <1>2, <6>1, Zenon
        <5> HIDE DEF c4
        <5> QED
          BY <5>3, <5>4, <5>5, <5>6, Zenon
      <4>4. ASSUME NEW d, NextAt(l, c + 1, d)
            PROVE  /\ Partings(l) = {}
                   /\ parse_line(l) = [error |-> "too_many_columns"]
        <5>1. /\ d \in Nat /\ c + 1 <= d /\ d <= n
              /\ r4 = LeftFrom(l, d + 1, Append(c3(a, b, c), Trimmed(l, c + 1, d - 1)))
          BY <4>1, <4>4, TurnFollows
        <5>2. l[d] = Separator
          BY <4>4 DEF NextAt
        <5>3. Partings(l) = {}
          <6>1. a \in S /\ b \in S /\ c \in S /\ d \in S /\ a < b /\ b < c /\ c < d
            BY <1>1, <2>1, <2>2, <3>1, <3>2, <4>1, <4>2, <5>1, <5>2
          <6> QED
            BY <6>1, TooManyToPart
        <5>4. ~Failed(r4) /\ r4.left = TRUE
          <6> HIDE DEF r4, c3
          <6> QED
            BY <5>1, ErrorsFail DEF LeftFrom
        <5> HIDE DEF r4
        <5> QED
          BY <1>2, <5>3, <5>4, Zenon
      <4>5. NoneIn(l, c + 1, n) \/ \E d: NextAt(l, c + 1, d)
        BY <4>1, NextSeparator
      <4> QED
        BY <4>3, <4>4, <4>5, Zenon
    <3>5. NoneIn(l, b + 1, n) \/ \E c: NextAt(l, b + 1, c)
      BY <3>1, NextSeparator
    <3> QED
      BY <3>3, <3>4, <3>5, Zenon
  <2>5. NoneIn(l, a + 1, n) \/ \E b: NextAt(l, a + 1, b)
    BY <2>1, NextSeparator
  <2> QED
    BY <2>3, <2>4, <2>5, Zenon
<1>8. NoneIn(l, 1, n) \/ \E a: NextAt(l, 1, a)
  BY <1>1, NextSeparator
<1> QED
  BY <1>6, <1>7, <1>8, Zenon

-----------------------------------------------------------------------------
(* What parse_unsigned_integer() can give.                                 *)
NumberErrors == {"no_digit", "integer_overflow"}
Parsed == [value: Nat] \cup [error: NumberErrors]
Digit(c) == c \in 48..57

(* The test of parse_unsigned_integer() before it multiplies is exact.     *)
LEMMA DigitFits ==
    ASSUME NEW v \in Nat, NEW d \in Nat, NEW m \in Nat
    PROVE  v > (m - d) \div 10 <=> 10 * v + d > m
  OBVIOUS

(* A digit is added if the value still fits; every other character fails.  *)
LEMMA DigitAdded ==
    ASSUME NEW c \in Int, NEW max \in Nat, NEW v \in Nat
    PROVE  LET x == add_digit([value |-> v], c, max)
               w == 10 * v + (c - 48)
           IN  IF ~Digit(c) THEN x = [error |-> "no_digit"]
               ELSE IF w > max THEN x = [error |-> "integer_overflow"] /\ w \in Nat
               ELSE x = [value |-> w] /\ w \in Nat
<1> DEFINE r == [value |-> v]
           x == add_digit(r, c, max)
           d == c - 48
<1>1. ~Failed(r) /\ r.value = v
  BY ErrorsFail
<1>2. x = IF ~Digit(c) THEN [error |-> "no_digit"]
          ELSE IF v > (max - d) \div 10 THEN [error |-> "integer_overflow"]
          ELSE [value |-> 10 * v + d]
  <2> HIDE DEF r
  <2> QED
    BY <1>1 DEF add_digit, Digit
<1>3. ASSUME Digit(c) PROVE d \in Nat
  BY <1>3 DEF Digit
<1>4. ASSUME d \in Nat PROVE (v > (max - d) \div 10 <=> 10 * v + d > max) /\ 10 * v + d \in Nat
  <2> HIDE DEF d
  <2> QED
    BY <1>4, DigitFits
<1> HIDE DEF x, d
<1>5. IF ~Digit(c) THEN x = [error |-> "no_digit"]
      ELSE IF 10 * v + d > max THEN x = [error |-> "integer_overflow"] /\ 10 * v + d \in Nat
      ELSE x = [value |-> 10 * v + d] /\ 10 * v + d \in Nat
  BY <1>2, <1>3, <1>4
<1> QED
  BY <1>5, Zenon DEF x, d, r

(* An error stays the result.                                              *)
LEMMA ErrorStays ==
    ASSUME NEW x \in [error: NumberErrors], NEW c, NEW max
    PROVE  add_digit(x, c, max) = x
<1>1. x = [error |-> x.error]
  OBVIOUS
<1>2. Failed(x)
  BY <1>1, ErrorsFail
<1> QED
  BY <1>2 DEF add_digit

(* There are no other results.                                             *)
LEMMA ResultsStay ==
    ASSUME NEW x \in Parsed, NEW c \in Int, NEW max \in Nat
    PROVE  add_digit(x, c, max) \in Parsed
<1>1. CASE x \in [error: NumberErrors]
  BY <1>1, ErrorStays DEF Parsed
<1>2. CASE x \in [value: Nat]
  <2> DEFINE v == x.value
             w == 10 * v + (c - 48)
             y == add_digit(x, c, max)
  <2>1. v \in Nat /\ x = [value |-> v]
    BY <1>2
  <2> HIDE DEF v
  <2>2. IF ~Digit(c) THEN y = [error |-> "no_digit"]
        ELSE IF w > max THEN y = [error |-> "integer_overflow"] /\ w \in Nat
        ELSE y = [value |-> w] /\ w \in Nat
    BY <2>1, DigitAdded
  <2> HIDE DEF w, y
  <2>3. y \in Parsed
    BY <2>2 DEF Parsed, NumberErrors
  <2> QED
    BY <2>3 DEF y
<1> QED
  BY <1>1, <1>2 DEF Parsed

(* The value of a column, place by place.                                  *)
IsValue(v, s, n) == v[0] = 0 /\ \A k \in 1..n: v[k] = 10 * v[k - 1] + s[k] - 48

(* The reference adds up the digits.                                       *)
LEMMA ValueOfPlaces ==
    ASSUME NEW s \in Seq(Int)
    PROVE  \E v: IsValue(v, s, Len(s)) /\ Value(s) = v[Len(s)]
<1> DEFINE n == Len(s)
           Is(v) == v = [i \in 0..n |-> IF i = 0 THEN 0 ELSE 10 * v[i - 1] + s[i] - 48]
           step == [k \in 1..n |-> [v \in Int |-> 10 * v + s[k] - 48]]
           f == CHOOSE v: Is(v)
<1>1. n \in Nat /\ \A k \in 1..n: s[k] \in Int
  BY LenProperties, ElementOfSeq
<1>2. step \in [1..n -> [Int -> Int]]
  <2> HIDE DEF n
  <2> QED
    BY <1>1
<1>3. PICK g: IsRecursion(g, 0, n, step)
  <2>1. 0 \in Int
    OBVIOUS
  <2> HIDE DEF n, step
  <2> QED
    BY <1>1, <1>2, <2>1, RecursionDefines
<1>4. \A k \in 0..n: g[k] \in Int
  <2>1. 0 \in Int
    OBVIOUS
  <2> HIDE DEF n, step
  <2> QED
    BY <1>1, <1>2, <1>3, <2>1, RecursionStays
<1> HIDE DEF n
<1>5. Is(g)
  <2>1. ASSUME NEW k \in 0..n, k # 0 PROVE step[k][g[k - 1]] = 10 * g[k - 1] + s[k] - 48
    <3>1. k \in 1..n /\ k - 1 \in 0..n
      BY <1>1, <2>1
    <3> QED
      BY <1>4, <3>1
  <2> HIDE DEF step
  <2> QED
    BY <1>3, <2>1 DEF IsRecursion
<1>6. Is(f)
  <2> HIDE DEF Is
  <2> QED
    BY <1>5, Zenon
<1>7. Value(s) = f[n]
  BY Zenon DEF Value, n
<1> HIDE DEF f
<1>8. IsValue(f, s, n)
  <2>1. \A k \in 0..n: f[k] = IF k = 0 THEN 0 ELSE 10 * f[k - 1] + s[k] - 48
    BY <1>6, Zenon
  <2>2. 0 \in 0..n /\ \A k \in 1..n: k \in 0..n /\ k # 0
    BY <1>1
  <2> QED
    BY <2>1, <2>2 DEF IsValue
<1> QED
  BY <1>7, <1>8 DEF n

(* What parse_unsigned_integer() has after each place.                     *)
IsParsed(x, s, max, n) ==
    x[0] = [value |-> 0] /\ \A k \in 1..n: x[k] = add_digit(x[k - 1], s[k], max)

(* And parse_unsigned_integer() reads one after the other.                 *)
LEMMA ParsedByPlaces ==
    ASSUME NEW s \in Seq(Int), NEW max \in Nat
    PROVE  \E x: /\ IsParsed(x, s, max, Len(s))
                 /\ parse_unsigned_integer(s, max) = x[Len(s)]
<1> DEFINE n == Len(s)
           Is(x) == x = [i \in 0..n |-> IF i = 0 THEN [value |-> 0]
                                        ELSE add_digit(x[i - 1], s[i], max)]
           step == [k \in 1..n |-> [x \in Parsed |-> add_digit(x, s[k], max)]]
           zero == [value |-> 0]
           f == CHOOSE x: Is(x)
<1>1. n \in Nat /\ (\A k \in 1..n: s[k] \in Int) /\ zero \in Parsed
  BY LenProperties, ElementOfSeq DEF Parsed
<1> HIDE DEF zero
<1>2. step \in [1..n -> [Parsed -> Parsed]]
  <2> HIDE DEF n
  <2> QED
    BY <1>1, ResultsStay
<1>3. PICK g: IsRecursion(g, zero, n, step)
  <2> HIDE DEF n, step
  <2> QED
    BY <1>1, <1>2, RecursionDefines
<1>4. \A k \in 0..n: g[k] \in Parsed
  <2> HIDE DEF n, step
  <2> QED
    BY <1>1, <1>2, <1>3, RecursionStays
<1> HIDE DEF n
<1>5. Is(g)
  <2>1. ASSUME NEW k \in 0..n, k # 0 PROVE step[k][g[k - 1]] = add_digit(g[k - 1], s[k], max)
    <3>1. k \in 1..n /\ k - 1 \in 0..n
      BY <1>1, <2>1
    <3> QED
      BY <1>4, <3>1
  <2> HIDE DEF step
  <2>2. \A k \in 0..n: (IF k = 0 THEN zero ELSE step[k][g[k - 1]])
                       = IF k = 0 THEN zero ELSE add_digit(g[k - 1], s[k], max)
    BY <2>1
  <2>3. g = [k \in 0..n |-> IF k = 0 THEN zero ELSE step[k][g[k - 1]]]
    BY <1>3 DEF IsRecursion
  <2>4. g = [k \in 0..n |-> IF k = 0 THEN zero ELSE add_digit(g[k - 1], s[k], max)]
    BY <2>2, <2>3
  <2> QED
    BY <2>4, Zenon DEF zero
<1>6. Is(f)
  <2> HIDE DEF Is
  <2> QED
    BY <1>5, Zenon
<1>7. parse_unsigned_integer(s, max) = f[n]
  BY Zenon DEF parse_unsigned_integer, n
<1> HIDE DEF f
<1>8. IsParsed(f, s, max, n)
  <2>1. \A k \in 0..n: f[k] = IF k = 0 THEN [value |-> 0] ELSE add_digit(f[k - 1], s[k], max)
    BY <1>6, Zenon
  <2>2. 0 \in 0..n /\ \A k \in 1..n: k \in 0..n /\ k # 0
    BY <1>1
  <2> HIDE DEF Is
  <2>3. f[0] = [value |-> 0]
    BY <2>1, <2>2
  <2>4. \A k \in 1..n: f[k] = add_digit(f[k - 1], s[k], max)
    BY ONLY <2>1, <2>2, Zenon
  <2> QED
    BY <2>3, <2>4 DEF IsParsed
<1> QED
  BY <1>7, <1>8 DEF n

(* Up to a place it has their value, unless one of them is no digit or the *)
(* value does not fit.                                                     *)
ValueUpTo(x, v, s, max, k) ==
    (\A i \in 1..k: Digit(s[i])) /\ v[k] \in Nat /\ v[k] <= max /\ x[k] = [value |-> v[k]]
FailedUpTo(x, v, s, max, k) ==
    /\ x[k] \in [error: NumberErrors]
    /\ (\E i \in 1..k: ~Digit(s[i])) \/ (v[k] \in Nat /\ v[k] > max)

(* One place more.                                                         *)
LEMMA PlaceParsed ==
    ASSUME NEW s, NEW max \in Nat, NEW n \in Nat, \A k \in 1..n: s[k] \in Int, NEW v, NEW x,
           IsValue(v, s, n), IsParsed(x, s, max, n), NEW k \in 1..n,
           ValueUpTo(x, v, s, max, k - 1) \/ FailedUpTo(x, v, s, max, k - 1)
    PROVE  ValueUpTo(x, v, s, max, k) \/ FailedUpTo(x, v, s, max, k)
<1>1. v[k - 1] \in Int => v[k] = 10 * v[k - 1] + (s[k] - 48)
  BY DEF IsValue, IsParsed
<1>2. x[k] = add_digit(x[k - 1], s[k], max) /\ s[k] \in Int
  BY DEF IsParsed
<1>3. \A i \in 1..k: i = k \/ i \in 1..(k - 1)
  OBVIOUS
<1>4. \A i \in 1..(k - 1): i \in 1..k
  OBVIOUS
<1>5. k \in 1..k
  OBVIOUS
<1>8. ASSUME NEW i \in 1..k, ~Digit(s[i]), x[k] \in [error: NumberErrors]
      PROVE  FailedUpTo(x, v, s, max, k)
  BY <1>8 DEF FailedUpTo
<1> DEFINE c == s[k]
           w == 10 * v[k - 1] + (c - 48)
           y == x[k - 1]
<1>6. CASE ValueUpTo(x, v, s, max, k - 1)
  <2>1. v[k - 1] \in Nat /\ y = [value |-> v[k - 1]]
    BY <1>6 DEF ValueUpTo
  <2>2. IF ~Digit(c) THEN x[k] = [error |-> "no_digit"]
        ELSE IF w > max THEN x[k] = [error |-> "integer_overflow"] /\ w \in Nat
        ELSE x[k] = [value |-> w] /\ w \in Nat
    <3> DEFINE u == v[k - 1]
    <3>1. u \in Nat /\ y = [value |-> u] /\ c \in Int
      BY <1>2, <2>1
    <3> HIDE DEF u, y, c
    <3>2. LET z == add_digit([value |-> u], c, max)
              t == 10 * u + (c - 48)
          IN  IF ~Digit(c) THEN z = [error |-> "no_digit"]
              ELSE IF t > max THEN z = [error |-> "integer_overflow"] /\ t \in Nat
              ELSE z = [value |-> t] /\ t \in Nat
      BY <3>1, DigitAdded
    <3>3. x[k] = add_digit([value |-> u], c, max)
      BY <1>2, <3>1 DEF c, y
    <3> QED
      BY <3>2, <3>3, Zenon DEF u
  <2>3. v[k] = w
    BY <1>1, <2>1
  <2> HIDE DEF w
  <2>4. CASE ~Digit(c)
    <3>1. x[k] = [error |-> "no_digit"]
      BY <2>2, <2>4
    <3>2. x[k] \in [error: NumberErrors]
      BY <3>1 DEF NumberErrors
    <3> QED
      BY <1>5, <1>8, <2>4, <3>2
  <2>5. CASE Digit(c) /\ w > max
    <3>1. x[k] = [error |-> "integer_overflow"] /\ w \in Nat
      BY <2>2, <2>5
    <3>2. x[k] \in [error: NumberErrors]
      BY <3>1 DEF NumberErrors
    <3> QED
      BY ONLY <2>3, <2>5, <3>1, <3>2, Zenon DEF FailedUpTo
  <2>6. CASE Digit(c) /\ ~(w > max)
    <3>1. x[k] = [value |-> w] /\ w \in Nat
      BY <2>2, <2>6
    <3>2. w <= max
      BY <2>6, <3>1
    <3>3. \A i \in 1..k: Digit(s[i])
      BY <1>3, <1>6, <2>6 DEF ValueUpTo
    <3> QED
      BY ONLY <2>3, <3>1, <3>2, <3>3, Zenon DEF ValueUpTo
  <2> QED
    BY <2>4, <2>5, <2>6
<1>7. CASE FailedUpTo(x, v, s, max, k - 1)
  <2>1. x[k] \in [error: NumberErrors]
    <3>1. y \in [error: NumberErrors]
      BY <1>7 DEF FailedUpTo
    <3> HIDE DEF y
    <3>2. add_digit(y, c, max) = y
      BY <3>1, ErrorStays
    <3> QED
      BY <1>2, <3>1, <3>2 DEF y
  <2>2. CASE \E i \in 1..(k - 1): ~Digit(s[i])
    <3>1. PICK i \in 1..(k - 1): ~Digit(s[i])
      BY <2>2
    <3>2. i \in 1..k
      BY <1>4
    <3> QED
      BY <1>8, <2>1, <3>1, <3>2
  <2>3. CASE ~Digit(c)
    BY <1>5, <1>8, <2>1, <2>3
  <2>4. CASE Digit(c) /\ v[k - 1] \in Nat /\ v[k - 1] > max
    <3>1. c \in Int /\ c - 48 \in Nat
      BY <1>2, <2>4 DEF Digit
    <3>2. v[k] = w
      BY <1>1, <2>4
    <3> DEFINE u == v[k - 1]
               d == c - 48
    <3>3. u \in Nat /\ u > max /\ d \in Nat
      BY <2>4, <3>1
    <3> HIDE DEF u, d
    <3>4. 10 * u + d \in Nat /\ 10 * u + d > max
      BY <3>3
    <3>5. v[k] \in Nat /\ v[k] > max
      BY <3>2, <3>4 DEF u, d
    <3> QED
      BY <2>1, <3>5 DEF FailedUpTo
  <2> QED
    BY <1>7, <2>2, <2>3, <2>4 DEF FailedUpTo
<1> QED
  BY <1>6, <1>7

(* parse_unsigned_integer() gives the value of a column of digits, if it   *)
(* fits, and fails on every other.                                         *)
LEMMA ParseNumber ==
    ASSUME NEW s \in Seq(Int), NEW max \in Nat
    PROVE  LET x == parse_unsigned_integer(s, max)
           IN  IF Digits(s) /\ Value(s) <= max
               THEN x = [value |-> Value(s)]
               ELSE x = [error |-> "no_digit"] \/ x = [error |-> "integer_overflow"]
<1> DEFINE n == Len(s)
<1>1. n \in Nat /\ DOMAIN s = 1..n /\ \A k \in 1..n: s[k] \in Int
  BY LenProperties, ElementOfSeq
<1>2. PICK v: IsValue(v, s, n) /\ Value(s) = v[n]
  BY ValueOfPlaces
<1>3. PICK x: IsParsed(x, s, max, n) /\ parse_unsigned_integer(s, max) = x[n]
  BY ParsedByPlaces
<1> HIDE DEF n
<1> DEFINE P(k) == ValueUpTo(x, v, s, max, k) \/ FailedUpTo(x, v, s, max, k)
           T == {k \in 0..n: ~P(k)}
<1>4. P(0)
  <2>1. v[0] = 0 /\ x[0] = [value |-> 0]
    BY <1>2, <1>3 DEF IsValue, IsParsed
  <2>2. \A i \in 1..0: FALSE
    OBVIOUS
  <2>3. 0 \in Nat /\ 0 <= max
    OBVIOUS
  <2> QED
    BY ONLY <2>1, <2>2, <2>3 DEF ValueUpTo
<1>5. \A k \in 1..n: P(k - 1) => P(k)
  BY <1>1, <1>2, <1>3, PlaceParsed
<1> HIDE DEF P
<1>6. T = {}
  <2> SUFFICES ASSUME T # {} PROVE FALSE
    OBVIOUS
  <2>1. T \in SUBSET Nat
    BY <1>1
  <2> HIDE DEF T
  <2>2. PICK m \in T: \A k \in T: m <= k
    BY <2>1, LeastNumber
  <2>3. m \in 0..n /\ ~P(m)
    BY <2>2 DEF T
  <2>4. m # 0
    BY <1>4, <2>3
  <2>5. m \in 1..n /\ m - 1 \in 0..n /\ ~(m <= m - 1)
    BY <1>1, <2>3, <2>4
  <2>6. P(m - 1)
    BY <2>2, <2>5 DEF T
  <2> QED
    BY <1>5, <2>3, <2>5, <2>6
<1>7. P(n)
  <2>1. n \in 0..n
    BY <1>1
  <2> QED
    BY <1>6, <2>1
<1>8. Digits(s) <=> \A i \in 1..n: Digit(s[i])
  BY <1>1 DEF Digits, Digit
<1> DEFINE r == parse_unsigned_integer(s, max)
           value == Value(s)
<1>9. CASE ValueUpTo(x, v, s, max, n)
  BY <1>2, <1>3, <1>8, <1>9, Zenon DEF ValueUpTo
<1>10. CASE FailedUpTo(x, v, s, max, n)
  <2>1. r \in [error: NumberErrors]
    BY <1>3, <1>10 DEF FailedUpTo
  <2>2. ~(Digits(s) /\ value <= max)
    <3>1. (\E i \in 1..n: ~Digit(s[i])) \/ (value \in Nat /\ value > max)
      BY <1>2, <1>10, Zenon DEF FailedUpTo
    <3> HIDE DEF value
    <3> QED
      BY <1>8, <3>1
  <2>3. r = [error |-> "no_digit"] \/ r = [error |-> "integer_overflow"]
    <3> HIDE DEF r
    <3> QED
      BY <2>1 DEF NumberErrors
  <2> QED
    BY <2>2, <2>3, Zenon
<1> QED
  BY <1>7, <1>9, <1>10 DEF P

(* read_row() gives what a row means, and fails on every other line.       *)
LEMMA RowIsRead ==
    ASSUME SizeMax \in Nat, NEW l \in Seq(Int)
    PROVE  LET row == read_row(l)
           IN  IF IsRow(l) THEN row = Means(l) /\ ~Failed(row)
               ELSE Failed(row) /\ row.error \notin {"running", "loaded"}
<1> DEFINE r == parse_line(l)
           article == parse_unsigned_integer(r.columns[1], SizeMax)
           version == parse_unsigned_integer(r.columns[4], 255)
           columns == Columns(l)
           row == read_row(l)
           a == Value(columns[1])
           v == Value(columns[4])
           Fits(s, max) == Digits(s) /\ Value(s) <= max
           Wrong(x) == Failed(x) /\ x.error \notin {"running", "loaded"}
<1>1. row = IF Failed(r) THEN r
            ELSE IF Failed(article) THEN article
            ELSE IF Failed(version) THEN version
            ELSE [articleNumber |-> article.value, name |-> r.columns[2],
                  fileName |-> r.columns[3], version |-> version.value]
  BY Zenon DEF read_row
<1>2. IsRow(l) <=> Partings(l) # {} /\ Fits(columns[1], SizeMax) /\ Fits(columns[4], 255)
  BY Zenon DEF IsRow
<1>3. Means(l) = [articleNumber |-> a, name |-> columns[2],
                        fileName |-> columns[3], version |-> v]
  BY Zenon DEF Means
<1>4. \A e \in {"too_few_columns", "too_many_columns", "no_digit", "integer_overflow"}:
          Wrong([error |-> e])
  BY ErrorsFail
<1>5. ASSUME NEW s \in Seq(Int), NEW max \in Nat, NEW x, x = parse_unsigned_integer(s, max)
      PROVE  IF Fits(s, max)
             THEN x = [value |-> Value(s)] /\ ~Failed(x) /\ x.value = Value(s)
             ELSE Wrong(x)
  <2> DEFINE value == Value(s)
  <2>1. IF Digits(s) /\ value <= max THEN x = [value |-> value]
        ELSE x = [error |-> "no_digit"] \/ x = [error |-> "integer_overflow"]
    BY <1>5, ParseNumber
  <2> HIDE DEF value, Wrong
  <2>2. ~Failed([value |-> value]) /\ [value |-> value].value = value
    BY ErrorsFail
  <2>3. (Digits(s) /\ value <= max) \/ ~(Digits(s) /\ value <= max)
    OBVIOUS
  <2> QED
    BY <1>4, <2>1, <2>2, <2>3 DEF value
<1> HIDE DEF Fits, row, Wrong
<1>6. CASE Partings(l) = {}
  <2>1. Wrong(r)
    BY <1>4, <1>6, ParseLine
  <2>2. Failed(r)
    BY <2>1 DEF Wrong
  <2>3. row = r
    BY <1>1, <2>2, Zenon
  <2>4. Wrong(row)
    BY <2>1, <2>3, Zenon
  <2> QED
    BY <1>2, <1>6, <2>4, Zenon DEF Wrong, row
<1>7. CASE Partings(l) # {}
  <2>1. r = [columns |-> columns] /\ \A k \in 1..4: columns[k] \in Seq(Int)
    BY <1>7, ParseLine
  <2> HIDE DEF r, columns
  <2>2. ~Failed(r) /\ r.columns = columns
    BY <2>1, ErrorsFail
  <2>3. columns[1] \in Seq(Int) /\ columns[4] \in Seq(Int)
    BY <2>1
  <2>4. 255 \in Nat
    OBVIOUS
  <2>5. article = parse_unsigned_integer(columns[1], SizeMax)
        /\ version = parse_unsigned_integer(columns[4], 255)
    BY <2>2, Zenon
  <2>6. IF Fits(columns[1], SizeMax) THEN ~Failed(article) /\ article.value = a
        ELSE Wrong(article)
    <3> DEFINE s == columns[1]
    <3>1. s \in Seq(Int) /\ article = parse_unsigned_integer(s, SizeMax)
      BY <2>3, <2>5, Zenon
    <3> HIDE DEF article, s
    <3>2. IF Fits(s, SizeMax) THEN ~Failed(article) /\ article.value = Value(s)
          ELSE Wrong(article)
      BY <1>5, <3>1
    <3> QED
      BY <3>2, Zenon DEF s
  <2>7. IF Fits(columns[4], 255) THEN ~Failed(version) /\ version.value = v
        ELSE Wrong(version)
    <3> DEFINE s == columns[4]
    <3>1. s \in Seq(Int) /\ version = parse_unsigned_integer(s, 255)
      BY <2>3, <2>5, Zenon
    <3> HIDE DEF version, s
    <3>2. IF Fits(s, 255) THEN ~Failed(version) /\ version.value = Value(s)
          ELSE Wrong(version)
      BY <1>5, <2>4, <3>1
    <3> QED
      BY <3>2, Zenon DEF s
  <2> HIDE DEF article, version, a, v
  <2>8. CASE ~Fits(columns[1], SizeMax)
    <3>1. Wrong(article)
      BY <2>6, <2>8
    <3>2. row = article
      BY <1>1, <2>2, <3>1, Zenon DEF Wrong
    <3>3. Wrong(row)
      BY <3>1, <3>2, Zenon
    <3> QED
      BY <1>2, <2>8, <3>3, Zenon DEF Wrong, row
  <2>9. CASE Fits(columns[1], SizeMax) /\ ~Fits(columns[4], 255)
    <3>1. Wrong(version) /\ ~Failed(article)
      BY <2>6, <2>7, <2>9
    <3>2. row = version
      BY <1>1, <2>2, <3>1, Zenon DEF Wrong
    <3>3. Wrong(row)
      BY <3>1, <3>2, Zenon
    <3> QED
      BY <1>2, <2>9, <3>3, Zenon DEF Wrong, row
  <2>10. CASE Fits(columns[1], SizeMax) /\ Fits(columns[4], 255)
    <3>1. ~Failed(article) /\ article.value = a /\ ~Failed(version) /\ version.value = v
      BY <2>6, <2>7, <2>10
    <3>2. row = [articleNumber |-> article.value, name |-> r.columns[2],
                 fileName |-> r.columns[3], version |-> version.value]
      BY <1>1, <2>2, <3>1, Zenon
    <3>3. row = Means(l)
      BY <1>3, <2>2, <3>1, <3>2
    <3>4. ~Failed(row)
      <4>1. \A f, g, h, i: ~Failed([articleNumber |-> f, name |-> g, fileName |-> h, version |-> i])
        BY ErrorsFail
      <4> QED
        BY ONLY <3>2, <4>1
    <3> QED
      BY <1>2, <1>7, <2>10, <3>3, <3>4, Zenon DEF row
  <2> QED
    BY <2>8, <2>9, <2>10, Zenon
<1> QED
  BY <1>6, <1>7

-----------------------------------------------------------------------------
(* After an end that is not the last there is a next.                      *)
LEMMA NextEndExists ==
    ASSUME NEW c \in Seq(Int), NEW p \in Nat, p = 0 \/ p \in Ends(c),
           Counted(c, p) # Cardinality(Ends(c))
    PROVE  \E q \in Ends(c): q \in Nat /\ p < q /\ \A i \in (p + 1)..(q - 1): i \notin Ends(c)
<1> DEFINE E == Ends(c)
           T == {i \in E: p < i}
<1>1. E \in SUBSET (1..Len(c)) /\ Len(c) \in Nat
  BY EndsArePlaces
<1>2. T # {}
  <2> SUFFICES ASSUME T = {} PROVE FALSE
    OBVIOUS
  <2>1. \A i \in E: i <= p
    <3> HIDE DEF E
    <3> QED
      BY <1>1
  <2>2. {i \in E: i <= p} = E
    BY <2>1
  <2> QED
    BY <2>2 DEF Counted
<1>3. T \in SUBSET Nat
  <2>1. \A i \in E: i \in Int /\ 1 <= i
    BY EndsArePlaces
  <2> HIDE DEF E
  <2> QED
    BY ONLY <2>1
<1> HIDE DEF T
<1>4. PICK q \in T: \A i \in T: q <= i
  BY <1>2, <1>3, LeastNumber
<1>5. q \in E /\ q \in Nat /\ p < q
  BY <1>3 DEF T
<1>6. ASSUME NEW i \in (p + 1)..(q - 1) PROVE i \notin E
  <2>1. i \in Int /\ p < i /\ ~(q <= i)
    BY <1>5
  <2> QED
    BY <1>4, <2>1 DEF T
<1> QED
  BY <1>5, <1>6

(* As many ends as there are lines.                                        *)
LEMMA EndsExist ==
    ASSUME NEW c \in Seq(Int)
    PROVE  \A k \in 0..Cardinality(Ends(c)):
               \E p \in Nat: (p = 0 \/ p \in Ends(c)) /\ Counted(c, p) = k
<1> DEFINE n == Cardinality(Ends(c))
           P(k) == \E p \in Nat: (p = 0 \/ p \in Ends(c)) /\ Counted(c, p) = k
           T == {k \in 0..n: ~P(k)}
<1>1. n \in Nat
  <2>1. 0 \in Int
    OBVIOUS
  <2> QED
    BY <2>1, EndsFinite, FS_CardinalityType
<1>2. P(0)
  <2> DEFINE S == {i \in Ends(c): i <= 0}
  <2>1. S = {}
    BY EndsArePlaces
  <2>2. Counted(c, 0) = 0
    BY <2>1, FS_EmptySet DEF Counted
  <2> QED
    BY <2>2
<1>3. ASSUME NEW k \in 0..n, k # n, P(k) PROVE P(k + 1)
  <2>1. PICK p \in Nat: (p = 0 \/ p \in Ends(c)) /\ Counted(c, p) = k
    BY <1>3
  <2>2. PICK q \in Ends(c): q \in Nat /\ p < q /\ \A i \in (p + 1)..(q - 1): i \notin Ends(c)
    BY <1>3, <2>1, NextEndExists
  <2>3. Counted(c, q) = Counted(c, p) + 1
    BY <2>2, NextEndCounts
  <2> QED
    BY <2>1, <2>2, <2>3
<1> HIDE DEF P, n
<1>4. T = {}
  <2> SUFFICES ASSUME T # {} PROVE FALSE
    OBVIOUS
  <2>1. T \in SUBSET Nat
    BY <1>1
  <2> HIDE DEF T
  <2>2. PICK m \in T: \A k \in T: m <= k
    BY <2>1, LeastNumber
  <2>3. m \in 0..n /\ ~P(m)
    BY <2>2 DEF T
  <2>4. m # 0
    BY <1>2, <2>3
  <2>5. m - 1 \in 0..n /\ ~(m <= m - 1) /\ (m - 1) + 1 = m /\ m - 1 # n
    BY <1>1, <2>3, <2>4
  <2>6. P(m - 1)
    BY <2>2, <2>5 DEF T
  <2> QED
    BY <1>3, <2>3, <2>5, <2>6
<1>5. \A k \in 0..n: P(k)
  BY <1>4
<1> QED
  BY <1>5 DEF P, n

(* The lines of a text are text.                                           *)
LEMMA LinesAreText ==
    ASSUME file \in Seq(Int)
    PROVE  /\ Promised!LineCount(file) \in Nat
           /\ \A k \in 1..Promised!LineCount(file):
                  /\ Promised!Line(file, k) \in Seq(Int)
                  /\ Len(Promised!RawLine(file, k)) \in Nat
<1> DEFINE c == Text(file)
           n == Cardinality(Ends(c))
<1>1. c \in Seq(Int)
  BY TextOfFile
<1>2. n \in Nat
  <2>1. 0 \in Int
    OBVIOUS
  <2> HIDE DEF c
  <2> QED
    BY <1>1, <2>1, EndsFinite, FS_CardinalityType
<1>3. Promised!LineCount(file) = n
  BY SameCardinality, Zenon DEF Promised!LineCount, Ends, Text
<1> HIDE DEF n
<1>4. ASSUME NEW k \in 1..n
      PROVE  Promised!Line(file, k) \in Seq(Int) /\ Len(Promised!RawLine(file, k)) \in Nat
  <2> DEFINE j == k - 1
             raw == Promised!RawLine(file, k)
  <2>1. j \in 0..n /\ j # n /\ j + 1 = k
    BY <1>2
  <2> HIDE DEF j
  <2>2. PICK p \in Nat: (p = 0 \/ p \in Ends(c)) /\ Counted(c, p) = j
    <3> HIDE DEF c
    <3> QED
      BY <1>1, <2>1, EndsExist DEF n
  <2>3. PICK q \in Ends(c): q \in Nat /\ p < q /\ \A i \in (p + 1)..(q - 1): i \notin Ends(c)
    <3> HIDE DEF c
    <3> QED
      BY <1>1, <2>1, <2>2, NextEndExists DEF n
  <2>4. Promised!RawLine(file, j + 1) \in Seq(Int)
    <3> HIDE DEF c
    <3>1. c = Text(file)
      BY Zenon DEF c
    <3> QED
      BY <2>2, <2>3, <3>1, LineBetweenEnds
  <2>5. raw \in Seq(Int) /\ Len(raw) \in Nat
    BY <2>1, <2>4, LenProperties
  <2> HIDE DEF raw
  <2>6. Promised!WithoutReturn(raw) \in Seq(Int)
    <3> DEFINE m == Len(raw) - 1
    <3>1. \A i \in 1..m: raw[i] \in Int
      <4>1. \A i \in 1..m: i \in 1..Len(raw)
        BY <2>5
      <4> QED
        BY <2>5, <4>1, ElementOfSeq
    <3>2. m \in Int /\ 1 \in Int
      BY <2>5
    <3> HIDE DEF m
    <3>3. SubSeq(raw, 1, m) \in Seq(Int)
      BY ONLY <3>1, <3>2, SubSeqProperties
    <3> QED
      BY <2>5, <3>3 DEF Promised!WithoutReturn, m
  <2>7. Promised!Line(file, k) = Promised!WithoutReturn(raw)
    BY Zenon DEF Promised!Line, raw
  <2>8. Promised!RawLine(file, k) = raw
    BY Zenon DEF raw
  <2> QED
    BY <2>5, <2>6, <2>7, <2>8
<1> QED
  BY <1>2, <1>3, <1>4

-----------------------------------------------------------------------------
(* Why the table is the file's: it is that of the lines read so far,       *)
Article(k) == Means(Promised!Line(file, k)).articleNumber
IsFirstRow(k, n) == k \in 2..n /\ \A j \in 2..(k - 1): Article(j) # Article(k)

TableOf(n) ==
    /\ machines = [a \in DOMAIN machines |-> machines[a]]
    /\ DOMAIN machines = {Article(k): k \in 2..n}
    /\ \A k \in 2..n: IsFirstRow(k, n) => machines[Article(k)] = Means(Promised!Line(file, k))

RowsFine(n) == \A k \in 2..n: IsRow(Promised!Line(file, k))
LinesFit(n) == \A k \in 1..n: Len(Promised!RawLine(file, k)) < BlockLen

(* and a load that fails has met a line for which it has to.               *)
TableInductive ==
    /\ file \in Seq(Int)
    /\ lines \in Seq(Seq(Int)) /\ Len(lines) \in 0..Promised!LineCount(file)
    /\ LinesFit(Len(lines))
    /\ process \in {"running", "loaded"} => RowsFine(Len(lines)) /\ TableOf(Len(lines))
    /\ process = "loaded" => Len(lines) = Promised!LineCount(file)
    /\ process \notin {"running", "loaded"} =>
           ~RowsFine(Promised!LineCount(file)) \/ ~LinesFit(Promised!LineCount(file))

(* Nothing is read any more once the table is loaded or given up.          *)
ReadsWhileRunning ==
    process # "running" => client \in {"idle", "terminate", "notify", "joins", "destroyed"}

(* It holds before the first line is read,                                 *)
LEMMA TableInitially == TableInit => TableInductive
<1> SUFFICES ASSUME TableInit PROVE TableInductive
  OBVIOUS
<1>1. file \in Files /\ lines = <<>> /\ machines = <<>> /\ process = "running"
  BY Zenon DEF TableInit, Init
<1>2. file \in Seq(Int)
  BY <1>1, FilesAssumption
<1>3. lines \in Seq(Seq(Int)) /\ Len(lines) = 0
  BY <1>1, EmptySeq
<1>4. 0 \in 0..Promised!LineCount(file)
  BY <1>2, LinesAreText
<1>5. LinesFit(0) /\ RowsFine(0)
  BY DEF LinesFit, RowsFine
<1>6. TableOf(0)
  <2>1. <<>> = [a \in DOMAIN <<>> |-> <<>>[a]] /\ DOMAIN <<>> = {}
    OBVIOUS
  <2>2. 2..0 = {}
    OBVIOUS
  <2>3. {Article(k): k \in 2..0} = {}
    BY <2>2
  <2> QED
    BY <1>1, <2>1, <2>2, <2>3 DEF TableOf
<1> QED
  BY <1>1, <1>2, <1>3, <1>4, <1>5, <1>6 DEF TableInductive

(* A line that is delivered is one more line of the file.                  *)
LEMMA OneMoreLine ==
    ASSUME TableInductive, Promised!Deliver
    PROVE  /\ file' = file /\ Len(lines) + 1 \in 1..Promised!LineCount(file)
           /\ lines' \in Seq(Seq(Int)) /\ Len(lines') = Len(lines) + 1
           /\ lines'[Len(lines')] = Promised!Line(file, Len(lines) + 1)
           /\ LinesFit(Len(lines) + 1)
<1> DEFINE n == Len(lines)
           line == Promised!Line(file, n + 1)
           count == Promised!LineCount(file)
<1>1. /\ n < count /\ Len(Promised!RawLine(file, n + 1)) < BlockLen
      /\ lines' = Append(lines, line) /\ file' = file
  BY DEF Promised!Deliver
<1>2. n \in 0..count /\ lines \in Seq(Seq(Int)) /\ file \in Seq(Int) /\ LinesFit(n)
  BY DEF TableInductive
<1>3. count \in Nat
  BY <1>2, LinesAreText
<1> HIDE DEF count
<1>4. n + 1 \in 1..count
  <2> HIDE DEF n
  <2> QED
    BY <1>1, <1>2, <1>3
<1>5. line \in Seq(Int)
  BY <1>2, <1>4, LinesAreText DEF count
<1> HIDE DEF line
<1>6. lines' \in Seq(Seq(Int)) /\ Len(lines') = n + 1 /\ lines'[n + 1] = line
  <2>1. /\ Append(lines, line) \in Seq(Seq(Int)) /\ Len(Append(lines, line)) = n + 1
        /\ Append(lines, line)[n + 1] = line
    BY <1>2, <1>5, AppendProperties
  <2> QED
    BY <1>1, <2>1, Zenon
<1>7. LinesFit(n + 1)
  <2> HIDE DEF n
  <2>1. \A k \in 1..(n + 1): k \in 1..n \/ k = n + 1
    BY <1>2, <1>3
  <2> QED
    BY <1>1, <1>2, <2>1, Zenon DEF LinesFit
<1> QED
  BY <1>1, <1>4, <1>6, <1>7 DEF line, count

(* emplace() adds the machine of the next row unless it is there.          *)
LEMMA Emplaced ==
    ASSUME NEW n \in Nat, n >= 1, TableOf(n), file' = file,
           machines' = emplace(Means(Promised!Line(file, n + 1)))
    PROVE  TableOf(n + 1)'
<1> DEFINE row == Means(Promised!Line(file, n + 1))
           b == Article(n + 1)
           D == DOMAIN machines
<1>1. machines' = [a \in D \cup {b} |-> IF a \in D THEN machines[a] ELSE row]
  BY Zenon DEF emplace, Article
<1>2. D = {Article(k): k \in 2..n}
  BY DEF TableOf
<1> HIDE DEF row
<1>3. DOMAIN machines' = D \cup {b} /\ machines' = [a \in DOMAIN machines' |-> machines'[a]]
  <2> HIDE DEF D, b
  <2> QED
    BY <1>1
<1>4. \A k \in 2..(n + 1): k \in 2..n \/ k = n + 1
  OBVIOUS
<1>5. \A k \in 2..n: k \in 2..(n + 1)
  OBVIOUS
<1>6. n + 1 \in 2..(n + 1)
  OBVIOUS
<1>7. D \cup {b} = {Article(k): k \in 2..(n + 1)}
  BY <1>2, <1>4, <1>5, <1>6
<1>8. ASSUME NEW k \in 2..(n + 1), IsFirstRow(k, n + 1)
      PROVE  machines'[Article(k)] = Means(Promised!Line(file, k))
  <2>1. CASE k \in 2..n
    <3>1. IsFirstRow(k, n)
      BY <1>8, <2>1 DEF IsFirstRow
    <3>2. machines[Article(k)] = Means(Promised!Line(file, k))
      BY <2>1, <3>1 DEF TableOf
    <3>3. Article(k) \in D
      BY <1>2, <2>1
    <3> HIDE DEF D, b
    <3>4. machines'[Article(k)] = machines[Article(k)]
      BY <1>1, <3>3
    <3> QED
      BY <3>2, <3>4
  <2>2. CASE k = n + 1
    <3>1. (n + 1) - 1 = n
      OBVIOUS
    <3>2. \A j \in 2..n: Article(j) # b
      BY <1>8, <2>2, <3>1 DEF IsFirstRow
    <3>3. b \notin D
      BY <1>2, <3>2
    <3> HIDE DEF D, b
    <3>4. machines'[b] = row
      BY <1>1, <3>3
    <3> QED
      BY <2>2, <3>4 DEF b, row
  <2> QED
    BY <1>4, <2>1, <2>2
<1>9. \A k: Article(k)' = Article(k) /\ Promised!Line(file, k)' = Promised!Line(file, k)
  BY DEF Article
<1>10. DOMAIN machines' = {Article(k): k \in 2..(n + 1)}
  BY <1>3, <1>7
<1> HIDE DEF D, b
<1>11. DOMAIN machines' = {Article(k)': k \in 2..(n + 1)}
  BY <1>9, <1>10
<1>12. ASSUME NEW k \in 2..(n + 1), IsFirstRow(k, n + 1)'
       PROVE  machines'[Article(k)'] = Means(Promised!Line(file', k))
  <2>1. IsFirstRow(k, n + 1)
    BY <1>9, <1>12 DEF IsFirstRow
  <2> QED
    BY <1>8, <1>9, <2>1
<1> QED
  BY <1>3, <1>11, <1>12 DEF TableOf

(* Each step is one of the reader's.                                       *)
LEMMA TableReads ==
    ASSUME [TableNext]_<<vars, tableVars>>
    PROVE  [Next]_vars
<1>1. CASE CallNextLine
  BY <1>1 DEF CallNextLine, Next
<1>2. CASE SkipFirst \/ ReadRow \/ LineTooLong
  BY <1>2 DEF SkipFirst, ReadRow, LineTooLong, Next, ClientStep
<1>3. CASE Leave
  BY <1>3 DEF Leave, Next
<1>4. CASE Elsewhere
  BY <1>4 DEF Elsewhere, Next, ClientStep
<1>5. CASE UNCHANGED <<vars, tableVars>>
  BY <1>5
<1> QED
  BY <1>1, <1>2, <1>3, <1>4, <1>5 DEF TableNext

LEMMA ReadsWhileRunningStep ==
    ASSUME ReadsWhileRunning, [TableNext]_<<vars, tableVars>>
    PROVE  ReadsWhileRunning'
<1>1. CASE CallNextLine
  BY <1>1 DEF CallNextLine, NextLine, ReadsWhileRunning
<1>2. CASE SkipFirst \/ ReadRow \/ LineTooLong
  BY <1>2 DEF SkipFirst, ReadRow, LineTooLong, Scan, ReadsWhileRunning
<1>3. CASE Leave
  BY <1>3 DEF Leave, Destroy, ReadsWhileRunning
<1>4. CASE Elsewhere
  <2>1. process' = process
    BY <1>4 DEF Elsewhere, tableVars
  <2> QED
    BY <1>4, <2>1
       DEF Elsewhere, ReadsWhileRunning, Construct, FinishRead, CopyBlock, StartRead, Terminate,
           NotifyWorker, Join, WorkerStep, Lock, Check, Read, Notified, ClientSpuriouslyWoken,
           WorkerSpuriouslyWoken
<1>5. CASE UNCHANGED <<vars, tableVars>>
  BY <1>5 DEF vars, tableVars, ReadsWhileRunning
<1> QED
  BY <1>1, <1>2, <1>3, <1>4, <1>5 DEF TableNext

(* and every step of load_machines() keeps it.                             *)
LEMMA TableStep ==
    ASSUME TextFiles, SizeMax \in Nat, file \in Files, Inductive, ReadsWhileRunning,
           TableInductive, [TableNext]_<<vars, tableVars>>
    PROVE  TableInductive'
<1> DEFINE n == Len(lines)
           count == Promised!LineCount(file)
<1>1. /\ file \in Seq(Int) /\ lines \in Seq(Seq(Int)) /\ n \in 0..count /\ LinesFit(n)
      /\ process \in {"running", "loaded"} => RowsFine(n) /\ TableOf(n)
      /\ process = "loaded" => n = count
      /\ process \notin {"running", "loaded"} => ~RowsFine(count) \/ ~LinesFit(count)
  BY DEF TableInductive
<1>2. count \in Nat
  BY <1>1, LinesAreText
<1>3. ASSUME file' = file
      PROVE  /\ \A k: RowsFine(k)' = RowsFine(k) /\ LinesFit(k)' = LinesFit(k)
             /\ count' = count
             /\ machines' = machines => \A k: TableOf(k)' = TableOf(k)
  BY <1>3 DEF RowsFine, LinesFit, TableOf, Article, IsFirstRow
<1>4. ASSUME file' = file, UNCHANGED <<lines, machines, process>> PROVE TableInductive'
  BY <1>1, <1>3, <1>4 DEF TableInductive
<1>r. TypeOK /\ ReadsInOrder /\ FileInBlocks /\ BlocksAreFull /\ LinesSoFar
  BY DEF Inductive
<1>s. Scan => process = "running"
  BY DEF Scan, ReadsWhileRunning
<1>5. ASSUME SkipFirst PROVE TableInductive'
  <2>1. Promised!Deliver /\ lines = <<>> /\ machines' = machines /\ process' = process
    <3>1. Scan /\ ~TooLong /\ lines = <<>> /\ machines' = machines /\ process' = process
      BY <1>5 DEF SkipFirst, tableVars
    <3> QED
      BY <1>r, <3>1, LineIsDelivered
  <2>2. /\ file' = file /\ n + 1 \in 1..count /\ lines' \in Seq(Seq(Int)) /\ Len(lines') = n + 1
        /\ LinesFit(n + 1)
    BY <2>1, OneMoreLine
  <2>3. n = 0
    BY <2>1, EmptySeq
  <2>4. 2..1 = {} /\ 2..0 = {}
    OBVIOUS
  <2>5. RowsFine(1) /\ (TableOf(0) => TableOf(1))
    BY <2>4 DEF RowsFine, TableOf
  <2>6. process = "loaded" => FALSE
    <3> HIDE DEF n, count
    <3> QED
      BY <1>1, <1>2, <2>2
  <2> HIDE DEF count, n
  <2>7. Len(lines') = 1 /\ 1 \in 0..count /\ LinesFit(1)
    BY <1>2, <2>2, <2>3
  <2>8. process = "running" => TableOf(1)
    BY <1>1, <2>3, <2>5
  <2>9. /\ file' \in Seq(Int) /\ lines' \in Seq(Seq(Int)) /\ Len(lines') \in 0..count'
        /\ LinesFit(1)' /\ RowsFine(1)' /\ (process = "running" => TableOf(1)')
        /\ (process \notin {"running", "loaded"} => ~RowsFine(count)' \/ ~LinesFit(count)')
    BY <1>1, <1>3, <2>1, <2>2, <2>5, <2>7, <2>8
  <2> QED
    BY <1>3, <2>1, <2>2, <2>6, <2>7, <2>9 DEF TableInductive, count
<1>6. ASSUME ReadRow PROVE TableInductive'
  <2> DEFINE line == Promised!Line(file, n + 1)
             row == read_row(line)
  <2>1. /\ process = "running" /\ Promised!Deliver /\ lines # <<>>
        /\ LET r == read_row(lines'[Len(lines')])
           IN  IF Failed(r) THEN process' = r.error /\ UNCHANGED machines
               ELSE machines' = emplace(r) /\ UNCHANGED process
    <3>1. /\ Scan /\ ~TooLong /\ lines # <<>>
          /\ LET r == read_row(lines'[Len(lines')])
             IN  IF Failed(r) THEN process' = r.error /\ UNCHANGED machines
                 ELSE machines' = emplace(r) /\ UNCHANGED process
      BY <1>6, Zenon DEF ReadRow
    <3>2. Promised!Deliver
      BY <1>r, <3>1, LineIsDelivered
    <3> QED
      BY <1>s, <3>1, <3>2, Zenon
  <2>2. /\ file' = file /\ n + 1 \in 1..count /\ lines' \in Seq(Seq(Int)) /\ Len(lines') = n + 1
        /\ lines'[Len(lines')] = line /\ LinesFit(n + 1)
    BY <2>1, OneMoreLine
  <2>3. IF Failed(row) THEN process' = row.error /\ machines' = machines
        ELSE machines' = emplace(row) /\ process' = process
    BY <2>1, <2>2, Zenon
  <2>4. n >= 1 /\ n \in Nat
    <3>1. n # 0 /\ n \in Nat
      BY <1>1, <2>1, EmptySeq, LenProperties
    <3> HIDE DEF n
    <3> QED
      BY <3>1
  <2>5. line \in Seq(Int)
    BY <1>1, <2>2, LinesAreText
  <2> HIDE DEF line, row
  <2>6. IF IsRow(line) THEN row = Means(line) /\ ~Failed(row)
        ELSE Failed(row) /\ row.error \notin {"running", "loaded"}
    BY <2>5, RowIsRead DEF row
  <2> HIDE DEF count, n
  <2>7. PICK m \in Nat: m = n
    BY <2>4
  <2>8. /\ m >= 1 /\ m + 1 \in 2..count /\ m + 1 \in 0..count
        /\ \A k \in 2..(m + 1): k \in 2..m \/ k = m + 1
    BY <1>2, <2>2, <2>4, <2>7
  <2>9. Len(lines') = m + 1 /\ line = Promised!Line(file, m + 1) /\ LinesFit(m + 1)
    BY <2>2, <2>7 DEF line
  <2>10. LinesFit(m + 1)' /\ count' = count
    BY <1>3, <2>2, <2>9
  <2>11. /\ file' \in Seq(Int) /\ Len(lines') \in 0..Promised!LineCount(file)'
         /\ LinesFit(Len(lines))'
    <3>1. count' = Promised!LineCount(file)' /\ LinesFit(Len(lines))' = LinesFit(m + 1)'
      BY <2>9 DEF count, LinesFit
    <3> QED
      BY <1>1, <2>2, <2>8, <2>9, <2>10, <3>1
  <2>12. CASE IsRow(line)
    <3>1. machines' = emplace(Means(Promised!Line(file, m + 1))) /\ process' = "running"
      BY <2>1, <2>3, <2>6, <2>9, <2>12
    <3>2. TableOf(m) /\ RowsFine(m)
      BY <1>1, <2>1, <2>7
    <3>3. TableOf(m + 1)'
      BY <2>2, <2>8, <3>1, <3>2, Emplaced
    <3>4. RowsFine(m + 1)
      BY <2>8, <2>9, <2>12, <3>2 DEF RowsFine
    <3>5. RowsFine(m + 1)'
      BY <1>3, <2>2, <3>4
    <3>6. RowsFine(Len(lines))' /\ TableOf(Len(lines))'
      BY <2>9, <3>3, <3>5 DEF RowsFine, TableOf
    <3> QED
      BY <2>2, <2>11, <3>1, <3>6 DEF TableInductive
  <2>13. CASE ~IsRow(line)
    <3>1. process' \notin {"running", "loaded"}
      BY <2>3, <2>6, <2>13
    <3>2. ~RowsFine(count)
      BY <2>8, <2>9, <2>13 DEF RowsFine
    <3>3. ~RowsFine(Promised!LineCount(file))'
      BY <1>3, <2>2, <3>2 DEF count, RowsFine
    <3> QED
      BY <2>2, <2>11, <3>1, <3>3 DEF TableInductive
  <2> QED
    BY <2>12, <2>13
<1>7. ASSUME CallNextLine PROVE TableInductive'
  <2>1. NextLine /\ process = "running" /\ machines' = machines
        /\ process' = IF outcome' = "end" THEN "loaded" ELSE process
    BY <1>7 DEF CallNextLine
  <2>2. CASE data_begin = data_end
    <3>1. Promised!End
      BY <1>r, <2>1, <2>2, EndIsReached
    <3>2. process' = "loaded" /\ n = count /\ file' = file /\ lines' = lines
      BY <2>1, <3>1 DEF Promised!End
    <3> QED
      BY <1>1, <1>3, <2>1, <3>2 DEF TableInductive
  <2>3. CASE data_begin # data_end
    <3>1. process' = process /\ file' = file /\ lines' = lines
      BY <2>1, <2>3 DEF NextLine, source
    <3> QED
      BY <1>4, <2>1, <3>1
  <2> QED
    BY <2>2, <2>3
<1>8. ASSUME LineTooLong PROVE TableInductive'
  <2>1. /\ process' = "line_length_limit_exceeded" /\ machines' = machines
        /\ n < count /\ Len(Promised!RawLine(file, n + 1)) >= BlockLen /\ file' = file /\ lines' = lines
    <3>1. Scan /\ TooLong /\ process' = "line_length_limit_exceeded" /\ machines' = machines
      BY <1>8 DEF LineTooLong
    <3>2. Promised!Refuse
      BY <1>r, <3>1, LineIsRefused
    <3> QED
      BY <3>1, <3>2 DEF Promised!Refuse
  <2>2. n + 1 \in 1..count
    <3> HIDE DEF n, count
    <3> QED
      BY <1>1, <1>2, <2>1
  <2>3. ~(Len(Promised!RawLine(file, n + 1)) < BlockLen)
    <3> DEFINE m == Len(Promised!RawLine(file, n + 1))
    <3>1. m \in Nat
      BY <1>1, <2>2, LinesAreText
    <3>2. m >= BlockLen
      BY <2>1
    <3> HIDE DEF m
    <3>3. ~(m < BlockLen)
      BY <3>1, <3>2, BlockLenAssumption
    <3> QED
      BY <3>3 DEF m
  <2>4. ~LinesFit(count)
    BY <2>2, <2>3 DEF LinesFit
  <2>5. ~LinesFit(count)'
    BY <1>3, <2>1, <2>4
  <2> QED
    BY <1>1, <1>3, <2>1, <2>5 DEF TableInductive
<1>9. CASE Leave \/ Elsewhere \/ UNCHANGED <<vars, tableVars>>
  <2>1. UNCHANGED <<file, lines, outcome>>
    BY <1>9
       DEF Leave, Elsewhere, Destroy, Construct, FinishRead, CopyBlock, StartRead, Terminate,
           NotifyWorker, Join, WorkerStep, Lock, Check, Read, ClientSpuriouslyWoken,
           WorkerSpuriouslyWoken, vars, source, results
  <2>2. UNCHANGED <<machines, process>>
    BY <1>9 DEF Leave, Elsewhere, tableVars
  <2> QED
    BY <1>4, <2>1, <2>2
<1> QED
  BY <1>5, <1>6, <1>7, <1>8, <1>9 DEF TableNext

(* It says what the table is.                                              *)
LEMMA TableInvariant ==
    ASSUME TableInductive
    PROVE  TableIsTheFiles
<1> DEFINE n == Promised!LineCount(file)
           L(k) == Promised!Line(file, k)
           rows == {L(k): k \in 2..n}
           Art(line) == Means(line).articleNumber
           IsFirst(a, k) == Art(L(k)) = a /\ \A j \in 2..(k - 1): Art(L(j)) # a
           first(a) == CHOOSE k \in 2..n: IsFirst(a, k)
<1>1. n \in Nat
  BY LinesAreText DEF TableInductive
<1>2. (\A line \in rows: IsRow(line)) <=> RowsFine(n)
  BY DEF RowsFine
<1>3. process = "loaded" => RowsFine(n) /\ LinesFit(n) /\ TableOf(n)
  BY DEF TableInductive
<1>4. process \notin {"running", "loaded"} => ~RowsFine(n) \/ ~LinesFit(n)
  BY DEF TableInductive
<1>5. ASSUME TableOf(n)
      PROVE  machines = [a \in {Art(line): line \in rows} |-> Means(L(first(a)))]
  <2>1. {Art(line): line \in rows} = {Article(k): k \in 2..n}
    BY DEF Article
  <2>2. ASSUME NEW a \in {Article(k): k \in 2..n} PROVE machines[a] = Means(L(first(a)))
    <3> DEFINE T == {k \in 2..n: Art(L(k)) = a}
    <3>1. T # {}
      BY <2>2 DEF Article
    <3>2. T \in SUBSET Nat
      BY <1>1
    <3> HIDE DEF T
    <3>3. PICK k \in T: \A j \in T: k <= j
      BY <3>1, <3>2, LeastNumber
    <3>4. k \in 2..n /\ Art(L(k)) = a
      BY DEF T
    <3>5. ASSUME NEW j \in 2..(k - 1) PROVE Art(L(j)) # a
      <4>1. j \in 2..n /\ ~(k <= j)
        BY <1>1, <3>4
      <4> QED
        BY <3>3, <4>1 DEF T
    <3>6. IsFirst(a, k)
      BY <3>4, <3>5
    <3> HIDE DEF IsFirst
    <3>7. first(a) \in 2..n /\ IsFirst(a, first(a))
      BY <3>4, <3>6, Zenon
    <3> DEFINE f == first(a)
    <3> HIDE DEF first
    <3>8. Article(f) = a /\ IsFirstRow(f, n)
      BY <3>7 DEF IsFirst, Article, IsFirstRow
    <3>9. machines[Article(f)] = Means(L(f))
      BY <1>5, <3>7, <3>8 DEF TableOf
    <3> QED
      BY <3>8, <3>9
  <2>3. machines = [a \in {Article(k): k \in 2..n} |-> machines[a]]
    BY <1>5 DEF TableOf
  <2> HIDE DEF first, rows
  <2> QED
    BY <2>1, <2>2, <2>3
<1>6. (\A k \in 1..n: Len(Promised!RawLine(file, k)) < BlockLen) <=> LinesFit(n)
  BY DEF LinesFit
<1> HIDE DEF n, rows, first
<1>7. process # "running" =>
          /\ process = "loaded" <=> /\ \A line \in rows: IsRow(line)
                                    /\ \A k \in 1..n: Len(Promised!RawLine(file, k)) < BlockLen
          /\ process = "loaded" =>
                 machines = [a \in {Art(line): line \in rows} |-> Means(L(first(a)))]
  BY <1>2, <1>3, <1>4, <1>5, <1>6
<1> QED
  BY <1>7, Zenon DEF TableIsTheFiles, n, rows, first

(* load_machines(): the table that is loaded is that of the file, whatever *)
(* the file, the length of a block and the width of a number, and however  *)
(* the worker keeps up with the rows: a machine for each article number,   *)
(* as the first row that has it says, and a file with a row that is none   *)
(* is never loaded.  Files with a null inside are left out as above.       *)
THEOREM TableIsTheFilesCorrect ==
    ASSUME TextFiles
    PROVE  TableSpec => []TableIsTheFiles
<1> DEFINE I == file \in Files /\ Inductive /\ ReadsWhileRunning /\ TableInductive
<1>1. TableInit => I
  <2> SUFFICES ASSUME TableInit PROVE I
    OBVIOUS
  <2>1. Init /\ process = "running"
    BY DEF TableInit
  <2>2. file \in Files
    BY <2>1 DEF Init
  <2> QED
    BY <2>1, <2>2, ReaderInitially, TableInitially DEF ReadsWhileRunning
<1>2. I /\ [TableNext]_<<vars, tableVars>> => I'
  <2> SUFFICES ASSUME I, [TableNext]_<<vars, tableVars>> PROVE I'
    OBVIOUS
  <2>1. [Next]_vars
    BY TableReads
  <2> QED
    BY <2>1, SizeMaxAssumption, FileStays, ReaderStep, ReadsWhileRunningStep, TableStep
<1>3. I => TableIsTheFiles
  BY TableInvariant
<1> HIDE DEF I
<1> QED
  BY <1>1, <1>2, <1>3, PTL DEF TableSpec
=============================================================================
