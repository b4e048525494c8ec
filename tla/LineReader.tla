------------------------------ MODULE LineReader ------------------------------
(***************************************************************************)
(* LineReader and the AsynchronousReader below it                          *)
(* (src/include/io/csv.hpp), through which load_machines() reads the table *)
(* of machines.  A buffer of three blocks: next_line() looks for lines in  *)
(* the first two, while a worker thread fills the third from the file.     *)
(*                                                                         *)
(* The mutex `lock` is the worker's at the labels of Holding; the client   *)
(* never keeps it longer than a step.  A thread at "waits" is in the wait  *)
(* set of its condition variable and leaves it by a notification, or by    *)
(* itself; it then needs the mutex.                                        *)
(***************************************************************************)
EXTENDS Integers, Sequences, FiniteSets

CONSTANTS
    BlockLen,  \* block_len
    Files      \* the files there may be, as sequences of characters

ASSUME BlockLenAssumption == BlockLen \in Nat /\ BlockLen >= 2
ASSUME FilesAssumption == \A f \in Files: f \in Seq(Int)

VARIABLES
    file, offset,              \* byte_source: a file and how far it was read
    buffer,                    \* from 0, as in the code
    data_begin, data_end,
    desired_byte_count, read_byte_count, termination_requested,
    client, worker,            \* where the threads are
    lines, outcome             \* what next_line() has returned

source == <<file, offset>>
reader == <<desired_byte_count, read_byte_count, termination_requested>>
data == <<buffer, data_begin, data_end>>
results == <<lines, outcome>>
vars == <<source, reader, data, client, worker, results>>

NL == 10
CR == 13
BOM == <<239, 187, 191>>
Uninitialized == -1

Places == 0..(3 * BlockLen - 1)
Holding == {"checks", "reads"}
LockIsFree == worker \notin Holding

\* What read() gives of the rest of the file when it is asked for n bytes.
Chunk(n) == SubSeq(file, offset + 1, IF offset + n < Len(file) THEN offset + n ELSE Len(file))

\* The buffer with a sequence copied to a place.
Stored(b, place, s) ==
    [i \in Places |-> IF i \in place..(place + Len(s) - 1) THEN s[i - place + 1] ELSE b[i]]

\* memcpy() of a block.
Moved(b, from, to) ==
    [i \in Places |-> IF i \in to..(to + BlockLen - 1) THEN b[i - to + from] ELSE b[i]]

Notified(pc) == IF pc = "waits" THEN "woken" ELSE pc

-----------------------------------------------------------------------------
(* The client's thread.                                                    *)

(* LineReader::init(): the first two blocks are read here; the worker only *)
(* starts if the file may go on.                                           *)
Construct ==
    /\ client = "new"
    /\ LET read == Chunk(2 * BlockLen)
       IN  /\ buffer' = Stored(buffer, 0, read)
           /\ offset' = Len(read)
           /\ data_end' = Len(read)
           /\ data_begin' = IF Len(read) >= 3 /\ SubSeq(read, 1, 3) = BOM THEN 3 ELSE 0
           /\ IF Len(read) = 2 * BlockLen
              THEN client' = "first_read" /\ worker' = "starts"
              ELSE client' = "idle" /\ UNCHANGED worker
    /\ UNCHANGED <<file, reader, results>>

(* next_line() up to finish_read(): null at the end, otherwise the second  *)
(* block is shifted to the first once the first is used up.                *)
NextLine ==
    /\ client = "idle" /\ outcome = "lines"
    /\ IF data_begin = data_end
       THEN outcome' = "end" /\ UNCHANGED <<data, client>>
       ELSE /\ UNCHANGED outcome
            /\ IF data_begin >= BlockLen
               THEN /\ buffer' = Moved(buffer, BlockLen, 0)
                    /\ data_begin' = data_begin - BlockLen
                    /\ data_end' = data_end - BlockLen
                    /\ client' = IF worker = "none" THEN "scans" ELSE "finish_read"
               ELSE client' = "scans" /\ UNCHANGED data
    /\ UNCHANGED <<source, reader, worker, lines>>

\* Mutant: the next read is requested before the block of this one is copied.
FinishReadRequestsNext ==
    /\ client \in {"finish_read", "woken"} /\ LockIsFree
    /\ IF read_byte_count = -1
       THEN client' = "waits" /\ UNCHANGED <<data_end, reader, worker>>
       ELSE /\ client' = "copies"
            /\ data_end' = data_end + read_byte_count
            /\ desired_byte_count' = BlockLen /\ read_byte_count' = -1
            /\ worker' = Notified(worker)
            /\ UNCHANGED termination_requested
    /\ UNCHANGED <<source, buffer, data_begin, results>>

(* finish_read(): the mutex is taken, and given back to wait.              *)
FinishRead ==
    /\ client \in {"finish_read", "woken"} /\ LockIsFree
    /\ IF read_byte_count = -1
       THEN client' = "waits" /\ UNCHANGED data_end
       ELSE client' = "copies" /\ data_end' = data_end + read_byte_count
    /\ UNCHANGED <<source, reader, buffer, data_begin, worker, results>>

CopyBlock ==
    /\ client = "copies"
    /\ buffer' = Moved(buffer, 2 * BlockLen, BlockLen)
    /\ client' = "start_read"
    /\ UNCHANGED <<source, reader, data_begin, data_end, worker, results>>

(* start_read(), for the third block.                                      *)
StartRead ==
    /\ client \in {"first_read", "start_read"} /\ LockIsFree
    /\ desired_byte_count' = BlockLen
    /\ read_byte_count' = -1
    /\ worker' = Notified(worker)
    /\ client' = IF client = "first_read" THEN "idle" ELSE "scans"
    /\ UNCHANGED <<source, termination_requested, data, results>>

LineEnd ==
    LET newlines == {i \in data_begin..(data_end - 1): buffer[i] = NL}
    IN  IF newlines = {} THEN data_end ELSE CHOOSE i \in newlines: \A j \in newlines: i <= j

(* The characters from a place to the first null.                          *)
CString(b, place) ==
    LET null == CHOOSE n \in place..(3 * BlockLen): /\ n \in Places => b[n] = 0
                                                    /\ \A i \in place..(n - 1): b[i] # 0
    IN  [i \in 1..(null - place) |-> b[place + i - 1]]

\* Null for the newline and for a carriage return before it.
Terminated(b, line_end) ==
    IF line_end # data_begin /\ b[line_end - 1] = CR
    THEN [b EXCEPT ![line_end] = 0, ![line_end - 1] = 0]
    ELSE [b EXCEPT ![line_end] = 0]

\* Mutant: a line that fills a block with its newline is refused as well.
TooLongEarly == LineEnd - data_begin + 1 >= BlockLen

\* Mutant: no line is refused.
TooLongNever == FALSE

TooLong == LineEnd - data_begin + 1 > BlockLen

(* The rest of next_line(): it throws, or it returns a line.               *)
Scan ==
    /\ client = "scans"
    /\ client' = "idle"
    /\ IF TooLong
       THEN outcome' = "too_long" /\ UNCHANGED <<data, lines>>
       ELSE /\ data_end' = IF LineEnd = data_end THEN data_end + 1 ELSE data_end
            /\ buffer' = Terminated(buffer, LineEnd)
            /\ lines' = Append(lines, CString(buffer', data_begin))
            /\ data_begin' = LineEnd + 1
            /\ UNCHANGED outcome
    /\ UNCHANGED <<source, reader, worker>>

(* The destructor: after the last line or an exception, or before.         *)
Destroy ==
    /\ client = "idle"
    /\ IF worker = "none" THEN client' = "destroyed" ELSE client' = "terminate"
    /\ UNCHANGED <<source, reader, data, worker, results>>

Terminate ==
    /\ client = "terminate" /\ LockIsFree
    /\ termination_requested' = TRUE
    /\ client' = "notify"
    /\ UNCHANGED <<source, desired_byte_count, read_byte_count, data, worker, results>>

NotifyWorker ==
    /\ client = "notify"
    /\ worker' = Notified(worker)
    /\ client' = "joins"
    /\ UNCHANGED <<source, reader, data, results>>

Join ==
    /\ client = "joins" /\ worker = "ended"
    /\ client' = "destroyed"
    /\ UNCHANGED <<source, reader, data, worker, results>>

ClientSpuriouslyWoken ==
    /\ client = "waits"
    /\ client' = "woken"
    /\ UNCHANGED <<source, reader, data, worker, results>>

-----------------------------------------------------------------------------
(* The worker's thread.                                                    *)

Lock ==
    /\ worker \in {"starts", "woken"}
    /\ worker' = "checks"
    /\ UNCHANGED <<source, reader, data, client, results>>

(* The predicate of the wait, then the test of termination_requested.      *)
Check ==
    /\ worker = "checks"
    /\ worker' = IF termination_requested THEN "ended"
                 ELSE IF desired_byte_count = -1 THEN "waits" ELSE "reads"
    /\ UNCHANGED <<source, reader, data, client, results>>

\* Mutant: the worker takes a short read for the end of the file.
ReadEndsWhenShort ==
    /\ worker = "reads"
    /\ LET read == Chunk(desired_byte_count)
       IN  /\ buffer' = Stored(buffer, 2 * BlockLen, read)
           /\ offset' = offset + Len(read)
           /\ read_byte_count' = Len(read)
           /\ worker' = IF Len(read) < desired_byte_count THEN "ended" ELSE "checks"
    /\ desired_byte_count' = -1
    /\ client' = Notified(client)
    /\ UNCHANGED <<file, termination_requested, data_begin, data_end, results>>

\* Mutant: the worker that ends at the end of the file tells nobody.
ReadEndsSilently ==
    /\ worker = "reads"
    /\ LET read == Chunk(desired_byte_count)
       IN  /\ buffer' = Stored(buffer, 2 * BlockLen, read)
           /\ offset' = offset + Len(read)
           /\ read_byte_count' = Len(read)
           /\ worker' = IF read = <<>> THEN "ended" ELSE "checks"
           /\ client' = IF read = <<>> THEN client ELSE Notified(client)
    /\ desired_byte_count' = -1
    /\ UNCHANGED <<file, termination_requested, data_begin, data_end, results>>

(* The read, still under the mutex; after the end of the file the thread   *)
(* ends.                                                                   *)
Read ==
    /\ worker = "reads"
    /\ LET read == Chunk(desired_byte_count)
       IN  /\ buffer' = Stored(buffer, 2 * BlockLen, read)
           /\ offset' = offset + Len(read)
           /\ read_byte_count' = Len(read)
           /\ worker' = IF read = <<>> THEN "ended" ELSE "checks"
    /\ desired_byte_count' = -1
    /\ client' = Notified(client)
    /\ UNCHANGED <<file, termination_requested, data_begin, data_end, results>>

WorkerSpuriouslyWoken ==
    /\ worker = "waits"
    /\ worker' = "woken"
    /\ UNCHANGED <<source, reader, data, client, results>>

-----------------------------------------------------------------------------
Init ==
    /\ file \in Files /\ offset = 0
    /\ buffer = [i \in Places |-> Uninitialized]
    /\ data_begin = 0 /\ data_end = 0
    /\ desired_byte_count = -1 /\ read_byte_count = -1 /\ termination_requested = FALSE
    /\ client = "new" /\ worker = "none"
    /\ lines = <<>> /\ outcome = "lines"

ClientStep ==
    Construct \/ FinishRead \/ CopyBlock \/ StartRead \/ Scan
        \/ Terminate \/ NotifyWorker \/ Join

WorkerStep == Lock \/ Check \/ Read

Next ==
    \/ ClientStep \/ NextLine \/ Destroy \/ WorkerStep
    \/ ClientSpuriouslyWoken \/ WorkerSpuriouslyWoken

(* Both threads run, and a client that asks for the mutex gets it although *)
(* the worker may be woken by nothing any number of times; the client need *)
(* not call next_line() again.                                             *)
Fairness == SF_vars(ClientStep) /\ WF_vars(WorkerStep)

Spec == Init /\ [][Next]_vars /\ Fairness

-----------------------------------------------------------------------------
TypeOK ==
    /\ file \in Seq(Int) /\ offset \in 0..Len(file)
    /\ buffer \in [Places -> Int]
    /\ data_begin \in Nat /\ data_end \in Nat
    /\ desired_byte_count \in {-1, BlockLen}
    /\ read_byte_count \in -1..BlockLen
    /\ termination_requested \in BOOLEAN
    /\ client \in {"new", "idle", "first_read", "finish_read", "waits", "woken", "copies",
                   "start_read", "scans", "terminate", "notify", "joins", "destroyed"}
    /\ worker \in {"none", "starts", "checks", "waits", "woken", "reads", "ended"}
    /\ lines \in Seq(Seq(Int)) /\ outcome \in {"lines", "end", "too_long"}

(* The two assertions of next_line() hold where they stand, before the     *)
(* shift (csv.hpp:446-447), after any lines read before; and the null that *)
(* ends a line is stored inside the first two blocks: the third is the     *)
(* worker's.                                                               *)
StaysInBlocks ==
    /\ client = "idle" /\ outcome = "lines" /\ data_begin # data_end =>
           data_begin < data_end /\ data_end <= 2 * BlockLen
    /\ client = "scans" /\ ~TooLong => LineEnd < 2 * BlockLen

(* The worker never fills the third block while next_line() copies it, nor *)
(* after the buffer is gone.                                               *)
NoRace == worker = "reads" => client \notin {"copies", "start_read", "destroyed"}

(* Whoever waits for a read waits for one that was requested, from a       *)
(* worker that has not ended: after the end of the file there is no other. *)
ReadIsComing ==
    client \in {"finish_read", "waits", "woken"} =>
        \/ read_byte_count # -1
        \/ desired_byte_count # -1 /\ worker \notin {"none", "ended"}

-----------------------------------------------------------------------------
(* What the proofs need: who may be where while a read is requested or     *)
(* answered,                                                               *)
Handshake ==
    /\ client = "new" => worker = "none"
    /\ worker = "none" => client \in {"new", "idle", "scans", "destroyed"}
    /\ client \in {"new", "first_read"} =>
           worker # "ended" /\ desired_byte_count = -1 /\ read_byte_count = -1
    /\ worker = "reads" => desired_byte_count # -1
    /\ desired_byte_count # -1 => read_byte_count = -1
    /\ client \in {"copies", "start_read"} => read_byte_count # -1
    /\ termination_requested => client \in {"notify", "joins", "destroyed"}
    /\ worker = "ended" /\ ~termination_requested => read_byte_count \in {-1, 0}
    /\ client = "destroyed" => worker \in {"none", "ended"}

(* where the unread data is,                                               *)
DataInBlocks ==
    /\ client \in {"idle", "first_read"} =>
           data_begin <= data_end /\ (data_end <= 2 * BlockLen \/ data_begin = data_end)
    /\ client \in {"finish_read", "waits", "woken", "copies", "start_read", "scans"} =>
           data_begin < BlockLen /\ data_begin < data_end /\ data_end <= 2 * BlockLen
    /\ client \in {"finish_read", "waits", "woken"} => data_end <= BlockLen

(* and that a worker which ended without an answer leaves less than a      *)
(* block to read, so that no other read is needed.                         *)
Drained ==
    worker = "ended" =>
        /\ client \in {"copies", "start_read"} => data_end <= BlockLen
        /\ client \in {"idle", "scans"} /\ read_byte_count = -1 =>
               data_end <= BlockLen \/ data_begin = data_end

Requested ==
    client \in {"idle", "scans"} /\ worker \notin {"none", "ended"} =>
        read_byte_count # -1 \/ desired_byte_count # -1

ReadsInOrder == Handshake /\ DataInBlocks /\ Drained /\ Requested /\ ReadIsComing

-----------------------------------------------------------------------------
(* The lines that next_line() returns are those of the file, in their      *)
(* order, whatever the blocks cut through, and it ends when they end.      *)
Promised == INSTANCE LineSource WITH Limit <- BlockLen
LinesAreTheFiles == Promised!Spec

(* Why they are: between the construction and the destruction              *)
Alive == client \notin {"new", "terminate", "notify", "joins", "destroyed"}

\* the third block has characters that are not yet among the data,
Pending == IF read_byte_count # -1 /\ client \notin {"copies", "start_read"}
           THEN read_byte_count ELSE 0
\* the data go on from a place in the file,
Begin == offset - Pending - (data_end - data_begin)
\* and the second block may still have to be copied from the third.
Cell(i) == IF client = "copies" /\ i >= BlockLen THEN buffer[i + BlockLen] ELSE buffer[i]

FileInBlocks ==
    /\ client = "new" => offset = 0 /\ lines = <<>>
    /\ Alive =>
           /\ \A i \in data_begin..(data_end - 1): Cell(i) = file[Begin + i - data_begin + 1]
           /\ \A i \in 1..Pending:
                  buffer[2 * BlockLen + i - 1] = file[offset - Pending + i]

(* The blocks are full unless the file has ended.                          *)
BlocksAreFull ==
    /\ Alive /\ worker = "none" => offset = Len(file) /\ read_byte_count = -1
    /\ read_byte_count \in 0..(BlockLen - 1) => offset = Len(file)
    /\ Alive => \/ offset - Pending = Len(file)
                \/ data_end >= BlockLen /\ client \in {"finish_read", "waits", "woken"}
                \/ data_begin < data_end /\ data_end >= 2 * BlockLen

(* What was returned are the lines in front of the data.                   *)
MarkLength == IF Len(file) >= 3 /\ SubSeq(file, 1, 3) = BOM THEN 3 ELSE 0

LinesSoFar ==
    LET ends == Promised!Ends(Promised!Content(file))
    IN  Alive =>
            /\ Begin >= MarkLength
            /\ Begin = MarkLength \/ Begin - MarkLength \in ends
            /\ Len(lines) = Cardinality({i \in ends: i <= Begin - MarkLength})
            /\ client \notin {"idle", "first_read"} => outcome = "lines"

Inductive == TypeOK /\ ReadsInOrder /\ FileInBlocks /\ BlocksAreFull /\ LinesSoFar

\* Files without a null, which would cut the line that holds it: next_line()
\* returns C strings.
TextFiles == \A f \in Files: \A i \in 1..Len(f): f[i] # 0

-----------------------------------------------------------------------------
(* next_line() returns, and so does the destructor.                        *)
CallsReturn == client \notin {"idle", "destroyed"} ~> client \in {"idle", "destroyed"}
=============================================================================
