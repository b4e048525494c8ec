----------------------------- MODULE MachineTable -----------------------------
(***************************************************************************)
(* load_machines() (src/jutta_bt_proto/CoffeeMakerLoader.cpp): the table   *)
(* of machines, from the lines that next_line() returns of it.  This is    *)
(* the client of LineReader, whose worker goes on reading while a row is   *)
(* parsed; each step of the table is one of the reader's.                  *)
(***************************************************************************)
EXTENDS LineReader, CsvRow

VARIABLES
    machines,  \* article number -> machine
    process    \* running, loaded or the exception that nobody catches

tableVars == <<machines, process>>

\* Mutant: result[articleNumber] = ... instead of emplace().
emplace_over(row) ==
    [a \in DOMAIN machines \cup {row.articleNumber} |->
        IF a = row.articleNumber THEN row ELSE machines[a]]

(* A machine that is there already stays.                                  *)
emplace(row) ==
    [a \in DOMAIN machines \cup {row.articleNumber} |->
        IF a \in DOMAIN machines THEN machines[a] ELSE row]

(* A row is asked for until there is no other line.  The end may be met    *)
(* where the first line is skipped, which no one looks at, and is then met *)
(* again.                                                                  *)
CallNextLine ==
    /\ process = "running"
    /\ NextLine
    /\ process' = IF outcome' = "end" THEN "loaded" ELSE process
    /\ UNCHANGED machines

(* The first line is skipped whatever is in it.                            *)
SkipFirst ==
    /\ Scan /\ ~TooLong /\ lines = <<>>
    /\ UNCHANGED tableVars

ReadRow ==
    /\ Scan /\ ~TooLong /\ lines # <<>>
    /\ LET row == read_row(lines'[Len(lines')])
       IN  IF Failed(row)
           THEN process' = row.error /\ UNCHANGED machines
           ELSE machines' = emplace(row) /\ UNCHANGED process

LineTooLong ==
    /\ Scan /\ TooLong
    /\ process' = "line_length_limit_exceeded" /\ UNCHANGED machines

(* The reader is destroyed where load_machines() is left.                  *)
Leave ==
    /\ process # "running"
    /\ Destroy
    /\ UNCHANGED tableVars

(* The rest of next_line() and of the destructor, and the worker.          *)
Elsewhere ==
    /\ \/ Construct \/ FinishRead \/ CopyBlock \/ StartRead
       \/ Terminate \/ NotifyWorker \/ Join \/ WorkerStep
       \/ ClientSpuriouslyWoken \/ WorkerSpuriouslyWoken
    /\ UNCHANGED tableVars

TableInit == Init /\ machines = <<>> /\ process = "running"

TableNext ==
    CallNextLine \/ SkipFirst \/ ReadRow \/ LineTooLong \/ Leave \/ Elsewhere

TableSpec == TableInit /\ [][TableNext]_<<vars, tableVars>>

-----------------------------------------------------------------------------
(* What a row means: three separators part the line into four columns, of  *)
(* which the spaces at both ends are no part.                              *)
Separators(line) == {i \in DOMAIN line: line[i] = Separator}
Partings(line) ==
    {p \in Separators(line) \X Separators(line) \X Separators(line):
        p[1] < p[2] /\ p[2] < p[3] /\ Separators(line) = {p[1], p[2], p[3]}}
Trimmed(line, from, to) ==
    LET solid == {i \in from..to: line[i] \notin {32, 9}}
    IN  IF solid = {} THEN <<>> ELSE SubSeq(line, Min(solid), Max(solid))
Columns(line) ==
    LET p == CHOOSE p \in Partings(line): TRUE
    IN  <<Trimmed(line, 1, p[1] - 1), Trimmed(line, p[1] + 1, p[2] - 1),
          Trimmed(line, p[2] + 1, p[3] - 1), Trimmed(line, p[3] + 1, Len(line))>>

Digits(s) == \A i \in DOMAIN s: s[i] \in 48..57
Value(s) ==
    LET value[i \in 0..Len(s)] == IF i = 0 THEN 0 ELSE 10 * value[i - 1] + s[i] - 48
    IN  value[Len(s)]
IsRow(line) ==
    /\ Partings(line) # {}
    /\ Digits(Columns(line)[1]) /\ Value(Columns(line)[1]) <= SizeMax
    /\ Digits(Columns(line)[4]) /\ Value(Columns(line)[4]) <= 255
Means(line) ==
    [articleNumber |-> Value(Columns(line)[1]), name |-> Columns(line)[2],
     fileName |-> Columns(line)[3], version |-> Value(Columns(line)[4])]

(* What is loaded is the table of the file: a machine for each article     *)
(* number, as the first row that has it says, and a file with a row that   *)
(* is none, or a number that does not fit its column, is never loaded.     *)
TableIsTheFiles ==
    LET count == Promised!LineCount(file)
        line(k) == Promised!Line(file, k)
        rows == {line(k): k \in 2..count}
        first(a) == CHOOSE k \in 2..count:
                        /\ Means(line(k)).articleNumber = a
                        /\ \A j \in 2..(k - 1): Means(line(j)).articleNumber # a
    IN  process # "running" =>
            /\ process = "loaded" <=>
                   /\ \A row \in rows: IsRow(row)
                   /\ \A k \in 1..count: Len(Promised!RawLine(file, k)) < BlockLen
            /\ process = "loaded" =>
                   machines = [a \in {Means(row).articleNumber: row \in rows} |->
                                  Means(line(first(a)))]
=============================================================================
