-------------------------------- MODULE CsvRow --------------------------------
(***************************************************************************)
(* CSVReader::read_row() (src/include/io/csv.hpp) with the policies of     *)
(* load_machines(): four columns separated by semicolons, trimmed, not     *)
(* quoted; an overflow throws.  A line is a sequence of character codes; a *)
(* result is [error] or the value that was read.                           *)
(***************************************************************************)
EXTENDS Integers, Sequences, SequencesExt

CONSTANT SizeMax  \* the largest size_t

ASSUME SizeMaxAssumption == SizeMax \in Nat

ColumnCount == 4
Separator == 59
is_trim_char(c) == c \in {32, 9}

Failed(r) == "error" \in DOMAIN r

trim(s) ==
    LET kept == {i \in DOMAIN s: ~is_trim_char(s[i])}
    IN  IF kept = {} THEN <<>> ELSE SubSeq(s, Min(kept), Max(kept))

\* How many characters there are before the next separator.
find_next_column_end(line) ==
    LET separators == {i \in 1..Len(line): line[i] = Separator}
    IN  IF separators = {} THEN Len(line) ELSE Min(separators) - 1

(* One turn of parse_line(): a column is chopped off the line, of which    *)
(* nothing is left once there was no separator.                            *)
chop_next_column(r) ==
    IF Failed(r) THEN r
    ELSE IF ~r.left THEN [error |-> "too_few_columns"]
    ELSE LET end == find_next_column_end(r.line)
         IN  [line |-> SubSeq(r.line, end + 2, Len(r.line)), left |-> end < Len(r.line),
              columns |-> Append(r.columns, trim(SubSeq(r.line, 1, end)))]

parse_line(line) ==
    LET chopped[i \in 0..ColumnCount] ==
            IF i = 0 THEN [line |-> line, left |-> TRUE, columns |-> <<>>]
            ELSE chop_next_column(chopped[i - 1])
        r == chopped[ColumnCount]
    IN  IF Failed(r) THEN r
        ELSE IF r.left THEN [error |-> "too_many_columns"] ELSE [columns |-> r.columns]

add_digit(x, c, max) ==
    IF Failed(x) THEN x
    ELSE IF c \notin 48..57 THEN [error |-> "no_digit"]
    ELSE IF x.value > (max - (c - 48)) \div 10 THEN [error |-> "integer_overflow"]
    ELSE [value |-> 10 * x.value + (c - 48)]

parse_unsigned_integer(col, max) ==
    LET x[i \in 0..Len(col)] ==
            IF i = 0 THEN [value |-> 0] ELSE add_digit(x[i - 1], col[i], max)
    IN  x[Len(col)]

(* A row of load_machines(): the article number is a size_t, the version a *)
(* uint8_t.                                                                *)
read_row(line) ==
    LET r == parse_line(line)
        article == parse_unsigned_integer(r.columns[1], SizeMax)
        version == parse_unsigned_integer(r.columns[4], 255)
    IN  IF Failed(r) THEN r
        ELSE IF Failed(article) THEN article
        ELSE IF Failed(version) THEN version
        ELSE [articleNumber |-> article.value, name |-> r.columns[2],
              fileName |-> r.columns[3], version |-> version.value]
=============================================================================
