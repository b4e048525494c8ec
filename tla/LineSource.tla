------------------------------ MODULE LineSource ------------------------------
(***************************************************************************)
(* What a reader of lines promises: the lines of a file, one after the     *)
(* other, until they end or until one is longer than the limit.  A line    *)
(* ends with \n or \r\n, which are not part of it, and the last one may    *)
(* end with the file; a byte order mark in front is no part of the first.  *)
(***************************************************************************)
EXTENDS Integers, Sequences, FiniteSets

CONSTANT Limit  \* a line and its terminator have at most Limit characters

VARIABLES file, lines, outcome

NL == 10
CR == 13
BOM == <<239, 187, 191>>

Content(f) == IF Len(f) >= 3 /\ SubSeq(f, 1, 3) = BOM THEN SubSeq(f, 4, Len(f)) ELSE f

Ends(c) == {i \in 1..Len(c): c[i] = NL \/ i = Len(c)}

LineCount(f) == Cardinality(Ends(Content(f)))

(* Where line k ends: as many ends are up to there.                        *)
EndOf(c, k) == IF k = 0 THEN 0 ELSE CHOOSE i \in Ends(c): Cardinality({j \in Ends(c): j <= i}) = k

WithoutNewline(l) == IF l # <<>> /\ l[Len(l)] = NL THEN SubSeq(l, 1, Len(l) - 1) ELSE l
WithoutReturn(l) == IF l # <<>> /\ l[Len(l)] = CR THEN SubSeq(l, 1, Len(l) - 1) ELSE l

RawLine(f, k) ==
    LET c == Content(f) IN WithoutNewline(SubSeq(c, EndOf(c, k - 1) + 1, EndOf(c, k)))

Line(f, k) == WithoutReturn(RawLine(f, k))

Init == lines = <<>> /\ outcome = "lines"

Deliver ==
    /\ outcome = "lines" /\ Len(lines) < LineCount(file)
    /\ Len(RawLine(file, Len(lines) + 1)) < Limit
    /\ lines' = Append(lines, Line(file, Len(lines) + 1))
    /\ UNCHANGED <<file, outcome>>

End ==
    /\ outcome = "lines" /\ Len(lines) = LineCount(file)
    /\ outcome' = "end"
    /\ UNCHANGED <<file, lines>>

Refuse ==
    /\ outcome = "lines" /\ Len(lines) < LineCount(file)
    /\ Len(RawLine(file, Len(lines) + 1)) >= Limit
    /\ outcome' = "too_long"
    /\ UNCHANGED <<file, lines>>

Spec == Init /\ [][Deliver \/ End \/ Refuse]_<<file, lines, outcome>>
=============================================================================
