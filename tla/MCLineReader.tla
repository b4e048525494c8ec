---------------------------- MODULE MCLineReader ----------------------------
(***************************************************************************)
(* Blocks of three characters, and files with every way to cut their       *)
(* characters, each a number of its own, into lines.                       *)
(***************************************************************************)
EXTENDS LineReader

Cut(n, ends) == [i \in 1..n |-> IF i \in ends THEN NL ELSE 100 + i]

MCFiles ==
    UNION {{Cut(n, ends): ends \in SUBSET (1..n)}: n \in {0, 1, 5, 6, 7, 9, 10}}
    \cup {BOM, BOM \o <<NL, 104, 105, NL, 106>>, <<239, 187, NL, 104>>,
          BOM \o <<104, CR, NL, CR, NL, 105, NL, CR, 106, NL, 107, CR>>,
          <<CR, NL, 103, CR, NL, 106, CR, NL, 109, CR, NL, 112, CR, NL, 115>>}
=============================================================================
