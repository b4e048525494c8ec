---------------------------- MODULE MCMachineTable ----------------------------
(***************************************************************************)
(* Tables of up to two rows, each any of the rows below, behind a header,  *)
(* and longer ones of a few rows, for which the blocks are filled anew.    *)
(***************************************************************************)
EXTENDS MachineTable

\* 1;a; f;2 and its variations: the characters as codes.
Articles == {<<49>>, <<48, 49>>, <<32, 49, 9>>, <<>>, <<49, 53>>, <<49, 54>>, <<49, 32, 49>>}
Versions == {<<50>>, <<50, 53, 53>>, <<50, 53, 54>>, <<45, 49>>}
Row(article, version) == article \o <<59, 97, 59, 32, 102, 59>> \o version
Rows == {Row(a, v): a \in Articles, v \in Versions}
        \cup {<<>>, <<49, 59, 59, 102>>, <<49, 59, 59, 59, 50, 59>>, <<59, 59, 59>>,
              <<51>> \o [i \in 1..12 |-> 59]}

Header == {<<>>, <<35, 59, 10>>, <<239, 187, 191, 104, 13, 10>>}
Rest == {Row(<<49>>, <<50>>), Row(<<50>>, <<50>>), Row(<<48, 49>>, <<51>>), Row(<<49>>, <<51, 33>>)}

MCFiles == Header
    \cup {h \o r: h \in Header, r \in Rows}
    \cup {<<10>> \o r \o n \o s \o e: r \in Rows, s \in Rows, n \in {<<10>>, <<13, 10>>}, e \in {<<>>, <<10>>}}
    \cup {<<239, 187, 191, 104, 13, 10>> \o r \o <<10>> \o s \o <<13, 10>> \o t \o <<10>> \o u \o <<10>>:
              r \in Rest, s \in Rest, t \in Rest, u \in Rest}
=============================================================================
