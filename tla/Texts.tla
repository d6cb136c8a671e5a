------------------------------- MODULE Texts -------------------------------
(***************************************************************************)
(* Scanning of texts, as the parsers of the server do it: a text is a      *)
(* sequence of characters, where a run of letters and digits counts as one *)
(* character unless a parser looks into it.                                *)
(***************************************************************************)
EXTENDS Naturals, Sequences

Blank == {" ", "\n"}

\* The first position of s from i on where P holds, or the end.
From(s, i, P(_)) ==
    LET hits == {j \in i .. Len(s) : P(j)}
    IN IF hits = {} THEN Len(s) + 1 ELSE CHOOSE j \in hits : \A k \in hits : j <= k

At(s, i, c) == i \in 1 .. Len(s) /\ s[i] = c

Past(s, j, n) == IF j > Len(s) THEN Len(s) + 1 ELSE j + n

Trim(s) ==
    LET solid == {i \in 1 .. Len(s) : s[i] \notin Blank}
        first == CHOOSE i \in solid : \A j \in solid : i <= j
        last == CHOOSE i \in solid : \A j \in solid : i >= j
    IN IF solid = {} THEN <<>> ELSE SubSeq(s, first, last)

=============================================================================
