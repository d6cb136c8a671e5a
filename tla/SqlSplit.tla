------------------------------ MODULE SqlSplit ------------------------------
(***************************************************************************)
(* split_statements of crates/server/src/migrate.rs: an embedded migration *)
(* is one text, the driver takes one statement at a time.                  *)
(*                                                                         *)
(* A text is a sequence of characters.  A run of letters and digits counts *)
(* as one character, for the splitter looks into it only to tell whether a *)
(* dollar tag may consist of it (Identifiers).                             *)
(*                                                                         *)
(* An operator marked "mutant" is a deliberately broken variant of the     *)
(* definition below it; nothing uses it but the mutation runs.             *)
(***************************************************************************)
EXTENDS Texts

CONSTANT Identifiers   \* words that may be a dollar tag

\* A comment ends behind its newline, or behind the first star-slash: block
\* comments do not nest.
LineComment(s, i) == At(s, i, "-") /\ At(s, i + 1, "-")
LineEnd(s, i) == Past(s, From(s, i + 2, LAMBDA j : s[j] = "\n"), 1)

BlockComment(s, i) == At(s, i, "/") /\ At(s, i + 1, "*")
BlockEnd(s, i) ==
    Past(s, From(s, i + 2, LAMBDA j : s[j] = "*" /\ At(s, j + 1, "/")), 2)

Comment(s, i) == LineComment(s, i) \/ BlockComment(s, i)
CommentEnd(s, i) == IF LineComment(s, i) THEN LineEnd(s, i) ELSE BlockEnd(s, i)

\* $tag$ ... $tag$ is copied as it is.  Without its closing the opening alone
\* is, and what follows is read on its own.
Tag(s, i) == IF i < Len(s) /\ s[i + 1] \in Identifiers THEN i + 2 ELSE i + 1
Dollar(s, i) == At(s, i, "$") /\ At(s, Tag(s, i), "$")
DollarEnd_AnyTag(s, i) ==                                            \* mutant
    LET open == Tag(s, i) IN Past(s, From(s, open + 1, LAMBDA j : s[j] = "$"), 1)
DollarEnd(s, i) ==
    LET open == Tag(s, i)
        size == open - i
        close == From(s, open + 1,
                      LAMBDA j : /\ j + size <= Len(s)
                                 /\ SubSeq(s, j, j + size) = SubSeq(s, i, open))
    IN IF close > Len(s) THEN open + 1 ELSE close + size + 1

\* '...' and "...".  A doubled quote inside is copied like a literal that ends
\* and another one that begins, so it needs no case of its own.
Quote(s, i) == At(s, i, "'") \/ At(s, i, "\"")
QuoteEnd(s, i) == Past(s, From(s, i + 1, LAMBDA j : s[j] = s[i]), 1)

CopyEnd(s, i) == CASE Dollar(s, i) -> DollarEnd(s, i)
                   [] Quote(s, i) -> QuoteEnd(s, i)
                   [] OTHER -> i + 1

\* out[i]: the statements of the text from position i on, the first one being
\* the one under way there.
Split(s) ==
    LET out[i \in 1 .. Len(s) + 1] ==
            IF i > Len(s) THEN <<<<>>>>
            ELSE IF Comment(s, i) THEN out[CommentEnd(s, i)]
            ELSE IF s[i] = ";" THEN <<<<>>>> \o out[i + 1]
            ELSE LET end == CopyEnd(s, i)
                     rest == out[end]
                 IN <<SubSeq(s, i, end - 1) \o Head(rest)>> \o Tail(rest)
        whole == out[1]
        trimmed == [n \in 1 .. Len(whole) |-> Trim(whole[n])]
    IN SelectSeq(trimmed, LAMBDA t : t # <<>>)

=============================================================================
