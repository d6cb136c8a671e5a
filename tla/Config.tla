------------------------------- MODULE Config -------------------------------
(***************************************************************************)
(* What the server makes of its environment (crates/server/src/config.rs). *)
(* A value that is a comma-separated list is given as the sequence of its  *)
(* entries; the values without structure are constants of the modules that *)
(* use them.                                                               *)
(***************************************************************************)
EXTENDS Texts

CONSTANTS Numerals,   \* texts that parse as a number, with the number
          LowerCase   \* LowerCase[c]: the lower case of a character

Lower(s) == [i \in DOMAIN s |-> LowerCase[s[i]]]

\* csv: entries are trimmed and empty ones dropped.
Csv(entries) ==
    LET trimmed == [i \in DOMAIN entries |-> Trim(entries[i])]
    IN SelectSeq(trimmed, LAMBDA e : e # <<>>)

CsvLower(entries) == LET plain == Csv(entries) IN [i \in DOMAIN plain |-> Lower(plain[i])]

\* region:priority:url, where the url has colons of its own.
Colon(chunk, i) == From(chunk, i, LAMBDA j : chunk[j] = ":")
Region(chunk) == SubSeq(chunk, 1, Colon(chunk, 1) - 1)
PriorityText(chunk) ==
    LET first == Colon(chunk, 1) IN SubSeq(chunk, first + 1, Colon(chunk, first + 1) - 1)
Url(chunk) == SubSeq(chunk, Colon(chunk, Colon(chunk, 1) + 1) + 1, Len(chunk))

WellFormed(chunk) ==
    /\ Region(chunk) # <<>> /\ Url(chunk) # <<>>
    /\ PriorityText(chunk) \in DOMAIN Numerals

\* parse_turn_servers: an entry that is not well-formed is skipped.
ParseTurnServers(entries) ==
    LET good == SelectSeq(Csv(entries), WellFormed)
    IN [i \in DOMAIN good |-> [url |-> Url(good[i]), region |-> Region(good[i]),
                               priority |-> Numerals[PriorityText(good[i])]]]

=============================================================================
