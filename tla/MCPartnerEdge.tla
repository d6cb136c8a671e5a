---------------------------- MODULE MCPartnerEdge ----------------------------
(* Instances of PartnerEdge for TLC.                                       *)
EXTENDS PartnerEdge, TLC

CONSTANTS t1, t2, r1, r2, ours, theirs, v1, v2, latest

TwoTokens == {t1, t2}
TwoReqs == {r1, r2}
OurKey == {ours}
BothKeys == {ours, theirs}
PartnerOfOurKey == [k \in OurKey |-> k]
PartnerOfKey == [k \in BothKeys |-> k]
OwnerOfToken == [t \in TwoTokens |-> ours]
Tags == {v1, v2, latest}
OldOrLatest == {v1, latest}
FirstToSecond == {<<v1, v2>>}
Symmetric == Permutations(TwoReqs) \cup Permutations(TwoTokens)
=============================================================================
