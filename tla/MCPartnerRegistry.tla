-------------------------- MODULE MCPartnerRegistry --------------------------
(* Instances of PartnerRegistry for TLC.                                   *)
EXTENDS PartnerRegistry, TLC

CONSTANTS t1, t2, r1, r2, r3, p1, p2, k1, k2, k3

TwoTokens == {t1, t2}
ThreeReqs == {r1, r2, r3}
ThreeKeys == {k1, k2, k3}
\* Two domains of one partner and one of another.
PartnerOfKey == [k \in ThreeKeys |-> IF k = k3 THEN p2 ELSE p1]
OwnerOfToken == [t \in TwoTokens |-> p1]
Symmetric == Permutations(ThreeReqs) \cup Permutations(TwoTokens)
=============================================================================
