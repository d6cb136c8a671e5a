----------------------------- MODULE MCTurnPool -----------------------------
(* Instances of TurnPool for TLC.                                          *)
EXTENDS TurnPool, TLC

CONSTANTS u1, u2

TwoUrls == {u1, u2}
OneOrBoth == {{u1}, {u1, u2}}
=============================================================================
