--------------------------- MODULE MCNegotiation ---------------------------
(* Instances of Negotiation for TLC.                                       *)
EXTENDS Negotiation
OneImpolite == [p \in Peers |-> p # First]
=============================================================================
