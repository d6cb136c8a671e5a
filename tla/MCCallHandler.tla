--------------------------- MODULE MCCallHandler ---------------------------
(* Instances of CallHandler for TLC.                                       *)
EXTENDS CallHandler, TLC

Symmetric == Permutations(Conns)
=============================================================================
