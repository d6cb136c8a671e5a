---------------------------- MODULE MCCallClient ----------------------------
(* Instances of CallClient for TLC.                                        *)
EXTENDS CallClient, TLC
=============================================================================
