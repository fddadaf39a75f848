------------------------------- MODULE MCWatch -------------------------------
(* Instances of Watch for TLC.                                             *)
EXTENDS Watch

CONSTANTS f1, f2, f3
=============================================================================
