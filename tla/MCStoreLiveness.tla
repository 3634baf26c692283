--------------------------- MODULE MCStoreLiveness ---------------------------
(* Instances of StoreLiveness for TLC.                                        *)
EXTENDS StoreLivenessInv

CONSTANTS s1, s2

\* s1 requests support from s2.
OnePair == [s \in Stores |-> IF s = s1 THEN {s2} ELSE {}]
===============================================================================
