--------------------------- MODULE MCProductCache ---------------------------
(* Instances of ProductCache for TLC. *)
EXTENDS ProductCache

CONSTANTS p1, c1, c2

AllFaults == FaultClasses
=============================================================================
