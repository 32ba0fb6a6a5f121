----------------------------- MODULE MCShutdown -----------------------------
(* Instances of Shutdown for TLC. *)
EXTENDS Shutdown

CONSTANTS r1, c1, t1

AllFaults == FaultClasses
NoFault == {}
=============================================================================
