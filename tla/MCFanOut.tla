------------------------------- MODULE MCFanOut -------------------------------
(* Instances of FanOut for TLC. *)
EXTENDS FanOut

AllFaults == FaultClasses
=============================================================================
