------------------------------ MODULE MCOutbox ------------------------------
(* Instances of Outbox for TLC. *)
EXTENDS Outbox, TLC

CONSTANTS n1, n2

\* The rows, in created_at order.
TwoEvents == 1 .. 2

\* Fault classes of the runs.
NoFault == {}
AllFaults == FaultClasses
NodesFaults == {"crash", "db", "kafka"}
ConnFaults == {"conn"}

NodeSymmetry == Permutations(Nodes)
=============================================================================
