\* Finding: a failed reconnect ends the process.  Once the rows are used up
\* and the listener has given up, nothing is left to happen.
SPECIFICATION Spec
CONSTANTS
    n1 = n1
    n2 = n2
    Nodes = {n1}
    Events <- TwoEvents
    BatchLimit = 2
    MaxCopies = 1
    Faults <- ConnFaults
PROPERTIES
    ConnectionLossIsSurvived
CHECK_DEADLOCK FALSE
