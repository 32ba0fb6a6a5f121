\* Finding: a commit between the startup drain and LISTEN is not noticed.
SPECIFICATION FairSpec
CONSTANTS
    n1 = n1
    n2 = n2
    Nodes = {n1}
    Events <- TwoEvents
    BatchLimit = 2
    MaxCopies = 1
    Faults <- NoFault
PROPERTIES
    EveryEventProcessed
