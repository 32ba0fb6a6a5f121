\* One process, two rows in batches of one; everything may fail and the process
\* may be asked to stop: what strands an event,
\* and liveness.
SPECIFICATION FairSpec
CONSTANTS
    n1 = n1
    n2 = n2
    Nodes = {n1}
    Events <- TwoEvents
    BatchLimit = 1
    MaxCopies = 2
    Faults <- AllFaults
PROPERTIES
    StrandedByFailure
    EventuallySettled
    ShutdownCompletes
