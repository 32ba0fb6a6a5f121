\* Two processes over one table with two rows; a process may die and be
\* started again, the database and Kafka may fail.
SPECIFICATION Spec
CONSTANTS
    n1 = n1
    n2 = n2
    Nodes = {n1, n2}
    Events <- TwoEvents
    BatchLimit = 2
    MaxCopies = 1
    Faults <- NodesFaults
SYMMETRY NodeSymmetry
INVARIANTS
    TypeOK
    ClaimExclusive
    NoDuplicateSend
    WriterHoldsTaken
    NoLostWakeup
PROPERTIES
    ImplementsContract
