\* Four images and two slots, so that goroutines have to wait for a slot;
\* three attempts at the vectors.  The request ends.
SPECIFICATION FairSpec
CONSTANTS
    NumImages = 4
    Limit = 2
    MaxRetries = 3
    Faults <- AllFaults
INVARIANTS
    TypeOK
    PairsMatch
    FailedIsCleaned
    FailsForCause
PROPERTIES
    FanOutReturns
CHECK_DEADLOCK FALSE
