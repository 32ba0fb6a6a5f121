\* Two requests for one product; everything may fail, Qdrant only for a client
\* that went away.
SPECIFICATION FairSpec
CONSTANTS
    r1 = r1
    r2 = r2
    r3 = r3
    Requests = {r1, r2}
    Inputs <- OneProduct
    MaxRoubles = 1
    Faults <- AllButQdrant
INVARIANTS
    TypeOK
    OneOpenEventPerProduct
    CommittedEventHasData
    AnswerIsTrue
    StoredPriceIsWritten
    FailedIsCompensated
PROPERTIES
    RegistersAtomically
    FailedImagesGoAway
