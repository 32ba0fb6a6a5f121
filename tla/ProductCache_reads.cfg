\* Two calls about one product that changes up to three times; everything
\* may fail.  When the calls are over and the product has reached its
\* last version, nothing is left to happen.
SPECIFICATION FairSpec
CONSTANTS
    p1 = p1
    c1 = c1
    c2 = c2
    Products = {p1}
    Calls = {c1, c2}
    MaxVersion = 3
    Faults <- AllFaults
INVARIANTS
    TypeOK
    StaleIsPurged
    FreshIfQuiet
PROPERTIES
    NotFoundOnlyMidway
    CacheConverges
CHECK_DEADLOCK FALSE
