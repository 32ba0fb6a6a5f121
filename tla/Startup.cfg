\* Two processes with one environment; calls may fail twice, and processes that
\* end are started again.
SPECIFICATION FairSpec
CONSTANTS
    p1 = p1
    p2 = p2
    Processes = {p1, p2}
    Envs <- SomeEnvs
    MaxTroubles = 2
INVARIANTS
    TypeOK
    ServesOnlyWhenReady
PROPERTIES
    StartFailsForCause
    EveryStartSettles
