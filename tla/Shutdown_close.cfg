\* A request, a call and one goroutine of the worker, with two connections
\* between them, while the process is shut down; closing a client may fail and
\* connections may be forgotten.  The process ends, or hangs in db.Close:
\* nothing is left to happen.
SPECIFICATION FairSpec
CONSTANTS
    r1 = r1
    c1 = c1
    t1 = t1
    Requests = {r1}
    Calls = {c1}
    Threads = {t1}
    PoolSize = 2
    Faults <- AllFaults
INVARIANTS
    TypeOK
    StoresOutliveUsers
    CleanCloseLeavesOnlyFills
PROPERTIES
    PoolServes
    ShutdownEnds
CHECK_DEADLOCK FALSE
