\* Finding: when the time is over while the worker is waited for, the second
\* call of its function ends the process before the others are closed.
SPECIFICATION FairSpec
CONSTANTS
    r1 = r1
    c1 = c1
    t1 = t1
    Requests = {}
    Calls = {}
    Threads = {t1}
    PoolSize = 1
    Faults <- NoFault
PROPERTIES
    RemainingAreClosed
CHECK_DEADLOCK FALSE
