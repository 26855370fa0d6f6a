CONSTANTS
    Threads = {t1, t2}
    NumChannels = 3
    MaxCalls = 2
    MaxFaults = 2
SPECIFICATION FairSpec
INVARIANTS
    PoolExclusive
    AtMostOnce
PROPERTIES
    CloseTerminates
CHECK_DEADLOCK FALSE
