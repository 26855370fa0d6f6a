CONSTANTS
    Threads = {t1, t2}
    NumPrivs = 2
    NumNodes = 2
    NumAddrs = 2
    MaxOpens = 2
    MaxFds = 1
    MaxFaults = 1
SPECIFICATION FairSpec
INVARIANTS
    NodePlaced
    PagesLive
    ReleaseClean
PROPERTIES
    ReleaseEnds
CHECK_DEADLOCK FALSE
