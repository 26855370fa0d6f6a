CONSTANTS
    Clients = {"t1", "t2", "t3"}
    ProcOf <- TwoProcesses
    NumIds = 1
    NumObjs = 2
SPECIFICATION FairSpec
INVARIANTS
    NoUseAfterFree
    TableClean
PROPERTIES
    WaiterIsWoken
    DestroyEnds
CHECK_DEADLOCK FALSE
