CONSTANTS
    NumSyncs = 4
    PointType <- EachType
SPECIFICATION FairSpec
INVARIANTS
    NoUseAfterFree
    LastExpiryKicks
PROPERTY
    DestroyedIsFreed
CHECK_DEADLOCK FALSE
