CONSTANTS
    MaxCmds = 4
    UserGeneratedTs = TRUE
SPECIFICATION FairSpec
INVARIANT
    LastForwardsAndFrees
PROPERTY
    QueuedForwards
CHECK_DEADLOCK FALSE
