CONSTANTS
    Half = 6
    c1 = c1
    c2 = c2
    Ctxts = {c1, c2}
    RingSize = 8
    AlignTo = 2
    MsgSizes = {3, 5}
    InfoSize = 2
    MaxMsg = 4
    StartTs = 9
    MaxIssues <- Issues
    MaxResets = 2
    None = None
SPECIFICATION FairSpec
INVARIANTS
    RingHoldsMessages
    ResetQuiet
    BatchKept
PROPERTY
    ResetGranted
CHECK_DEADLOCK FALSE
