CONSTANTS
    Half = 3
    Fences = {f1, f2}
    StartTs = {0, 4}
    TsMode = "client"
SPECIFICATION FairSpec
INVARIANTS
    KrefExact
    NoFenceLeft
PROPERTIES
    SignalTruthful
    FenceSignals
CHECK_DEADLOCK FALSE
