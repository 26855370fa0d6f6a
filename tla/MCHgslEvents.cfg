CONSTANTS
    Half = 2
    Events = {e1, e2}
    TsMode = "verbatim"
SPECIFICATION FairSpec
INVARIANTS
    NoLostEvent
    KrefExact
    NoUseAfterFree
PROPERTIES
    ResultTruthful
    RetiredEventDelivered
    DestroyTerminates
CHECK_DEADLOCK FALSE
