CONSTANTS
    Half = 6
    QSize = 4
    Threads = {t1, t2}
    Batches <- MixedBatches
    TsMode = "driver"
    StartTs = {10}
    MaxSubmits = 3
    MaxSendFails = 1
    Timeouts = FALSE
SPECIFICATION Spec
SYMMETRY Symmetry
INVARIANTS
    RingConsistent
    KrefExact
    NoLostKick
CHECK_DEADLOCK FALSE
