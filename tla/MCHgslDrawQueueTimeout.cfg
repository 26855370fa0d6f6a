CONSTANTS
    Half = 3
    QSize = 4
    Threads = {t1}
    Batches <- DrainBatches
    TsMode = "driver"
    StartTs = {0}
    MaxSubmits = 2
    MaxSendFails = 0
    Timeouts = TRUE
SPECIFICATION Spec
INVARIANT
    RoomToPushBack
CHECK_DEADLOCK FALSE
