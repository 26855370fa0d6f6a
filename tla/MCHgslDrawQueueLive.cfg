CONSTANTS
    Half = 3
    QSize = 4
    Threads = {t1}
    Batches <- DrainBatches
    TsMode = "client"
    StartTs = {0}
    MaxSubmits = 2
    MaxSendFails = 1
    Timeouts = FALSE
SPECIFICATION FairSpec
INVARIANT
    NoPartialQueue
PROPERTIES
    RefinesInOrder
    QueueDrains
    DestroyTerminates
CHECK_DEADLOCK FALSE
