CONSTANTS
    Half = 2
    Fences = {f1}
    Threads = {t1, t2, t3}
SPECIFICATION FairSpec
INVARIANTS
    KrefExact
    NoLostSignal
PROPERTY
    DestroySignals
CHECK_DEADLOCK FALSE
