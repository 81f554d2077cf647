CONSTANTS
    i1 = i1
    i2 = i2
    Inodes <- MCInodes
    NoFile = NoFile
    Impls = {"kqueue"}
    CoarseClock = TRUE
    MayFail = TRUE
    SpuriousWakeup = TRUE
    MaxWrites = 4
SPECIFICATION Spec
INVARIANTS NoWatchFdLeak
CHECK_DEADLOCK FALSE
