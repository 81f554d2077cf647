CONSTANTS
    i1 = i1
    i2 = i2
    Inodes <- MCInodes
    NoFile = NoFile
    Impls = {"fanotify", "fallback"}
    CoarseClock = FALSE
    MayFail = TRUE
    SpuriousWakeup = FALSE
    MaxWrites = 4
SPECIFICATION LiveSpec
CHECK_DEADLOCK FALSE
INVARIANTS TypeOK NoLostChange Handshake
PROPERTIES ChangeIsReported DestroyReturns
