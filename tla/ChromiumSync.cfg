CONSTANTS
    i1 = i1
    i2 = i2
    a1 = a1
    a2 = a2
    Inodes <- MCInodes
    Addresses <- MCAddresses
    Checksum <- MCChecksum
    NoFile = NoFile
    Freed = Freed
    Impls = {"fallback"}
    CoarseClock = FALSE
    MayFail = TRUE
    SpuriousWakeup = FALSE
    MaxWrites = 3
    Readonly = FALSE
SPECIFICATION SyncLiveSpec
CHECK_DEADLOCK FALSE
INVARIANTS SyncTypeOK StaleOnlyIfMissed
PROPERTIES EditsSurvive FreshUnlessMissed
