CONSTANTS
    a = a
    Nul = Nul
    Newline = Newline
    Letters <- MCLetters
    FileMax = 3
    MaxOpen = 2
    MaxTime = 5
    Mounts <- MCMounts
    Failing = {"writeback", "setattr"}
SPECIFICATION Spec
INVARIANTS
    TypeOK
    ContentKept
    CacheCoherent
    MtimeKept
CHECK_DEADLOCK FALSE
