CONSTANTS
    Entries = {e1, e2, e3, e4, e5}
    Keys = {1, 2, 3, 4, 5}
    NoEntry = NoEntry
    NoKey = 0
    WordSize = 5
    ExpMin = 2
    ExpMax = 4
    HashCodes = {0, 1, 8, 31}
SPECIFICATION MCSpec
INVARIANTS
    TypeOK
    SearchIsExact
    BucketsDistinct
    LargerTableFits
SYMMETRY MCSymmetry
CHECK_DEADLOCK FALSE
