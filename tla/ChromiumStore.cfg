CONSTANTS
    Names = {x, y}
    BadName = BadName
    Guids = {g1, g2, g3}
    MaxId = 5
    Listed <- MCListed
    MaxStreamId = 4
SPECIFICATION Spec
INVARIANTS
    TypeOK
    MapsMatchTree
    LookupMatchesList
    SameAfterReload
    FoldersStamped
    ReadOnce
SYMMETRY MCSymmetry
CHECK_DEADLOCK FALSE
