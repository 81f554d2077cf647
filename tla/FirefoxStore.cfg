CONSTANTS
    MaxId = 8
    MaxPos = 3
    Names = {x, y}
    BadName = BadName
    Urls = {blank, url}
    Blank = blank
    NoUrl = NoUrl
    Origin <- MCOrigin
    Keywords = {k}
    Repaired = {5, 8}
    GuidModes <- MCBoth
SPECIFICATION Spec
INVARIANTS
    TypeOK
    RefCountsMatch
    PositionsDistinct
    TreeConnected
PROPERTIES
    FoldersStamped
    TreeRefined
SYMMETRY MCSymmetry
