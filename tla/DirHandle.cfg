CONSTANTS
    Handles = {h1, h2}
    Dirs = {"folder", "tag"}
    Names = {x, y}
    BadName = BadName
    MaxId = 2
    MaxPos = 2
    MaxChanges = 1
    Tagged <- MCTagged
    Exclusive = TRUE
    Readonly = FALSE
    Accmode <- MCAccmode
    Classes <- MCClasses
SPECIFICATION Spec
INVARIANTS
    TypeOK
    StateHasOwner
    KeptIsCurrent
CHECK_DEADLOCK FALSE
SYMMETRY MCSymmetry
