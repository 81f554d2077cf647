SPECIFICATION Spec
CONSTANTS
    Root = root
    d1 = d1
    d2 = d2
    d3 = d3
    b1 = b1
    b2 = b2
    Tree <- MCTree
    Wrong = {d1, d3}
    MaxFaults = 3
    Taken = {1}
    Chunk = 2
    StackSize = 2
    MaxCommands = 4
INVARIANTS
    TypeOK
    HandlesMatchStack
    BufferHasOwn
    AllExamined
    RepairIsComplete
PROPERTY
    AlwaysReturns
CHECK_DEADLOCK FALSE
