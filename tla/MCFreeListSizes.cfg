SPECIFICATION Spec
CONSTANTS
    N = 7
    FcbBlocks = 1
    Sizes = {1, 2}
INVARIANTS
    DisjointExtents
    NeverFreeAndHeld
PROPERTIES
    EveryCallReturns
CHECK_DEADLOCK FALSE
