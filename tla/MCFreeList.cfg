SPECIFICATION Spec
CONSTANTS
    N = 8
    FcbBlocks = 1
    Sizes = {1}
INVARIANTS
    SortedRing
    NoBlockLost
    CountExact
    AtMostOneSeam
PROPERTIES
    ImplementsPool
