SPECIFICATION Spec
CONSTANTS
    N = 9
    B = 3
    L0 = 1
    Inodes = 1
    Entry = 2
    MaxLen = 7
    Sizes = {2, 3}
    Positions = {0, 2}
    Shrinking = TRUE
INVARIANT NeverFreedTwice
CHECK_DEADLOCK FALSE
