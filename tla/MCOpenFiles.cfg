SPECIFICATION OpenSpec
CONSTANTS
    N = 12
    B = 2
    L0 = 1
    Inodes = 1
    Entry = 1
    MaxLen = 9
    Sizes = {2, 3}
    Positions = {3, 7}
    Shrinking = FALSE
    ReadSizes = {4}
    Garbage = {3, 9}
    MaxPointer = 9
INVARIANTS
    OwnedOnce
    ReadsFileData
    PlacedIsInside
PROPERTIES
    OnlyTheseLose
CHECK_DEADLOCK FALSE
