SPECIFICATION Spec
CONSTANTS
    N = 12
    B = 3
    L0 = 1
    Inodes = 3
    Entry = 2
    MaxLen = 7
    Sizes = {2, 5}
    Positions = {0, 3}
    Shrinking = FALSE
INVARIANTS
    OwnedOnce
    CleanFilesReadBack
    DirectoryListsFiles
PROPERTIES
    OnlyTheseLose
CHECK_DEADLOCK FALSE
