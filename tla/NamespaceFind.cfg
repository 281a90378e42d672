SPECIFICATION Spec
CONSTANTS
    Names = {"a", "b"}
    LastInode = 2
    MaxOpen = 2
    MaxArg = 2
    MaxPath = 2
INVARIANT FindsOnlyWhatExists
CHECK_DEADLOCK FALSE
