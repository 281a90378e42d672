SPECIFICATION Spec
CONSTANTS
    Names = {"a", "b"}
    LastInode = 2
    MaxOpen = 2
    MaxArg = 2
    MaxPath = 2
INVARIANTS
    TreeIsSound
    OpenedOnce
    PromptIsTrue
PROPERTIES
    CwdClosesOnlySo
    RootGoesOnlySo
CHECK_DEADLOCK FALSE
