SPECIFICATION Spec
CONSTANTS
    N = 4
    Data = {1}
    Bases <- MCBases
INVARIANTS
    PointersInside
PROPERTIES
    ImplementsStore
    WholeBackupComesUp
CHECK_DEADLOCK FALSE
