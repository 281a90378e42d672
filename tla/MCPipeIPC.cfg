SPECIFICATION Spec
CONSTANTS
    Cap = 3
    Hello = 2
    Extra = 2
    MaxRuns = 2
INVARIANTS
    CountsAreRight
    OnlyChild1Nonblocking
    SemaphoresComeBack
PROPERTIES
    ParentEnds
    Child3Ends
CHECK_DEADLOCK FALSE
