SPECIFICATION Spec
CONSTANTS
    Capacity = 2
    MayExist = {TRUE, FALSE}
    Typed = {"text", "end1", "end2"}
    MaxTyped = 3
    MaxRuns = 2
INVARIANTS
    SendersExclude
    AnsweredMeansPrinted
PROPERTIES
    EveryoneReturns
CHECK_DEADLOCK FALSE
