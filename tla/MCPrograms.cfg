SPECIFICATION Spec
CONSTANTS
    BUFFER_SIZE = 4
    IntMax = 15
    MaxTyped = 3
    MaxRuns = 2
    Chunk = 2
    Texts = {"x"}
    Units = {"1", "2", "3", "4"}
    Scripts <- MCScripts
    Typed <- MCTyped
    FirstFiles <- MCFiles
INVARIANTS
    LeftoversAreSenders
    TokensFit
    PrintsWhatWasTyped
    CommandsTakeEffectInOrder
    CopiesKeepData
PROPERTIES
    GoesBackOnlySo
    ScriptEnds
    BothReturn
CHECK_DEADLOCK FALSE
