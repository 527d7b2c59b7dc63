SPECIFICATION Spec
CONSTANTS
    N = 3
    WriteLens = {0, 1, 2, 7}
    MaxBytes = 8
    MaxFailures = 2
INVARIANTS
    TypeOK
    Layout
    Compacted
    FramesInOrder
    NothingLostSilently
    CleanBetweenCalls
PROPERTIES
    DrainedReturn
    CallsEnd
    Refinement
