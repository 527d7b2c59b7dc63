SPECIFICATION FileSpec
CONSTANTS
    Ns = {2, 7, 10, 11}
    StreamBuffer = 10
    FlushesEmpty = FALSE
    WriteLens = {3, 4, 9}
    MaxBytes = 13
    MaxSent = 6
    MaxFailures = 1
    Rooms = {6, 7, 10}
    ReadLens = {4}
    MaxErrors = 2
INVARIANTS
    UlenHonest
    PointerDropped
    ReadUntilError
    ReadsBack
PROPERTIES
    StreamCallsEnd
CHECK_DEADLOCK FALSE
