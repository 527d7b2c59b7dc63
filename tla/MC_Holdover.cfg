SPECIFICATION FileSpec
CONSTANTS
    Ns = {3}
    StreamBuffer = 8
    FlushesEmpty = FALSE
    WriteLens = {1, 4, 7}
    MaxBytes = 9
    MaxSent = 4
    MaxFailures = 0
    Rooms = {10}
    ReadLens = {12}
    MaxErrors = 1
INVARIANT
    HoldoverComesLater
CHECK_DEADLOCK FALSE
