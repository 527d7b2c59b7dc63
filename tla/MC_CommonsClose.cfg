SPECIFICATION CommonsSpec
CONSTANTS
    N = 3
    WriteLens = {0, 1, 3, 4, 7}
    MaxBytes = 9
    MaxFailures = 1
INVARIANT
    CloseWritesAll
