SPECIFICATION TripSpec
CONSTANTS
    N = 2
    WriteLens = {1, 4}
    MaxBytes = 5
    MaxFailures = 1
    FlagSets = {{}, {"ADLER32_D", "CRC32_D", "ADLER32_C", "CRC32_C"}}
    ReadLens = {1, 3}
INVARIANTS
    NullWordEndsFile
    ClosedMeansClosed
    RoundTrip
    CrashShows
PROPERTY
    NullWordAfterAll
CHECK_DEADLOCK FALSE
