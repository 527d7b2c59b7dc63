SPECIFICATION Spec
CONSTANTS
    Clients = {c1, c2}
    Tasks = {t1, t2}
    None = None
    FlagSets = {{"ADLER32_D", "ADLER32_C"}}
    Files <- SomeFiles
    Missing = {0, 4, 21, 60}
    ClosesOnFailure = TRUE
    MaxFailures = 1
SYMMETRY Symmetric
INVARIANTS
    CompleteAtRest
    JobReadsPrefix
    AloneIsComplete
PROPERTY
    RetryRepairs
CHECK_DEADLOCK FALSE
