SPECIFICATION LzopSpec
CONSTANTS
    ReadLens = {1, 2, 4}
    MaxBlock = 3
    MaxBlocks = 2
    FlagSets = {{}, {"ADLER32_D"}, {"CRC32_C"}, {"ADLER32_D", "CRC32_D", "ADLER32_C", "CRC32_C"}}
INVARIANTS
    LzopInOrder
    LzopEndIsComplete
CHECK_DEADLOCK FALSE
