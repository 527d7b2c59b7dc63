SPECIFICATION CommonsSpec
CONSTANTS
    ReadLens = {0, 1, 2, 4}
    MaxBlock = 3
    MaxBlocks = 3
INVARIANTS
    ReadInOrder
    EndIsComplete
    ArraysTell
PROPERTIES
    ReadsEnd
