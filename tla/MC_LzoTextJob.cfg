SPECIFICATION Spec
CONSTANTS
    HeaderLen = 2
    BlockLen = 2
    TextLens = {1, 2}
    MaxBlocks = 3
    MaxCuts = 2
INVARIANTS
    SplitsTile
    SlicesKeepBlocks
    LinesOnce
CHECK_DEADLOCK FALSE
