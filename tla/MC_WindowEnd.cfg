SPECIFICATION AlgSpec
CONSTANTS
    M1_MAX_OFFSET = 3
    M2_MAX_OFFSET <- MCM2
    M2_MAX_OFFSET_1Z = 5
    M3_MAX_OFFSET = 12
    M4_MAX_OFFSET = 24
    Inputs <- ZeroInputs
    Chunk = 21
    Slots = {0, 1, 2}
    DINDEX <- MCHash
    Levels = {7}
    F = 8
    Originals = {}
    Dicts = {}
    Missing = {0}
INVARIANTS
    CodecRoundTrip
