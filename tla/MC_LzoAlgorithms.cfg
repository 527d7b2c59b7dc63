SPECIFICATION AlgSpec
CONSTANTS
    M1_MAX_OFFSET = 3
    M2_MAX_OFFSET <- MCM2
    M2_MAX_OFFSET_1Z = 5
    M3_MAX_OFFSET = 12
    M4_MAX_OFFSET = 60
    Inputs <- MCInputs
    Chunk = 45
    Slots = {0, 1, 2}
    DINDEX <- MCHash
    Levels = {7, 9}
    F = 40
    Originals <- MCOriginals
    Dicts <- MCDicts
    Missing = {0, 1, 2, 3}
INVARIANTS
    CodecRoundTrip
    SafeTells
    OutputFits
    MatchIsTrue
    CountHasRoom
    TranslationAgrees
    AssertsHold
    LongestFound
