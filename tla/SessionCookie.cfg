CONSTANTS
    ChunkSize = 2
    MaxChunks = 3
    CookieCap = 2
    Sizes = {1, 2, 3, 5, 6, 7}
    MaxWrites = 4
    MaxInFlight = 2
SPECIFICATION Spec
INVARIANTS ReadBack ClearedClean
CHECK_DEADLOCK FALSE
