SPECIFICATION Spec
CONSTANTS
    Candidates = 1
    ChunkBlocks = 2
    MaxBlocks = 2
    MaxChanges = 1
    CoarseClock = TRUE
INVARIANT StableIsSnapshot
CHECK_DEADLOCK FALSE
