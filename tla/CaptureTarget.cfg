SPECIFICATION Spec
CONSTANTS
    Candidates = 1
    ChunkBlocks = 2
    MaxBlocks = 2
    MaxChanges = 1
    CoarseClock = FALSE
INVARIANT TargetIsReal
CHECK_DEADLOCK FALSE
