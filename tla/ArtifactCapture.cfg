SPECIFICATION Spec
CONSTANTS
    Candidates = 2
    ChunkBlocks = 2
    MaxBlocks = 2
    MaxChanges = 2
    CoarseClock = FALSE
INVARIANTS TypeOK StableIsSnapshot FailureIsDiagnosed QuietTreeIsCaptured GroupsAreCounted
PROPERTIES Returns
CHECK_DEADLOCK FALSE
