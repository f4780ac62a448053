\* A file grows while it is captured.
CONSTANTS
    ChunkBlocks = 2
    FilesGrow = TRUE
    CaptureThrows = FALSE
    MaxModules = 2
    MaxSources = 1
    MaxConfig = 1
    MaxEntries = 2
    MaxCandidates = 2
    MaxBlocks = 3
    MaxTrouble = 2
    PipeLines = 1
SPECIFICATION PipeSpec
CHECK_DEADLOCK FALSE
INVARIANTS
    ClosedStreamIsValid
