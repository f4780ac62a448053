\* One list and one extraction with two entries and two artifacts.
CONSTANTS
    ChunkBlocks = 2
    FilesGrow = TRUE
    CaptureThrows = TRUE
    MaxModules = 2
    MaxSources = 1
    MaxConfig = 1
    MaxEntries = 2
    MaxCandidates = 2
    MaxBlocks = 3
    MaxTrouble = 2
    PipeLines = 1
SPECIFICATION PipeSpec
CHECK_DEADLOCK FALSE
INVARIANTS
    TypeOK
    OnlyUpsetIsInvalid
    CutStreamIsInvalid
    SuccessIsClean
    ReturnIsTrue
    ErrorsAreRecorded
    FailureStillCloses
