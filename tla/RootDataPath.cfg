SPECIFICATION Spec
CONSTANTS
    Root <- MCRoot
    Trees <- MCTrees
    DataPaths <- MCDataPaths
    OtherStreams <- MCOtherStreams
INVARIANTS SuccessIsAccepted
CHECK_DEADLOCK FALSE
