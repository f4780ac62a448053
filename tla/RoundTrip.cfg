SPECIFICATION Spec
CONSTANTS
    Root <- MCRoot
    Trees <- MCTrees
    DataPaths <- MCDataPaths
    OtherStreams <- MCOtherStreams
INVARIANTS TypeOK CapturesTheTree Restored 
CHECK_DEADLOCK FALSE
