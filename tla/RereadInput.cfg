\* docs/validator-v1.md:34-38 against the second pass of reassemble.
SPECIFICATION Spec
CONSTANTS
    Root <- MCRoot
    Trees <- MCTrees
    DataPaths <- MCDataPaths
    OtherStreams <- MCOtherStreams
INVARIANTS PublishedIsValidated
CHECK_DEADLOCK FALSE
