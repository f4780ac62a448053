SPECIFICATION MCSpec
CONSTANTS
    Position <- MCPosition
    MaxEntries = 5
INVARIANTS TypeOK EntriesFollowWalk CompleteOrDiagnosed DuplicatesAreKept EntryIsAccepted
PROPERTIES Returns ImplementsTraverse
CHECK_DEADLOCK FALSE
