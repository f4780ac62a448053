SPECIFICATION Spec
CONSTANTS
    p1 = p1
    p2 = p2
    Old = Old
    Procs = {p1, p2}
    Forced = {p1}
    Blocks = 2
    Capacity = 1
INVARIANTS TypeOK TargetIsWhole NoClobber ReportIsTruthful
PROPERTIES CleansUp Terminates ImplementsAtomicFile
CHECK_DEADLOCK FALSE
