SPECIFICATION Spec
CONSTANTS
    t1 = t1
    t2 = t2
    None = None
    Threads = {t1, t2}
    Blocks = 3
    Capacity = 2
INVARIANTS
    TypeOK EngineExclusive NeverRelocks FlagFollowsOperation
    StatusMatchesStream ErrorMatchesStatus
PROPERTIES SilentAfterRefusal EngineReleased ImplementsService
