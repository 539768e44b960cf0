SPECIFICATION ArenaFairSpec
CONSTANTS
    PoolThreads = {w1, w2}
    Handlers = {h1}
    Submitters = {s1}
    NoThread = NoThread
    Sizes = {1, 3}
    ArenaCapacity = 6
    Alignment = 2
    Word = 16
INVARIANTS
    BlocksDisjoint
    BlocksInBounds
    QuiescentArenaEmpty
PROPERTIES
    ResetOnlyWhenQuiescent
    RunTaskEnds
