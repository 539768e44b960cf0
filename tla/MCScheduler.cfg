SPECIFICATION Spec
CONSTANTS
    Ids = {a, b, c}
    Strangers = {x}
    Profiles <- TwoProfiles
    States = {"Completed"}
    MaxEdges = 4
    Counts = {0, 1, 2, 3}
    Levels = {0, 1, 2}
    Widths = {0, 1, 2}
    HiddenDims = {1, 2, 5}
    KvBytes = {0, 7}
    Word = 128
    Names = {"greedy", "threshold", "optimizer", "gready"}
    NumPeers = 2
    PlanProfiles <- PlannedProfiles
    Snapshots <- SomeSnapshots
    CpuThreshold = 75
    MemThreshold = 80
    MaxIterations = 3
    Uint64 = 512
    MaxTasks = 4
    NumTasks = 3
INVARIANTS
    OrderCorrect
    MetricsCorrect
    RoundTrip
    
    MemoryRespected
    
 
\* A behaviour ends with its graph or its plan.
CHECK_DEADLOCK FALSE
