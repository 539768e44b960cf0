SPECIFICATION FairSpec
CONSTANTS
    Producers = {p1}
    Workers = {w1, w2}
    Tasks = {t1, t2, t3}
    NoTask = NoTask
    Capacity = 2
INVARIANTS
    RunsExactlyOnce
    PermitsCoverQueue
PROPERTIES
    SubmittedRuns
    DestructorReturns
