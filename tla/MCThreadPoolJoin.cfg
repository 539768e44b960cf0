SPECIFICATION FairSpec
CONSTANTS
    Producers = {p1, p2}
    Workers = {w1, w2}
    Tasks = {t1, t2}
    NoTask = NoTask
    Capacity = 2
PROPERTY DestructorReturns
\* The workers that are never woken leave no step to take: the system stops.
CHECK_DEADLOCK FALSE
