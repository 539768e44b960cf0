SPECIFICATION FairSpec
CONSTANTS
    a = a
    b = b
    s1 = s1
    s2 = s2
    t1 = t1
    t2 = t2
    t3 = t3
    Nodes = {a, b}
    Subs = {s1, s2}
    Tasks = {t1, t2, t3}
    Home <- HomeDef
    SubOf <- SubOfDef
    NumWorkers = 1
    NumHandlers = 1
INVARIANTS
    CountersExact
    NoTaskLost
    RerunOnlyByFallback
PROPERTY SubmissionReturns
