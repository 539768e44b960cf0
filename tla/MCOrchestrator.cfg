SPECIFICATION FairSpec
CONSTANTS
    Word = 65536
    MaxJiffies = 2
    Busy = {2}
    MaxStarts = 2
    Environments <- MCEnvironments
INVARIANTS
    UsageSinceStart
    OnlyLateUsers

    
    
CHECK_DEADLOCK FALSE
