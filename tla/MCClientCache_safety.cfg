SPECIFICATION FairSpec
CONSTANTS
    k1 = k1
    b1 = b1
    b2 = b2
    none = none
    c1 = c1
    s1 = s1
    s2 = s2
    Keys <- OneKey
    Builds <- TwoBuilds
    NoBuild = none
    Callers <- OneCaller
    Sweepers <- TwoSweepers
    MaxSaves = 1
INVARIANTS
    CachedIsUsable
    DisposalIsExact
PROPERTIES
    ImplementsPromise
    EveryWaitEnds
CHECK_DEADLOCK FALSE
