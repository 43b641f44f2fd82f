SPECIFICATION FairSpec
CONSTANTS
    N = 3
    F = 1
    MaxBatch = 2
    Caps <- BothCaps
    MaxFaults = 2
    Actions <- AllActions
INVARIANTS
    NothingLost
    WithinRequest
    DuplicatesNeedFaults
    RestoreOrdered
    ResultIsHonest
PROPERTY
    RunEnds
