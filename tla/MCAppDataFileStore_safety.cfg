SPECIFICATION FairSpec
CONSTANTS
    e1 = e1
    e2 = e2
    t1 = t1
    t2 = t2
    none = none
    Entries <- TwoEntries
    Tasks <- TwoTasks
    NoTask = none
    MaxAttempts = 2
INVARIANTS
    OnlyDamageTears
    AckedIsKept
PROPERTY
    RequestEnds
