SPECIFICATION FairSpec
CONSTANTS
    o1 = o1
    e1 = e1
    Ops <- OneOp
    Entities <- OneEntity
    Kinds <- BothKinds
    TargetStamps <- MaybeStamp
    MaxWork = 1
    MaxRuns = 2
    MaxCrashes = 1
    MaxLosses = 1
INVARIANTS
    OneRunner
    StrandedIsOffered
PROPERTIES
    EndIsFinal
    RunEnds
CHECK_DEADLOCK FALSE
