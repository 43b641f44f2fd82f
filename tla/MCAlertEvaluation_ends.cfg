SPECIFICATION FairEngineSpec
CONSTANTS
    r1 = r1
    r2 = r2
    q1 = q1
    q2 = q2
    Rules <- TwoRules
    Requests <- TwoRequests
    MaxConcurrent = 1
    MaxChanges = 0
    MaxUnreadable = 0
INVARIANT LoopGoesOn
CHECK_DEADLOCK FALSE
