SPECIFICATION FairEngineSpec
CONSTANTS
    r1 = r1
    r2 = r2
    q1 = q1
    q2 = q2
    Rules <- TwoRules
    Requests <- TwoRequests
    MaxConcurrent = 1
    MaxChanges = 2
    MaxUnreadable = 0
INVARIANTS
    FiringIsShown
    RulesFollowFile
PROPERTIES
    PassEnds
CHECK_DEADLOCK FALSE
