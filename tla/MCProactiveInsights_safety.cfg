SPECIFICATION FairSpec
CONSTANTS
    r1 = r1
    q1 = q1
    t1 = t1
    t2 = t2
    Rules <- OneRule
    Requests <- OneRequest
    Tasks <- TwoTasks
    MaxConcurrent = 1
    MaxChanges = 1
    MaxUnreadable = 1
    MaxRecoveries = 1
INVARIANTS
    OneReportPerIncident
    SkipIsHonest
PROPERTIES
    SlotIsGivenBack
CHECK_DEADLOCK FALSE
