SPECIFICATION WsSpec
CONSTANTS
    r1 = r1
    r2 = r2
    t1 = t1
    t2 = t2
    s1 = s1
    s2 = s2
    Requests = {r1, r2}
    Vars = vars
    Tabs = {t1, t2}
    Sends = {s1, s2}
    None = none
    MaxQueue = 2
    MaxActs = 3
SYMMETRY Symmetric
INVARIANTS
    SaveKeepsOthers
    CleanMeansStored
    SendingExplained
    OneRunShown
CHECK_DEADLOCK FALSE
