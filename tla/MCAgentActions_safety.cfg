SPECIFICATION Spec
CONSTANTS
    s1 = s1
    x = x
    y = y
    c1 = c1
    c2 = c2
    Chat = chat
    Ids <- ThreeIds
    Sessions <- OneSession
    Wanted <- ThreeWanted
    Targets <- TwoTargets
    Calls <- TwoCalls
    MaxPendingActions = 2
    MaxPerInvestigation = 1
    InteractiveLifetime = 0
    InvestigationLifetime = 0
    MaxParks = 2
    MaxAsks = 2
    MaxNow = 1
INVARIANTS
    NoDuplicateProposal
    CapWithinOverlap
    RepeatExplained
    RejectIsFinal
PROPERTIES
    InvestigationKept
CHECK_DEADLOCK FALSE
