SPECIFICATION FairSpec
CONSTANTS
    Procs = {p1, p2, p3}
    NoProc = NoProc
    Boot = Boot
    Commands = {c1}
    MaxAttempts = 2
INVARIANTS
    OrphansExplained
    PortIsReal
PROPERTY CrashIsHandled
\* The app ends, or the boot and every recovery have come to their end.
CHECK_DEADLOCK FALSE
