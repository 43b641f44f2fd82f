SPECIFICATION FairSpec
CONSTANTS
    N = 2
    MaxBatch = 2
    FlushEvery = 1
    MaxDelivery = 2
    MaxFaults = 2
    Sources <- FromEither
INVARIANTS
    DoneIsOnTarget
    DuplicatesNeedFaults
    CompletedAccounts
PROPERTIES
    ConfirmedNotResent
    ActiveRunEnds
