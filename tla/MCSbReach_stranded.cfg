SPECIFICATION Spec
CONSTANTS
    N = 2
    F = 0
    MaxBatch = 2
    Caps <- LargeCap
    MaxFaults = 1
    Actions <- RestoringActions
INVARIANT
    CompletedMeansRestored
