CONSTANTS
    NTables = 2
    NBatches = 1
    NonTransactional <- None
    Policies <- Skipping
    MaxTries = 2
    MaxCrashes = 0
SPECIFICATION Spec
INVARIANT SkippedMeansExisted
CHECK_DEADLOCK FALSE
