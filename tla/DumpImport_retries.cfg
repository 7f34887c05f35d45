CONSTANTS
    NTables = 2
    NBatches = 2
    NonTransactional <- Second
    Policies <- AllPolicies
    MaxTries = 3
    MaxCrashes = 1
SPECIFICATION Spec
INVARIANT TypeOK
INVARIANT AllOrNothing
INVARIANT LossIsAnnounced
PROPERTY CheckpointsHold
CHECK_DEADLOCK FALSE
