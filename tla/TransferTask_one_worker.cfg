SPECIFICATION FairSpec
CONSTANTS
    w1 = w1
    w2 = w2
    r1 = r1
    r2 = r2
    MaxTasks = 1
    Workers <- OneWorker
    Requests <- OneRequest
    Kinds = {"export", "dump", "redis", "small", "tableop"}
    LegacyRows = 1
    MaxCrashes = 1
    Clocks = {"timeout", "retention"}
    SerialRequests = TRUE
INVARIANT FinishedHolds
INVARIANT ConnectionsOutliveTransfers
PROPERTY Settles
