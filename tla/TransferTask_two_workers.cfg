SPECIFICATION Spec
CONSTRAINT Narrowed
SYMMETRY AnyWorker
CONSTANTS
    w1 = w1
    w2 = w2
    r1 = r1
    r2 = r2
    MaxTasks = 2
    Workers <- TwoWorkers
    Requests <- OneRequest
    Kinds = {"export", "dump", "redis", "small", "tableop"}
    LegacyRows = 0
    MaxCrashes = 1
    Clocks = {"timeout", "retention"}
    SerialRequests = TRUE
INVARIANT TypeOK
INVARIANT OneRunner
PROPERTY KeepsPromise
