SPECIFICATION Spec
CONSTANTS
    w1 = w1
    w2 = w2
    r1 = r1
    r2 = r2
    MaxTasks = 1
    Workers <- OneWorker
    Requests <- TwoRequests
    Kinds = {"dump"}
    LegacyRows = 0
    MaxCrashes = 0
    Clocks = {}
    SerialRequests = FALSE
INVARIANT RunsOnce
