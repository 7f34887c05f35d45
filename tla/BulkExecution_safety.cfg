SPECIFICATION Spec
CONSTANTS
    t1 = t1
    h1 = h1
    h2 = h2
    v1 = v1
    Tasks <- OneTask
    Hosts <- TwoHosts
    Views <- OneView
    MaxFiles = 2
    Forks = 2
    TaskKinds = {"shell", "upload"}
    ViewKinds = {"cancel", "list", "delete", "host"}
    MaxCrashes = 1
CHECK_DEADLOCK FALSE
SYMMETRY AnyHost
INVARIANT TypeOK
INVARIANT StopsAfterCurrent
INVARIANT CompletedMeansDone
INVARIANT NothingLeftOpen
