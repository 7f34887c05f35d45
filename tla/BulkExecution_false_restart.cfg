SPECIFICATION Spec
CONSTANTS
    t1 = t1
    h1 = h1
    h2 = h2
    v1 = v1
    Tasks <- OneTask
    Hosts <- OneHost
    Views <- OneView
    MaxFiles = 1
    Forks = 1
    TaskKinds = {"shell"}
    ViewKinds = {"list"}
    MaxCrashes = 0
CHECK_DEADLOCK FALSE
PROPERTY InterruptedByRestart
