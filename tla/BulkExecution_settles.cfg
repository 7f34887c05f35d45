SPECIFICATION FairSpec
CONSTANTS
    t1 = t1
    h1 = h1
    h2 = h2
    v1 = v1
    Tasks <- OneTask
    Hosts <- TwoHosts
    Views <- OneView
    MaxFiles = 2
    Forks = 1
    TaskKinds = {"shell", "upload"}
    ViewKinds = {"cancel", "detail", "delete", "host"}
    MaxCrashes = 0
CHECK_DEADLOCK FALSE
PROPERTY Settles
