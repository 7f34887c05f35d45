SPECIFICATION Spec
CONSTANTS
    s1 = s1
    s2 = s2
    w1 = w1
    w2 = w2
    MaxOutputs = 3
    MaxCommands = 2
    WebRequests <- TwoWebRequests
    MaxItems = 2
    Savers <- TwoSavers
    LogLimit = 3
    MaxWritten = 5
    Counters <- FewCounters
    MaxText = 4
CHECK_DEADLOCK FALSE
INVARIANT TypesOK
INVARIANT RecordingsHold
INVARIANT OneAfterAnother
INVARIANT TransfersHold
INVARIANT SavesAreHonest
INVARIANT TextsUnderstood
PROPERTY FilesKept
PROPERTY EndsAreFinal
PROPERTY TerminalsShutDown
