SPECIFICATION FairScan
CONSTRAINT Narrowed
CONSTANTS
    t1 = t1
    r1 = r1
    r2 = r2
    v1 = v1
    v2 = v2
    Scans <- OneScan
    LastTarget = 2
    Threads <- TwoThreads
    ScanViews <- TwoViews
    Removable = {2}
    MaxRetries = 2
    MaxScanCrashes = 1
CHECK_DEADLOCK FALSE
INVARIANT ScanTypeOK
INVARIANT OneScannerPerTarget
INVARIANT FindingsOfOneScan
INVARIANT CompletedMeansScanned
PROPERTY ScanSettles
