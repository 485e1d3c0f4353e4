CONSTANTS
    NULL = NULL
    r1 = r1
    Hosts <- MCHosts
    Steady <- MCSteady
    Requests <- MCRequests
    Latencies <- MCLatencies
    FailThreshold = 2
    RecoverThreshold = 2
    MaxPools = 2
    MaxRows = 1
SPECIFICATION Spec
INVARIANTS TypeOK NoPoolLeak BreakerTrips
PROPERTIES Readmission ShutdownUnlessStuck ReadsReturnUnlessStuck
CHECK_DEADLOCK FALSE
