SPECIFICATION Spec
CONSTANTS
    Workers = {w1, w2}
    Schedulers = {s1, s2}
    InitialFeed <- MCFeed
    Home <- MCHome
    Pilot = {"p1", "p2"}
    Malformed = {"p2"}
    PageSize = 2
    ServerCap = 2
    MaxTries = 2
    MaxJobs = 2
    MaxPending = 0
    MaxGen = 3
    MaxEvents = 2
    MaxFaults = 1
INVARIANT TypeOK
PROPERTIES RefreshExact BootstrapCompletes
CHECK_DEADLOCK FALSE
