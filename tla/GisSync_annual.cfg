SPECIFICATION Spec
CONSTANTS
    Workers = {w1}
    Schedulers = {s1}
    InitialFeed <- MCFeed
    Home <- MCHome
    Pilot = {"p1", "p2"}
    Malformed = {"p2"}
    PageSize = 2
    ServerCap = 2
    MaxTries = 2
    MaxJobs = 2
    MaxPending = 0
    MaxGen = 4
    MaxEvents = 1
    MaxFaults = 0
INVARIANT CitiesSettled
CHECK_DEADLOCK FALSE
