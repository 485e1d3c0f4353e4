SPECIFICATION Spec
CONSTANTS
    k1 = k1  k2 = k2  bay = bay  hill = hill  w1 = w1
    Keys = {k1, k2}
    Places = {bay, hill}
    NoPlace = NoPlace
    StartAt <- MCStartAt
    ZoneAt <- MCZoneAt
    Workers = {w1}
    RollingWindow = TRUE
    UpsertChunk = 2
    BatchSize = 1
    FailThreshold = 1
    MaxRevisions = 1
    MaxFetches = 2
    MaxJobs = 1
    MaxFaults = 1
INVARIANTS
    TypeOK
    ZoneOfOwnPoint
PROPERTIES
    ZoneCatchesUp
    NoRegress
