SPECIFICATION Spec
CONSTANTS
    Workers = {w1, w2}
    Queues = {q1, q2}
    Kinds = {"known", "garbled"}
    Delays = {0}
    BatchSizes = {2}
    MaxAttempts = 2
    RetryAfter = 1
    ReservationTimeout = 1
    AllowOverrun = FALSE
    AllowDeleteLoss = FALSE
    MaxSubmitted = 2
    MaxBatches = 1
    MaxFaults = 1
    AttemptBound <- MCAttemptBound
    NULL = NULL
INVARIANTS
    TypeOK
    NoJobLost
    ExclusiveClaim
    FinalizeGate
    FinalizeOnce
PROPERTIES
    JobsDrain
    BatchSettles
    ImplementsBarrier
