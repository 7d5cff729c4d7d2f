\* Two live workers that lose leases to each other, on reliable storage.
CONSTANTS
    w1 = w1
    w2 = w2
    NoWorker = NoWorker
    Workers = {w1, w2}
    Total = 2
    ShardSize = 2
    MaxAttempts = 3
    RenderIds = {0, 1}
    RenderIdOf <- DistinctInputs
    TemplateMayFail = FALSE
    MaxFaults = 0
    MaxCrashes = 0
    MaxStops = 0
SPECIFICATION FairSpec
INVARIANT OutstandingAttended
PROPERTY JobEnds
CHECK_DEADLOCK FALSE
