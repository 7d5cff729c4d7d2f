\* One worker, and one failing storage call.
CONSTANTS
    w1 = w1
    NoWorker = NoWorker
    Workers = {w1}
    Total = 1
    ShardSize = 1
    MaxAttempts = 2
    RenderIds = {0}
    RenderIdOf <- DistinctInputs
    TemplateMayFail = FALSE
    MaxFaults = 1
    MaxCrashes = 0
    MaxStops = 0
SPECIFICATION Spec
INVARIANT OutstandingHasMarker
CHECK_DEADLOCK FALSE
