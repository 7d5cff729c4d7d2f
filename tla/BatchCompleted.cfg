\* One worker that crashes once, and a poison guard of one attempt.
CONSTANTS
    w1 = w1
    NoWorker = NoWorker
    Workers = {w1}
    Total = 2
    ShardSize = 1
    MaxAttempts = 1
    RenderIds = {0, 1}
    RenderIdOf <- DistinctInputs
    TemplateMayFail = FALSE
    MaxFaults = 0
    MaxCrashes = 1
    MaxStops = 0
SPECIFICATION Spec
INVARIANT CompletedMeansFullSet
CHECK_DEADLOCK FALSE
