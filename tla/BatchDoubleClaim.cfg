\* Two live workers on reliable storage.
CONSTANTS
    w1 = w1
    w2 = w2
    NoWorker = NoWorker
    Workers = {w1, w2}
    Total = 1
    ShardSize = 1
    MaxAttempts = 2
    RenderIds = {0}
    RenderIdOf <- DistinctInputs
    TemplateMayFail = FALSE
    MaxFaults = 0
    MaxCrashes = 0
    MaxStops = 0
SPECIFICATION Spec
INVARIANT SettledSuccessIsServable
CHECK_DEADLOCK FALSE
