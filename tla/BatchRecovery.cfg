\* One worker that crashes, is stopped and restarted, on reliable storage.
CONSTANTS
    w1 = w1
    NoWorker = NoWorker
    Workers = {w1}
    Total = 3
    ShardSize = 2
    MaxAttempts = 2
    RenderIds = {0, 1, 2}
    RenderIdOf <- DistinctInputs
    TemplateMayFail = TRUE
    MaxFaults = 0
    MaxCrashes = 1
    MaxStops = 1
SPECIFICATION FairSpec
INVARIANTS
    OutstandingHasMarker
    ResultsMatchCounts
    SuccessIsServable
PROPERTIES
    FinalStatusIsFinal
    LifecycleSpec
CHECK_DEADLOCK FALSE
