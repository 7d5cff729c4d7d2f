\* Two workers on one shard of two items; one storage call fails.
\* A run that ends with a storage error leaves what a crash at
\* that call leaves.
CONSTANTS
    w1 = w1
    w2 = w2
    NoWorker = NoWorker
    Workers = {w1, w2}
    Total = 2
    ShardSize = 2
    MaxAttempts = 2
    RenderIds = {0, 1}
    RenderIdOf <- DistinctInputs
    TemplateMayFail = TRUE
    MaxFaults = 1
    MaxCrashes = 0
    MaxStops = 0
SPECIFICATION Spec
SYMMETRY WorkerSymmetry
INVARIANTS
    TypeOK
    AttemptsBounded
    MarkerImpliesReady
    DoneHasFullResults
    SuccessHasPdf
    CountsWithinShard
\* Nothing is left to do once no marker is left.
CHECK_DEADLOCK FALSE
