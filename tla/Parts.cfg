\* Two callers on two slots with up to three compiles alive; two processes and
\* two calls on one object; every question.
CONSTANTS
    c1 = c1
    c2 = c2
    p1 = p1
    p2 = p2
    Callers = {c1, c2}
    Tasks = {1, 2, 3}
    Slots = 2
    Processes = {p1, p2}
    MaxTries = 2
    Rounds = 2
    MaxCalls = 2
    MaxText = 4
    MaxPart = 3
    LongName = 2
    MaxFields = 2
    RecentN = 1
    MaxLatencies = 7
    MaxList = 5
    MaxLimit = 4
    PageCap = 3
SPECIFICATION Spec
INVARIANTS
    SlotsAddUp
    AckedWriteHolds
    ErrorIsEarned
    ParsesAsWritten
    PublishedIsResolvable
    KeysReadBack
    WarmIsFresh
    SameIdSameRender
    PublishedIsLoadable
    EachRenderCountsOnce
    PercentilesAreRanks
    StatusTellsWhoseFault
    WalkSeesAll
PROPERTIES
    RenderCallEnds
    PoolHeals
    S3CallReturns
CHECK_DEADLOCK FALSE
