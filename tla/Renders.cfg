\* Two requests for one output, kept for a day or forever; one mishap.
CONSTANTS
    c1 = c1
    c2 = c2
    Loop = Loop
    Main = Main
    Clients = {c1, c2}
    Ids = {1}
    Retains = {0, 1}
    RawDays = 0
    FlushMax = 2
    Cap = 1
    MaxDay = 2
    MaxRenders = 2
    Mishaps = {"fault", "crash", "cancel", "stop"}
    MaxMishaps = 1
SPECIFICATION FairSpec
INVARIANTS
    TypeOK
    ServableUntilDue
    ExpiringIsIndexed
PROPERTIES
    DueIsPruned
    UndueIsKept
CHECK_DEADLOCK FALSE
