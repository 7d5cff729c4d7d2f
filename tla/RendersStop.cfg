\* A shutdown while the flush loop has drained the buffer.
CONSTANTS
    c1 = c1
    c2 = c2
    Loop = Loop
    Main = Main
    Clients = {c1}
    Ids = {1}
    Retains = {0, 1}
    RawDays = 0
    FlushMax = 2
    Cap = 1
    MaxDay = 2
    MaxRenders = 2
    Mishaps = {"stop"}
    MaxMishaps = 1
SPECIFICATION Spec
INVARIANT StopLosesNothing
CHECK_DEADLOCK FALSE
