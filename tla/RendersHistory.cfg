\* Nothing fails; a raw file grows too old.
CONSTANTS
    c1 = c1
    c2 = c2
    Loop = Loop
    Main = Main
    Clients = {c1}
    Ids = {1}
    Retains = {0, 1}
    RawDays = 0
    FlushMax = 2
    Cap = 1
    MaxDay = 2
    MaxRenders = 2
    Mishaps = {}
    MaxMishaps = 0
SPECIFICATION Spec
PROPERTY HistorySurvives
CHECK_DEADLOCK FALSE
