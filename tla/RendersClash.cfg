\* Nothing fails; an output that is due is rendered again while prune is at work.
CONSTANTS
    c1 = c1
    c2 = c2
    Loop = Loop
    Main = Main
    Clients = {c1}
    Ids = {1}
    Retains = {0, 1}
    RawDays = 0
    FlushMax = 2
    Cap = 1
    MaxDay = 2
    MaxRenders = 2
    Mishaps = {}
    MaxMishaps = 0
SPECIFICATION Spec
PROPERTY OnlyDueArePruned
CHECK_DEADLOCK FALSE
