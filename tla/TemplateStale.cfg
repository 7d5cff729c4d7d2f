\* Two publishes of a tag at one process; nothing fails.
CONSTANTS
    s1 = s1
    s2 = s2
    a = a
    b = b
    d = d
    m1 = m1
    m2 = m2
    f1 = f1
    f2 = f2
    f3 = f3
    x = x
    None = None
    Clients = {a, b}
    Instances = {s1}
    Names = {x}
    Versions = {0}
    Manifests = {m1, m2}
    Files = {f1, f2, f3}
    FilesOf <- FileSets
    EntryOf <- Mains
    Offered = {"publish"}
    MaxCalls = 2
    MaxFaults = 0
SPECIFICATION Spec
INVARIANT RepublishIsSeen
CHECK_DEADLOCK FALSE
