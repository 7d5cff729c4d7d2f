\* Deletes; one read of a collection fails.
CONSTANTS
    s1 = s1
    s2 = s2
    a = a
    b = b
    d = d
    m1 = m1
    m2 = m2
    f1 = f1
    f2 = f2
    f3 = f3
    x = x
    None = None
    Clients = {a, b}
    Instances = {s1, s2}
    Names = {x}
    Versions = {0, 1}
    Manifests = {m1, m2}
    Files = {f1, f2, f3}
    FilesOf <- FileSets
    EntryOf <- Mains
    Offered = {"delete", "render"}
    MaxCalls = 2
    MaxFaults = 1
SPECIFICATION Spec
INVARIANT CollectionSparesReferenced
CHECK_DEADLOCK FALSE
