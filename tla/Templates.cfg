\* Two requests, at either of two processes, on two versions that share a
\* file; one failing storage call.
CONSTANTS
    s1 = s1
    s2 = s2
    a = a
    b = b
    d = d
    m1 = m1
    m2 = m2
    f1 = f1
    f2 = f2
    f3 = f3
    x = x
    None = None
    Clients = {a, b}
    Instances = {s1, s2}
    Names = {x}
    Versions = {0, 1}
    Manifests = {m1, m2}
    Files = {f1, f2, f3}
    FilesOf <- FileSets
    EntryOf <- Mains
    Offered = {"publish", "delete", "render", "source", "metadata", "list"}
    MaxCalls = 2
    MaxFaults = 1
SYMMETRY Alike
SPECIFICATION Spec
INVARIANTS
    TypeOK
    CollectionSparesTagged
    OrphansAreCollected
    OwnWriteIsSeen
    ListingIsComplete
PROPERTY LoadFailsOnlyWhenGone
CHECK_DEADLOCK FALSE
