\* Three deletes at once, of three tags that point to two manifests with a
\* shared file; nothing fails.
CONSTANTS
    s1 = s1
    s2 = s2
    a = a
    b = b
    d = d
    m1 = m1
    m2 = m2
    f1 = f1
    f2 = f2
    f3 = f3
    x = x
    None = None
    Clients = {a, b, d}
    Instances = {s1}
    Names = {x}
    Versions = {0, 1, 2}
    Manifests = {m1, m2}
    Files = {f1, f2, f3}
    FilesOf <- FileSets
    EntryOf <- Mains
    Offered = {"delete"}
    MaxCalls = 3
    MaxFaults = 0
SYMMETRY AlikeThree
SPECIFICATION Spec
INVARIANT BlobsAreCollected
CHECK_DEADLOCK FALSE
