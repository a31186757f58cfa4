SPECIFICATION Spec
CONSTANTS
    r1 = r1
    r2 = r2
    r3 = r3
    m1 = m1
    m2 = m2
    i1 = i1
    Requests = {r1, r2, r3}
    Packages = {m1, m2}
    Indexes = {i1}
    File = File
    Bad = Bad
    Other = Other
    None = None
    MaxVersion = 2
CHECK_DEADLOCK FALSE
INVARIANTS
    MirrorIsLast
PROPERTIES
    CacheIsRight
    OnceSpec
