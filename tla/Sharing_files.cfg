SPECIFICATION Spec
CONSTANTS
    c1 = c1
    o1 = o1
    h1 = h1
    h2 = h2
    CacheFiles = {c1}
    OtherFiles = {o1}
    Hashes = {h1, h2}
    Partial = Partial
    None = None
INVARIANTS
    DatabaseIsSound
    NeverStoredTwice
PROPERTIES
    DueIsAnnounced
    ScanIsFinite
