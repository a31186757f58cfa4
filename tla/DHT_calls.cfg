SPECIFICATION Spec
CONSTANTS
    j1 = j1
    j2 = j2
    g1 = g1
    g2 = g2
    s1 = s1
    s2 = s2
    k1 = k1
    v1 = v1
    p1 = p1
    Joins = {j1, j2}
    Gets = {g1, g2}
    Stores = {s1, s2}
    Keys = {k1}
    Values = {v1}
    Pairs = {p1}
    Bootstraps = 2
    None = None
    MaxContacts = 3
    MaxSearches = 2
CHECK_DEADLOCK FALSE
INVARIANTS
    NothingForgotten
PROPERTIES
    OnceSafety
    CallsEnd
