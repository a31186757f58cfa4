SPECIFICATION Spec
CONSTANTS
    Nodes = {0, 1, 2, 3, 4}
    Own = 3
    Values = {v, w}
    v = v
    w = w
    Kinds = {"find", "get", "store"}
    K = 3
    CONCURRENT_REQS = 2
    STORE_REDUNDANCY = 2
    RETRIEVE_VALUES <- AllFromClosest
    MaxValues = 2
CHECK_DEADLOCK FALSE
INVARIANTS
    SearchIsThorough
    ShortfallIsExhausted
    NeverOverstores
PROPERTIES
    ActionEnds
