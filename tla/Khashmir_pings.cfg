SPECIFICATION Spec
CONSTANTS
    n1 = n1
    n2 = n2
    Nodes = {n1, n2}
    None = None
    K = 1
    MAX_FAILURES = 2
    MaxWaiting = 2
CHECK_DEADLOCK FALSE
INVARIANTS
    OnePingPerNode
    FailedIsWatched
PROPERTIES
    FailedIsSettled
