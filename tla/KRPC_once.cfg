SPECIFICATION Spec
CONSTANTS
    c1 = c1
    c2 = c2
    r1 = r1
    r2 = r2
    Conns = {c1, c2}
    Reqs = {r1, r2}
    None = None
    Off = Off
    KRPC_TIMEOUT = 3
    KRPC_INITIAL_DELAY = 1
    MaxLate = 1
    Reentrant = FALSE
INVARIANTS
    PendingIsYoung
PROPERTIES
    OnceSpec
