SPECIFICATION PeerSpec
CONSTANTS
    r1 = r1
    r2 = r2
    r3 = r3
    r4 = r4
    Reqs = {r1, r2, r3, r4}
    MaxScheduled = 5
CHECK_DEADLOCK FALSE
INVARIANTS
    PendingIsHeld
    NeverForgotten
PROPERTIES
    OnceSpec
