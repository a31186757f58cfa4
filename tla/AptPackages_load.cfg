SPECIFICATION PackagesSpec
CONSTANTS
    r1 = r1
    r2 = r2
    r3 = r3
    Reqs = {r1, r2, r3}
    MaxChanges = 3
CHECK_DEADLOCK FALSE
INVARIANTS
    OneLoadAtATime
PROPERTIES
    WaitersGetFresh
    EveryoneIsAnswered
