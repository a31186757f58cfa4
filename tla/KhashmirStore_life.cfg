SPECIFICATION StoreSpec
CONSTANTS
    h1 = h1
    v1 = v1
    v2 = v2
    v3 = v3
    Hosts = {h1}
    Values = {v1, v2, v3}
    Size <- MCSize
    Overhead = 2
    UDP_PACKET_LIMIT = 11
    NoTime = NoTime
    KEY_EXPIRE = 1
    FirstCheckpoint = 1
    MinInterval = 1
    MaxInterval = 2
CHECK_DEADLOCK FALSE
INVARIANTS
    TokenLifetime
    NothingOutdated
    ReplyIsLongest
