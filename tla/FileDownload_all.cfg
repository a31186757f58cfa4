SPECIFICATION Spec
CONSTANTS
    a = a
    b = b
    Sites = {a, b}
    Mirror = Mirror
    DHT = DHT
    N = 2
    MAX_OUTSTANDING = 2
    MIN_DOWNLOAD_PEERS = 2
    MAX_ERRORS = 2
    Lookups = {"direct", "dht", "peers"}
CHECK_DEADLOCK FALSE
INVARIANTS
    OneTransferPerPiece
    ServedIsVerified
    GivesUpLast
PROPERTIES
    DownloadConcludes
