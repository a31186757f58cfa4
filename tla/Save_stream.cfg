SPECIFICATION SaveSpec
CONSTANTS
    d1 = d1
    d2 = d2
    Downloads = {d1, d2}
    NotSHA1 = {d2}
    NoFile = NoFile
    Length = 2
    PIECE_SIZE = 1
    CHUNK_SIZE = 1
    MaxData = 2
CHECK_DEADLOCK FALSE
INVARIANTS
    EndIsComplete
    PiecesAreWhole
    RowIsTrue
    FailedIsRemoved
PROPERTIES
    ReadsAreAnswered
