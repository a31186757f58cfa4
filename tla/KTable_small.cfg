SPECIFICATION TableSpec
CONSTANTS
    Bits = 4
    K = 2
    Own = 5
    Nodes = {4, 6, 7, 9, 10, 13}
    MAX_FAILURES = 2
    True = True
    False = False
    Full = Full
VIEW View
INVARIANTS
    TableIsSound
    FindNodesReliable
PROPERTIES
    InsertContract
