SPECIFICATION Spec
CONSTANTS
    s1 = s1
    s2 = s2
    s3 = s3
    NoServer = NoServer
    Servers = {s1, s2, s3}
    MaxSockets = 3
    MaxPastes = 1
    MaxBlocks = 2
    MaxKeys = 1
INVARIANTS
    TypeOK
    EveryConnectionHasItsTab
    BarTellsTruth
    PasteStaysTogether
SYMMETRY Symmetry
CHECK_DEADLOCK FALSE
