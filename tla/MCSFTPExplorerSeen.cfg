SPECIFICATION Spec
CONSTANTS
    s1 = s1
    s2 = s2
    NoServer = NoServer
    Servers = {s1, s2}
    DirNames = {"d", "e"}
    FileNames = {"f", "g"}
    Depth = 2
    Home <- MCHome
    StartTree <- MCStartTree
    MaxAsks = 3
    MaxCalls = 2
    MaxOpens = 1
INVARIANTS
    ActsOnWhatIsSeen
SYMMETRY Symmetry
CHECK_DEADLOCK FALSE
