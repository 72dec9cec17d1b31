SPECIFICATION FairSpec
CONSTANTS
    small = small
    big = big
    MaxOut = 2
    MaxErr = 1
    MaxIn = 2
    MaxInbox = 1
    Burst = 2
    Chunk = 1
    BufSize = 3
    Sizes = {small, big}
    Default = small
    Wide = TRUE
INVARIANTS
    TypeOK
    KeysInOrder
    PtyFollowsWindow
    ReturnReleasesAll
    OnlyStderrCollides
PROPERTIES
    ImplementsSession
    SessionEnds
    NoGoroutineStays
CHECK_DEADLOCK FALSE
