SPECIFICATION LCFairSpec
CONSTANTS
    w1 = w1
    w2 = w2
    Windows = {w1, w2}
    Desktop = TRUE
    Limit = 5
    MaxOpening = 1
    Behaviours = {"browse", "close", "kill", "reload", "export", "hide", "dialog"}
INVARIANTS
    LCTypeOK
PROPERTIES
    MonitorSparesVisible
    AbandonedServerEnds
