SPECIFICATION FairSpec
CONSTANTS
    i1 = i1
    i2 = i2
    h1 = h1
    h2 = h2
    None = none
    Ids = {i1, i2}
    Hosts = {h1, h2}
    MaxChanges = 1
INVARIANTS
    TypeOK
    EveryEntryAnswered
    RoundTellsTruth
PROPERTIES
    StatusConverges
