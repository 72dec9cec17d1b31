SPECIFICATION MCSpec
CONSTANTS
    i1 = i1
    i2 = i2
    None = None
    Ids = {i1, i2}
    MaxLoads = 2
    MaxWrites = 1
INVARIANTS
    TypeOK
    NewestListIsFresh
    FormShowsItsCredential
PROPERTIES
    ServersConverge
