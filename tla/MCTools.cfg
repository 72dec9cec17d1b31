SPECIFICATION Spec
CONSTANTS
    s1 = s1
    s2 = s2
    s3 = s3
    None = None
    Servers = {s1, s2, s3}
    MaxCalls = 2
    MaxRuns = 2
INVARIANTS
    TypeOK
    NewestRowsOfSelected
    EveryTargetReported
SYMMETRY Symmetry
