SPECIFICATION Spec
CONSTANTS
    i1 = i1
    i2 = i2
    k1 = k1
    k2 = k2
    p1 = p1
    p2 = p2
    c1 = c1
    c2 = c2
    c3 = c3
    c4 = c4
    Ids = {i1, i2}
    Cfgs = {k1, k2}
    BadKeys = {}
    MayStall = {}
    Reqs = {p1, p2}
    Conns = {c1, c2, c3, c4}
    NoCfg = noCfg
    NoConn = noConn
    NoReq = noReq
    NoId = noId
SYMMETRY Symmetry
INVARIANTS
    RunsWhereConfigured
