SPECIFICATION RecoveringSpec
CONSTANTS
    i1 = i1
    k1 = k1
    k2 = k2
    p1 = p1
    p2 = p2
    c1 = c1
    c2 = c2
    c3 = c3
    Ids = {i1}
    Cfgs = {k1, k2}
    BadKeys = {k2}
    MayStall = {k1}
    Reqs = {p1, p2}
    Conns = {c1, c2, c3}
    NoCfg = noCfg
    NoConn = noConn
    NoReq = noReq
    NoId = noId
PROPERTIES
    EveryRequestGetsPast
