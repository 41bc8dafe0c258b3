CONSTANTS
    r1 = r1
    r2 = r2
    r3 = r3
    p1 = p1
    p2 = p2
    Requests = {r1, r2, r3}
    Server = server
    Pools = {p1, p2}
    NoPool = none
    NoOne = nobody
SPECIFICATION FairSpec
PROPERTY ClosedPoolIsDropped
CHECK_DEADLOCK FALSE
