SPECIFICATION FairSpec
CONSTANTS
    c1 = c1
    Conns = {c1}
    MaxRequests = 1
    MaxBody = 0
    RequestTimeout = 2
    KeepAlive = FALSE
    Uses = {}
PROPERTY BodyTimesOut
