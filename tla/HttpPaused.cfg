SPECIFICATION FairSpec
CONSTANTS
    c1 = c1
    Conns = {c1}
    MaxRequests = 1
    MaxBody = 1
    RequestTimeout = 0
    KeepAlive = FALSE
    Uses = {"pause", "destroy"}
PROPERTY Answered
