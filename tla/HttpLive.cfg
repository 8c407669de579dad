SPECIFICATION FairSpec
CONSTANTS
    c1 = c1
    c2 = c2
    Conns = {c1, c2}
    MaxRequests = 1
    MaxBody = 1
    RequestTimeout = 2
    KeepAlive = FALSE
    Uses = {"closeAll", "destroy", "continue", "upgrade"}
PROPERTY Answered
PROPERTY ShutdownCompletes
