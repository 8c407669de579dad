SPECIFICATION Spec
CONSTANTS
    c1 = c1
    c2 = c2
    Conns = {c1, c2}
    MaxRequests = 1
    MaxBody = 1
    RequestTimeout = 0
    KeepAlive = FALSE
    Uses = {"closeAll"}
SYMMETRY ConnSymmetry
INVARIANT InflightExact
