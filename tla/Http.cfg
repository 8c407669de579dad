SPECIFICATION Spec
CONSTANTS
    c1 = c1
    c2 = c2
    Conns = {c1, c2}
    MaxRequests = 2
    MaxBody = 1
    RequestTimeout = 0
    KeepAlive = TRUE
    Uses = {"unref", "closeAll", "closeIdle", "pause", "resume"}
SYMMETRY ConnSymmetry
INVARIANT TypeOK
INVARIANT CloseNotLost
INVARIANT CloseMeansQuiet
INVARIANT LockSound
PROPERTY IdleSparesRequests
