SPECIFICATION Spec
CONSTANTS
    p1 = p1
    p2 = p2
    Works = {w1}
    Threads = {t1}
    Payloads <- SomePayloads
    MaxQueues = {0, 1}
    MaxRerefs = 1
    Uses = {"cancel", "abort", "unref"}
SYMMETRY PayloadSymmetry
INVARIANTS CountersExact PayloadsConserved CompletionHonest DisposeSucceeds
