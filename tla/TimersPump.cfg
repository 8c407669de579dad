CONSTANTS
    MaxTimers = 2
    MaxTasks = 2
    MaxTime = 3
    MaxDepth = 1
    Kinds = {"Timeout"}
    Delays = {0}
    MinSleep = 1
    ImmediateLead = 9
    ClearLead = 1
    Far = 100
    Handles = {}
    Requests = {req}
    Importing = FALSE
    Uses = {"ref", "unref", "collect"}
SPECIFICATION Spec
INVARIANT LoopStaysUp
CHECK_DEADLOCK FALSE
