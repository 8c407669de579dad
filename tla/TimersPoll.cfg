CONSTANTS
    MaxTimers = 2
    MaxTasks = 1
    MaxTime = 2
    MaxDepth = 2
    Kinds = {"Timeout"}
    Delays = {0}
    MinSleep = 1
    ImmediateLead = 9
    ClearLead = 1
    Far = 100
    Handles = {}
    Requests = {req}
    Importing = TRUE
    Uses = {"ref", "unref", "collect"}
SPECIFICATION Spec
INVARIANTS TypeOK RefsExact FiresAtMostOnce
CHECK_DEADLOCK FALSE
