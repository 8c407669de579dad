CONSTANTS
    MaxTimers = 2
    MaxTasks = 1
    MaxTime = 3
    MaxDepth = 1
    Kinds = {"Timeout", "Interval", "Immediate"}
    Delays = {0, 1}
    MinSleep = 1
    ImmediateLead = 9
    ClearLead = 1
    Far = 100
    Handles = {}
    Requests = {}
    Importing = FALSE
    Uses = {"ref", "unref", "collect"}
SPECIFICATION Spec
PROPERTY ClearedNeverFires
