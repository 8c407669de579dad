CONSTANTS
    MaxTimers = 2
    MaxTasks = 1
    MaxTime = 5
    MaxDepth = 1
    Kinds = {"Timeout"}
    Delays = {0, 3}
    MinSleep = 1
    ImmediateLead = 9
    ClearLead = 1
    Far = 100
    Handles = {h1}
    Requests = {}
    Importing = FALSE
    Uses = {"ref", "unref", "collect"}
SPECIFICATION Spec
INVARIANT LoopNeverOversleeps
