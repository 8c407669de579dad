CONSTANTS
    MaxTimers = 3
    MaxTasks = 1
    MaxTime = 5
    MaxDepth = 1
    Kinds = {"Timeout"}
    Delays = {0, 2}
    MinSleep = 1
    ImmediateLead = 9
    ClearLead = 1
    Far = 100
    Handles = {}
    Requests = {}
    Importing = FALSE
    Uses = {}
SPECIFICATION Spec
INVARIANT SleepCovers
PROPERTY ImplementsTimerQueue
