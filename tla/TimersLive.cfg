CONSTANTS
    MaxTimers = 2
    MaxTasks = 2
    MaxTime = 2
    MaxDepth = 1
    Kinds = {"Timeout", "Interval", "Immediate"}
    Delays = {0}
    MinSleep = 1
    ImmediateLead = 9
    ClearLead = 1
    Far = 100
    Handles = {sock}
    Requests = {}
    Importing = FALSE
    Uses = {"unref"}
SPECIFICATION FairSpec
INVARIANTS ParkedLoopReleased RunningMeansOneLoop
PROPERTIES ImmediateFirst HookOrder TimerFires Drains
