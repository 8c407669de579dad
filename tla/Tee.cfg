SPECIFICATION TeeSpec
CONSTANTS
  SourceHwm = 0
  MaxChunks = 2
  MaxReads = 2
  MaxReaders = 1
INVARIANTS BranchesGetEveryChunk DemandNotLost CancelReachesSource
CHECK_DEADLOCK FALSE
