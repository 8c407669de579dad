SPECIFICATION Spec
CONSTANTS
  HighWaterMark = 1
  MaxChunks = 1
  MaxReads = 1
  MaxReaders = 1
  MaxDepth = 1
  Sizes <- UnitSizes
INVARIANT
  ReleaseSettlesReads
CHECK_DEADLOCK FALSE
