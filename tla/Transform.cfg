SPECIFICATION FairSpec
CONSTANTS
  WritableHwm = 1
  ReadableHwm = 0
  MaxWrites = 2
  MaxChunks = 3
  MaxReads = 2
  MaxReaders = 1
  MaxWriters = 1
INVARIANTS SinkFollowsStream
PROPERTIES ReadReleasesWrite
CHECK_DEADLOCK FALSE
