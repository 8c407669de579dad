SPECIFICATION FairSpec
CONSTANTS
  SourceHwm = 1
  DestHwm = 1
  MaxChunks = 2
  MaxReads = 3
  MaxReaders = 1
  MaxWrites = 2
  MaxWriters = 1
  Options <- SomeOptions
INVARIANTS PipesInOrder ReadChunksWritten SuccessMeansPiped
PROPERTIES PipeEnds
CHECK_DEADLOCK FALSE
