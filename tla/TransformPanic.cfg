SPECIFICATION Spec
CONSTANTS
  WritableHwm = 1
  ReadableHwm = 0
  MaxWrites = 2
  MaxChunks = 2
  MaxReads = 2
  MaxReaders = 1
  MaxWriters = 1
INVARIANT
  TransformAlgorithmExists
CHECK_DEADLOCK FALSE
