SPECIFICATION FairSpec
CONSTANTS
  HighWaterMark = 1
  MaxChunks = 3
  MaxReads = 3
  MaxReaders = 2
  MaxDepth = 1
  Sizes <- AllSizes
INVARIANTS ChunksConserved ReadsInOrder ReaderEndsWithStream
PROPERTIES ReadsAreServed
CHECK_DEADLOCK FALSE
