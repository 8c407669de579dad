SPECIFICATION FairSpec
CONSTANTS
  HighWaterMark = 1
  MaxWrites = 3
  MaxWriters = 2
  MaxDepth = 2
  Sizes <- AllSizes
INVARIANTS RequestsMatchQueue FinishedSettles WritesSucceedInOrder PunctualWriterFollows
PROPERTIES RequestsSettle
CHECK_DEADLOCK FALSE
