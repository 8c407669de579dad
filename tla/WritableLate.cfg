SPECIFICATION Spec
CONSTANTS
  HighWaterMark = 1
  MaxWrites = 1
  MaxWriters = 2
  MaxDepth = 1
  Sizes <- UnitSizes
INVARIANT
  ClosedStreamResolvesWriter
CHECK_DEADLOCK FALSE
