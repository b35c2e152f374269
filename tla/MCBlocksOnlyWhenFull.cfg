CONSTANTS
  NumBuffers = 3
  Latency = 64
  Formats <- TwoFormats
  NoData = NoData
SPECIFICATION Spec
INVARIANT BlocksOnlyWhenFull
CHECK_DEADLOCK FALSE
