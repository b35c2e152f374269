CONSTANTS
  NumBuffers = 3
  Latency = 64
  Formats <- TwoFormats
  NoData = NoData
SPECIFICATION FairSpec
INVARIANT RingSafe
PROPERTIES SoundComesOut DestructorReturns
CHECK_DEADLOCK FALSE
