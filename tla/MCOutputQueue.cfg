CONSTANTS
  BatchSize = 2
  MaxItems = 3
  MaxList = 2
SPECIFICATION FairSpec
INVARIANT QueueAwake
PROPERTIES FifoSpec EndFlushReturns
CHECK_DEADLOCK FALSE
