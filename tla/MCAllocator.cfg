CONSTANTS
  Threads = {t1, t2, t3}
  MaxCount = 2
  MaxRefs = 2
  MaxTokens = 2
SPECIFICATION FairSpec
INVARIANTS NoLostWakeup PoolSafe
PROPERTIES ReallocWhenFree DecommitUnblocks
CHECK_DEADLOCK FALSE
