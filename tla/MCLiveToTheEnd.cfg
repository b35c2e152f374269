CONSTANTS
  Threads = {t1, t2}
  MaxCount = 2
  MaxRefs = 2
  MaxTokens = 2
SPECIFICATION Spec
CHECK_DEADLOCK FALSE
INVARIANT LiveToTheEnd
