SPECIFICATION Spec
CONSTANTS
  Samples <- MCSamples
  NoSample = NoSample
  MaxTime = 2
  DeliveryWait = 2
  Cookies = {1, 2}
INVARIANT PauseIsWhole
PROPERTIES NeverEarly CompleteAfterLast CallsReturn
CHECK_DEADLOCK FALSE
