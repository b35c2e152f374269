CONSTANTS
  Desired = 1
  MaxSample = 1
  Bits = {b16}
  Tags = {t}
  NoData = NoData
SPECIFICATION Spec
PROPERTY FlushRejects
