CONSTANTS
  Desired = 1
  MaxSample = 1
  Bits = {b16}
  Tags = {t}
  NoData = NoData
SPECIFICATION FairSpec
INVARIANT StreamsAsTold
PROPERTIES MixerSpec CallsReturn
