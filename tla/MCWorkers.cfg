CONSTANTS
  Desired = 2
  MaxSample = 2
  Bits = {b16, b32}
  Tags = {t}
  NoData = NoData
  ss_Pins <- TwoPins
  ss_FaultsMax = 2
  pp_Length = 4
  pp_Align = 2
  pp_cbBuffer = 2
  pp_cBuffers = 2
  pp_Seeks = 1
  mt_Messages = {m1, m2, m3}
  mt_Last = m3
  sc_MaxTime = 1
  dp_Callers = {c1, c2, c3}
  dp_Streams = {s1}
  tf_cBuffers = 1
  sk_Callers = {c1, c2}
  sk_Duration = 2
  sk_Seeks = 2
  cq_Cmds = {c1}
  cq_MaxTime = 2
  cq_Clocks = 1
  cq_Runs = 1
  cq_Offset = 1
  cq_INFINITE = FALSE
SPECIFICATION MCSpec
INVARIANTS NoMutualWait QueueSound StoppedIsQuiet HandedOverInOrder BlockValid
INVARIANTS SeekSettles
PROPERTIES DueIsDone CallsReturn StreamingGetsOn
CHECK_DEADLOCK FALSE
