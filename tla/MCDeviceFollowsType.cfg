CONSTANTS
  Types <- MCTypes
  Foreign <- MCForeign
  Offered <- MCOffered
  Layouts <- MCLayouts
  Bits <- MCBits
  Default <- MCDefault
  Unknown = unknown
  NoType = notype
  vw_Palettes = {o1, o2}
  vw_Samples = {s1}
  vw_Changes = 3
  wc_Coordinates = {0, 1}
  wc_Origin = 3
  wc_Screen = 5
  vc_Half = 4
  vc_Images <- MCImages
  vc_Extents <- MCExtents
  vq_Duration = 400
  vq_Advances = {0, 600, 6000}
  vq_DrawTimes = {10, 2000}
  vq_Proportions = {100, 1000}
  vq_Frames = 4
  vt_Wait = 3
  vt_Frame = 1
  vt_Silly = 4
  vt_PeriodMax = 4
  cq_Cmds = {o1, o2}
  cq_MaxTime = 2
  cq_Clocks = 1
  cq_Runs = 1
  cq_Offset = 1
  cq_INFINITE = FALSE
  sc_MaxTime = 2
  ol_Threads = {t1, t2}
  ol_Objects = {o1}
  ol_RefsMax = 2
  ol_LocksMax = 1
  md_Width = 2
  my_Types = {o1, o2}
  my_FormatTypes = {"wave"}
  my_Formats <- MCFormats
  my_Blocks = 3
  my_LostMax = 1
  rg_N = 3
  rg_Filters = {1, 3}
  ba_Callers = {t1, t2}
  ba_Volumes <- MCVolumes
  ba_Balances <- MCBalances
  ba_Libraries <- MCLibraries
SPECIFICATION PinSpec
INVARIANT DeviceFollowsType
CHECK_DEADLOCK FALSE
