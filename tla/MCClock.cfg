CONSTANTS
  cl_Times = {2, 4}
  cl_Periods = {3}
  cl_Deltas <- SomeDeltas
  cl_MaxWait = 20
  cl_CacheMax = 1
  cl_MaxSys = 2
  cl_MaxNow = 5
  cl_MaxCookie = 2
  cl_MaxLate = 2
  en_Items = {o1, o2}
  en_Versions = 2
  en_Most = 2
  li_Lists = {l1, l2}
  li_Objects = {o1, o2}
  li_N = 3
  li_CacheSize = 1
SPECIFICATION MCSpec
INVARIANTS ScheduleKept ListsSound
PROPERTIES InListOrder Notified DestructorReturns
CHECK_DEADLOCK FALSE
