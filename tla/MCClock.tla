------------------------------ MODULE MCClock -------------------------------
(***************************************************************************)
(* What is kept in the order of a list: the advise packets of the clock    *)
(* (Clock), the pins and types an enumerator goes through (Enumerators)    *)
(* and the lists of the base classes (List).  They share nothing, so that  *)
(* a behaviour is about one of them, chosen at the start.  The names are   *)
(* nobody else's, so that proofs may speak of the clock next to the        *)
(* renderer that is advised by it (RendererProofs).                        *)
(***************************************************************************)
EXTENDS Integers, FiniteSets

CONSTANTS
  cl_Times,     \* the times AdviseTime and AdvisePeriodic are called with
  cl_Periods,   \* the periods AdvisePeriodic is called with
  cl_Deltas,    \* the deltas SetTimeDelta is called with
  cl_MaxWait,   \* UINT_MAX, in ms
  cl_CacheMax,  \* dwCacheMax
  cl_MaxSys, cl_MaxNow, cl_MaxCookie, cl_MaxLate,  \* bounds: see Clock
  \* enumerators: the pins or types, bounds on the versions and on how many are asked for
  en_Items, en_Versions, en_Most,
  \* lists: the lists, what is in them, the nodes there are, the size of the cache
  li_Lists, li_Objects, li_N, li_CacheSize

ASSUME TimesAssumption   == cl_Times \subseteq Nat \ {0}
ASSUME PeriodsAssumption == cl_Periods \subseteq Nat \ {0}
ASSUME DeltasAssumption  == cl_Deltas \subseteq Int
ASSUME MaxWaitAssumption == cl_MaxWait \in Nat
ASSUME CacheAssumption   == cl_CacheMax \in Nat
ASSUME ListAssumption    == li_N \in Nat /\ li_CacheSize \in Nat

\* In units of 0.5 ms: a large step back, a step too small to wake the thread, and
\* one that is not.
SomeDeltas == {-2, 1, 2}

VARIABLES
  unit,  \* the unit this behaviour is about
  cl_sys, cl_skew, cl_list, cl_nextCookie, cl_count, cl_cached, cl_ev,
  cl_abort, cl_life, cl_pc, cl_now, cl_deadline, cl_late,
  en_kind, en_list, en_version, en_changing, en_enum,
  li_h

clVars ==
  <<cl_sys, cl_skew, cl_list, cl_nextCookie, cl_count, cl_cached, cl_ev,
    cl_abort, cl_life, cl_pc, cl_now, cl_deadline, cl_late>>
enVars ==
  <<en_kind, en_list, en_version, en_changing, en_enum>>
liVars ==
  <<li_h>>

CL == INSTANCE Clock WITH
  Times <- cl_Times, Periods <- cl_Periods, Deltas <- cl_Deltas,
  MaxWait <- cl_MaxWait, CacheMax <- cl_CacheMax, MaxSys <- cl_MaxSys,
  MaxNow <- cl_MaxNow, MaxCookie <- cl_MaxCookie, MaxLate <- cl_MaxLate,
  sys <- cl_sys, skew <- cl_skew, list <- cl_list,
  nextCookie <- cl_nextCookie, count <- cl_count, cached <- cl_cached,
  ev <- cl_ev, abort <- cl_abort, life <- cl_life, pc <- cl_pc,
  now <- cl_now, deadline <- cl_deadline, late <- cl_late

EN == INSTANCE Enumerators WITH
  Items <- en_Items, Versions <- en_Versions, Most <- en_Most,
  kind <- en_kind, list <- en_list, version <- en_version,
  changing <- en_changing, enum <- en_enum

LI == INSTANCE List WITH
  Lists <- li_Lists, Objects <- li_Objects, N <- li_N,
  CacheSize <- li_CacheSize, h <- li_h

all == <<unit, clVars, enVars, liVars>>

\* A unit that rests has one initial state.
MCInit ==
  /\ unit \in {"clock", "enumerators", "list"}
  /\ CL!Init
  /\ EN!Init /\ (unit # "enumerators" => en_kind = "pins" /\ en_list = CHOOSE l \in EN!Lists : TRUE)
  /\ LI!Init

\* The other units rest.
Rest ==
  /\ UNCHANGED unit
  /\ IF unit = "clock" THEN TRUE ELSE UNCHANGED clVars
  /\ IF unit = "enumerators" THEN TRUE ELSE UNCHANGED enVars
  /\ IF unit = "list" THEN TRUE ELSE UNCHANGED liVars

MCNext ==
  \/ unit = "clock" /\ CL!Next /\ Rest
  \/ unit = "enumerators" /\ EN!Next /\ Rest
  \/ unit = "list" /\ LI!Next /\ Rest

\* The fairness each module states (its Fairness), of the unit that acts.
MCFairness ==
  /\ WF_clVars(unit = "clock" /\ CL!Tick)
  /\ WF_clVars(unit = "clock" /\ CL!Thread)
  /\ WF_clVars(unit = "clock" /\ CL!Join)

MCSpec == MCInit /\ [][MCNext]_all /\ MCFairness

-----------------------------------------------------------------------------

\* The list of the schedule and the thread that sleeps by it: ordered, and never
\* slept past.
ScheduleKept == CL!ScheduleKept

\* A packet whose time has come is notified, cancelled, or no longer due because
\* the clock was put back.
Notified == CL!Notified

\* The destructor gets past its wait for the thread.
DestructorReturns == CL!DestructorReturns

\* An enumerator gives every pin of a filter that does not change meanwhile, and
\* types of one list only.  Every node of a list is in that list or in its cache,
\* once, and the chain backwards is the chain forwards reversed.
ListsSound ==
  /\ unit = "enumerators" => EN!EnumerationSound
  /\ unit = "list" => LI!Sound

\* The lists change as module ListSpec says.
InListOrder == [][unit = "list" => [LI!S!Next]_LI!objects]_all
=============================================================================
