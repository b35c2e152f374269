------------------------------- MODULE Clock -------------------------------
(***************************************************************************)
(* CBaseReferenceClock (refclock.cpp) and its CAMSchedule (schedule.cpp):  *)
(* the reference clock COpenALStream inherits, its list of advise packets  *)
(* and the thread that notifies them.                                      *)
(*                                                                         *)
(* Clients ask to be notified at a time of the clock, once or again and    *)
(* again.  The thread sleeps until the first of these times; the event     *)
(* m_ev wakes it when its sleep has become too long, because a packet went *)
(* to the head of the list or because the clock was put forward.  Sleeps   *)
(* are measured by the system's clock, the packets by the private time,    *)
(* which clients may move both ways.                                       *)
(*                                                                         *)
(* The private time is counted in units of 0.5 ms, so that the code's      *)
(* 10000 (1 ms) is 2 and the 5000 of SetTimeDelta is 1; the system's time  *)
(* is counted in ms.                                                       *)
(***************************************************************************)
EXTENDS Integers, SequencesExt

CONSTANTS
  Times,     (* the times AdviseTime and AdvisePeriodic are called with    *)
  Periods,   (* the periods AdvisePeriodic is called with                  *)
  Deltas,    (* the deltas SetTimeDelta is called with                     *)
  MaxWait,   (* UINT_MAX, in ms: as a time-out it means INFINITE           *)
  CacheMax,  (* dwCacheMax                                                 *)
  MaxSys,    (* bound: system time; the clock is not adjusted after it     *)
  MaxNow,    (* bound: private time SetTimeDelta may set                   *)
  MaxCookie, (* bound: advise calls                                        *)
  MaxLate    (* bound: what the history variable late adds up to           *)

VARIABLES
  sys,         (* external: timeGetTime                                    *)
  skew,        (* m_rtPrivateTime less m_dwPrevSystemTime                  *)
  list,        (* the packets between head and z                           *)
  nextCookie,  (* m_dwNextCookie                                           *)
  count,       (* m_dwAdviseCount                                          *)
  cached,      (* m_dwCacheCount                                           *)
  ev,          (* m_ev, an event that resets itself                        *)
  abort,       (* m_bAbort                                                 *)
  life,        (* progress of the destructor                               *)
  pc,          (* where the advise thread is                               *)
  now,         (* rtNow of the thread                                      *)
  deadline,    (* system time at which its wait times out                  *)
  late         (* history: small deltas and delays since rtNow was read    *)

time     == <<sys, skew>>
schedule == <<list, nextCookie, count, cached>>
object   == <<abort, life>>
thread   == <<pc, now, deadline>>
vars     == <<time, schedule, ev, object, thread, late>>

Infinite == -1

(* GetPrivateTime, when called now: it adds to m_rtPrivateTime the time    *)
(* since m_dwPrevSystemTime, which leaves the difference of the two alone. *)
Now == 2 * sys + skew

Packets == [cookie : Nat, time : Nat, period : Periods \cup {0}]

InOrder(s) == \A i, j \in 1..Len(s) : i < j => s[i].time <= s[j].time

TypeOK ==
  /\ sys \in Nat /\ skew \in Int
  /\ list \in Seq(Packets)
  /\ nextCookie \in Nat
  /\ count = Len(list)
  /\ cached \in 0..CacheMax
  /\ ev \in BOOLEAN /\ abort \in BOOLEAN
  /\ life \in {"alive", "joining", "gone"}
  /\ pc \in {"wait", "woken", "advise", "ended"}
  /\ now \in Int
  /\ deadline \in Nat \cup {Infinite}
  /\ late \in Nat

Init ==
  /\ sys = 0 /\ skew = 0
  /\ list = << >> /\ nextCookie = 0 /\ count = 0 /\ cached = 0
  /\ ev = FALSE /\ abort = FALSE /\ life = "alive"
  /\ pc = "wait" /\ now = 0 /\ deadline = Infinite
  /\ late = 0

----------------------------------------------------------------------------
(* CAMSchedule.  Advise holds m_Serialize from its first to its last test, *)
(* which keeps the other methods out.                                      *)

Unlocked == pc # "advise"

(* Position i is the first whose packet is not due before time t.          *)
InsertsAt(i, t) ==
  /\ i \in 1..Len(list) + 1
  /\ \A j \in 1..i - 1 : list[j].time < t
  /\ i <= Len(list) => list[i].time >= t

(* Delete keeps a few packets for later.                                   *)
Delete == cached' = IF cached >= CacheMax THEN cached ELSE cached + 1

(* Faulty: leaves the thread asleep.                                       *)
AddQuietly(t, period) ==
  /\ life = "alive" /\ Unlocked /\ nextCookie < MaxCookie
  /\ nextCookie' = nextCookie + 1
  /\ \E i \in 1..Len(list) + 1 :
       /\ InsertsAt(i, t)
       /\ list' = InsertAt(list, i, [cookie |-> nextCookie', time |-> t, period |-> period])
       /\ ev' = ev
  /\ count' = count + 1
  /\ cached' = IF cached > 0 THEN cached - 1 ELSE 0
  /\ UNCHANGED <<time, object, thread, late>>

(* AdviseTime (period 0) and AdvisePeriodic: the packet goes before those  *)
(* due at the same time; only a new head wakes the thread.                 *)
AddAdvisePacket(t, period) ==
  /\ life = "alive" /\ Unlocked /\ nextCookie < MaxCookie
  /\ nextCookie' = nextCookie + 1
  /\ \E i \in 1..Len(list) + 1 :
       /\ InsertsAt(i, t)
       /\ list' = InsertAt(list, i, [cookie |-> nextCookie', time |-> t, period |-> period])
       /\ ev' = (ev \/ i = 1)
  /\ count' = count + 1
  /\ cached' = IF cached > 0 THEN cached - 1 ELSE 0
  /\ UNCHANGED <<time, object, thread, late>>

(* Faulty: leaves the packet in m_dwAdviseCount.                           *)
UnadviseUncounted(i) ==
  /\ life = "alive" /\ Unlocked
  /\ list' = RemoveAt(list, i)
  /\ Delete
  /\ UNCHANGED <<time, nextCookie, count, ev, object, thread, late>>

(* A cookie that is not in the list changes nothing (S_FALSE).             *)
Unadvise(i) ==
  /\ life = "alive" /\ Unlocked
  /\ list' = RemoveAt(list, i)
  /\ count' = count - 1
  /\ Delete
  /\ UNCHANGED <<time, nextCookie, ev, object, thread, late>>

----------------------------------------------------------------------------
(* The clock.                                                              *)

(* External: a millisecond passes.  Past MaxSys time goes on only while a  *)
(* packet is overdue, so that the bound hides no late notification.        *)
Overdue == pc = "wait" /\ ~ev /\ sys < deadline /\ list # << >> /\ list[1].time <= Now

Tick ==
  /\ sys < MaxSys \/ Overdue
  /\ pc = "advise" => late + 2 <= MaxLate
  /\ sys' = sys + 1
  /\ late' = IF pc = "advise" THEN late + 2 ELSE late
  /\ UNCHANGED <<skew, schedule, ev, object, thread>>

(* Faulty: wakes the thread when the clock is put back.                    *)
DeltaTriggersBack(d) ==
  /\ life = "alive"
  /\ sys < MaxSys /\ Now + d \in 0..MaxNow
  /\ skew' = skew + d
  /\ ev' = (ev \/ (d < -1 /\ count > 0))
  /\ late' = IF d = 1 THEN late + 1 ELSE late
  /\ late' <= MaxLate
  /\ UNCHANGED <<sys, schedule, object, thread>>

(* Only a step forward by more than 0.5 ms is worth waking the thread.     *)
SetTimeDelta(d) ==
  /\ life = "alive"
  /\ sys < MaxSys /\ Now + d \in 0..MaxNow
  /\ skew' = skew + d
  /\ ev' = (ev \/ (d > 1 /\ count > 0))
  /\ late' = IF d = 1 THEN late + 1 ELSE late
  /\ late' <= MaxLate
  /\ UNCHANGED <<sys, schedule, object, thread>>

(* Faulty: leaves the thread asleep.                                       *)
DestroyQuietly ==
  /\ life = "alive"
  /\ life' = "joining"
  /\ abort' = TRUE
  /\ UNCHANGED <<time, schedule, ev, thread, late>>

(* The destructor tells the thread to end and waits for it.                *)
Destroy ==
  /\ life = "alive"
  /\ life' = "joining"
  /\ abort' = TRUE
  /\ ev' = TRUE
  /\ UNCHANGED <<time, schedule, thread, late>>

Join ==
  /\ life = "joining" /\ pc = "ended"
  /\ life' = "gone"
  /\ UNCHANGED <<time, schedule, ev, abort, thread, late>>

----------------------------------------------------------------------------
(* AdviseThread.                                                           *)

(* WaitForSingleObject, ended by the event or by the time-out.             *)
Wake ==
  /\ pc = "wait"
  /\ ev \/ (deadline # Infinite /\ sys >= deadline)
  /\ ev' = FALSE
  /\ pc' = "woken"
  /\ UNCHANGED <<time, schedule, object, now, deadline, late>>

ReadTime ==
  /\ pc = "woken"
  /\ IF abort
     THEN /\ pc' = "ended"
          /\ UNCHANGED <<now, late>>
     ELSE /\ pc' = "advise"
          /\ now' = Now
          /\ late' = 0
  /\ UNCHANGED <<time, schedule, ev, object, deadline>>

(* The head is due within the millisecond a wait cannot resolve.           *)
HeadDue == list # << >> /\ list[1].time <= now + 2

FireOneShot ==
  /\ pc = "advise" /\ HeadDue /\ list[1].period = 0
  /\ list' = Tail(list)
  /\ count' = count - 1
  /\ Delete
  /\ UNCHANGED <<time, nextCookie, ev, object, thread, late>>

(* Faulty: the packet keeps its place in the list.                         *)
FireUnshunted ==
  /\ pc = "advise" /\ HeadDue /\ list[1].period # 0
  /\ list' = [list EXCEPT ![1].time = @ + list[1].period]
  /\ UNCHANGED <<time, nextCookie, count, cached, ev, object, thread, late>>

(* ShuntHead: after the packets due at the same time.                      *)
FirePeriodic ==
  /\ pc = "advise" /\ HeadDue /\ list[1].period # 0
  /\ LET t == list[1].time + list[1].period
         p == [list[1] EXCEPT !.time = t]
         rest == Tail(list)
     IN \E i \in 1..Len(rest) + 1 :
          /\ \A j \in 1..i - 1 : rest[j].time <= t
          /\ i <= Len(rest) => rest[i].time > t
          /\ list' = InsertAt(rest, i, p)
  /\ UNCHANGED <<time, nextCookie, count, cached, ev, object, thread, late>>

(* llWait in ms; no packet at all is as far away as MAX_TIME.              *)
Wait == (list[1].time - now) \div 2

AdviseReturns ==
  /\ pc = "advise" /\ ~HeadDue
  /\ deadline' = IF list = << >> \/ Wait >= MaxWait THEN Infinite ELSE sys + Wait
  /\ pc' = IF abort THEN "ended" ELSE "wait"
  /\ UNCHANGED <<time, schedule, ev, object, now, late>>

----------------------------------------------------------------------------
Clients ==
  \/ \E t \in Times, p \in Periods \cup {0} : AddAdvisePacket(t, p)
  \/ \E i \in 1..Len(list) : Unadvise(i)
  \/ \E d \in Deltas : SetTimeDelta(d)

Thread == Wake \/ ReadTime \/ FireOneShot \/ FirePeriodic \/ AdviseReturns

Next == Tick \/ Clients \/ Destroy \/ Join \/ Thread

Spec == Init /\ [][Next]_vars

(* Time passes, the thread runs and a destructor goes on.                  *)
FairSpec == Spec /\ WF_vars(Tick) /\ WF_vars(Thread) /\ WF_vars(Join)

----------------------------------------------------------------------------
(* The list is ordered by time, packets added and packets put back alike   *)
(* ("the elements that will expire first at the front").                   *)
Sorted == InOrder(list)

(* The thread never sleeps past the head of the list, whatever was added,  *)
(* removed, put back or adjusted since it went to sleep, except for the    *)
(* small deltas that do not wake it and its own delays; and it sleeps for  *)
(* ever only when the head was at least MaxWait away.                      *)
NoOversleep ==
  (pc = "wait" /\ ~ev /\ list # << >>) =>
    IF deadline = Infinite
    THEN list[1].time - now >= 2 * MaxWait
    ELSE Now + 2 * (deadline - sys) <= list[1].time + late

(* The list of the schedule and the thread that sleeps by it: ordered, and *)
(* never slept past.                                                       *)
ScheduleKept == TypeOK /\ Sorted /\ NoOversleep

(* Packet c is in the list for a time that has come.                      *)
Due(c) ==
  /\ life = "alive"
  /\ \E i \in 1..Len(list) : list[i].cookie = c /\ list[i].time <= Now

(* A packet whose time has come is notified, cancelled, or no longer due   *)
(* because the clock was put back.                                         *)
Notified == \A c \in 1..MaxCookie : Due(c) ~> ~Due(c)

(* The destructor gets past its wait for the thread.                       *)
DestructorReturns == life = "joining" ~> life = "gone"
=============================================================================
