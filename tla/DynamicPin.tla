----------------------------- MODULE DynamicPin -----------------------------
(***************************************************************************)
(* CDynamicOutputPin (amfilter.cpp): an output pin whose connection may be *)
(* changed while data flows.  The streaming threads say when they begin    *)
(* and end to use the pin; applications block it, and wait until the last  *)
(* user is gone, before they change what is connected to it.  The state of *)
(* the block is guarded by m_BlockStateLock, which nobody holds while he   *)
(* waits.                                                                  *)
(***************************************************************************)
EXTENDS Integers, FiniteSets

CONSTANTS Callers,  \* application threads
          Streams   \* streaming threads; of two, one may always be using the pin

Nobody == "nobody"

VARIABLES
  block,    \* m_BlockState
  notify,   \* whose event m_hNotifyCallerPinBlockedEvent duplicates
  caller,   \* m_dwBlockCallerThreadID
  users,    \* m_dwNumOutstandingOutputPinUsers
  unblock,  \* m_hUnblockOutputPinEvent, reset by hand
  stop,     \* m_hStopEvent, reset by hand
  cpc,      \* caller -> "idle" or "wait", in SynchronousBlockOutputPin
  event,    \* caller -> the event it waits for is set
  spc,      \* streaming thread -> "out", "wait" or "in"
  granted   \* history: the caller who has been told the pin is blocked

blocking == <<block, notify, caller, unblock, granted>>
vars == <<blocking, users, stop, cpc, event, spc>>

Init ==
  /\ block = "NOT_BLOCKED" /\ notify = Nobody /\ caller = Nobody
  /\ users = 0 /\ unblock = TRUE /\ stop = FALSE
  /\ cpc = [c \in Callers |-> "idle"] /\ event = [c \in Callers |-> FALSE]
  /\ spc = [s \in Streams |-> "out"]
  /\ granted = Nobody

-----------------------------------------------------------------------------
(* Block: SynchronousBlockOutputPin, AsynchronousBlockOutputPin,           *)
(* UnblockOutputPin.                                                       *)

BlockOutputPin(c) ==
  /\ unblock' = FALSE
  /\ event' = [event EXCEPT ![c] = TRUE]
  /\ block' = "BLOCKED" /\ notify' = Nobody /\ granted' = c

\* Faulty: does not look whether the pin is in use.
BlockAtOnce(c) ==
  /\ cpc[c] = "idle" /\ block = "NOT_BLOCKED"
  /\ caller' = c
  /\ unblock' = FALSE
  /\ event' = [event EXCEPT ![c] = TRUE]
  /\ block' = "BLOCKED" /\ notify' = Nobody /\ granted' = c
  /\ cpc' = [cpc EXCEPT ![c] = "wait"]
  /\ UNCHANGED <<users, stop, spc>>

\* A pin in use is blocked when the last user leaves it.
Block(c) ==
  /\ cpc[c] = "idle" /\ block = "NOT_BLOCKED"
  /\ caller' = c
  /\ IF users = 0
       THEN BlockOutputPin(c)
       ELSE /\ block' = "PENDING" /\ notify' = c
            /\ event' = [event EXCEPT ![c] = FALSE]
            /\ UNCHANGED <<unblock, granted>>
  /\ cpc' = [cpc EXCEPT ![c] = "wait"]
  /\ UNCHANGED <<users, stop, spc>>

BlockReturns(c) ==
  /\ cpc[c] = "wait" /\ event[c]
  /\ event' = [event EXCEPT ![c] = FALSE]
  /\ cpc' = [cpc EXCEPT ![c] = "idle"]
  /\ UNCHANGED <<blocking, users, stop, spc>>

\* Faulty: forgets who waits for a block that is still pending.
UnblockOnly(c) ==
  /\ cpc[c] = "idle" /\ block # "NOT_BLOCKED"
  /\ unblock' = TRUE
  /\ block' = "NOT_BLOCKED" /\ caller' = Nobody /\ notify' = Nobody /\ granted' = Nobody
  /\ UNCHANGED <<users, stop, cpc, event, spc>>

\* Anybody may unblock.  The caller of a block still pending is woken, and has not
\* blocked the pin.
Unblock(c) ==
  /\ cpc[c] = "idle" /\ block # "NOT_BLOCKED"
  /\ unblock' = TRUE
  /\ event' = IF notify = Nobody THEN event ELSE [event EXCEPT ![notify] = TRUE]
  /\ block' = "NOT_BLOCKED" /\ caller' = Nobody /\ notify' = Nobody /\ granted' = Nobody
  /\ UNCHANGED <<users, stop, cpc, spc>>

-----------------------------------------------------------------------------
(* StartUsingOutputPin and StopUsingOutputPin.                             *)

StartUsing(s) ==
  /\ spc[s] = "out"
  /\ IF block = "BLOCKED"
       THEN spc' = [spc EXCEPT ![s] = "wait"] /\ UNCHANGED users
       ELSE spc' = [spc EXCEPT ![s] = "in"] /\ users' = users + 1
  /\ UNCHANGED <<blocking, stop, cpc, event>>

\* Woken, the thread takes the lock again and looks again, or gives up when the
\* filter has been stopped or flushed.
WaitEnds(s) ==
  /\ spc[s] = "wait"
  /\ \/ /\ unblock /\ block # "BLOCKED"
        /\ spc' = [spc EXCEPT ![s] = "in"] /\ users' = users + 1
     \/ /\ ~unblock /\ stop
        /\ spc' = [spc EXCEPT ![s] = "out"] /\ UNCHANGED users
  /\ UNCHANGED <<blocking, stop, cpc, event>>

StopUsing(s) ==
  /\ spc[s] = "in"
  /\ spc' = [spc EXCEPT ![s] = "out"]
  /\ users' = users - 1
  /\ IF users' = 0 /\ block # "NOT_BLOCKED"
       THEN BlockOutputPin(notify) /\ UNCHANGED caller
       ELSE UNCHANGED <<blocking, event>>
  /\ UNCHANGED <<stop, cpc>>

\* Inactive and BeginFlush set the stop event, Active and EndFlush reset it.
SetStopEvent ==
  /\ stop' = ~stop
  /\ UNCHANGED <<blocking, users, cpc, event, spc>>

Next ==
  \/ \E c \in Callers : Block(c) \/ BlockReturns(c) \/ Unblock(c)
  \/ \E s \in Streams : StartUsing(s) \/ WaitEnds(s) \/ StopUsing(s)
  \/ SetStopEvent

(* Fairness: the pin is used for a while and no longer; whoever is woken   *)
(* goes on.                                                                *)
Fairness == /\ \A c \in Callers : WF_vars(BlockReturns(c))
            /\ \A s \in Streams : WF_vars(WaitEnds(s)) /\ WF_vars(StopUsing(s))

Spec == Init /\ [][Next]_vars /\ Fairness

-----------------------------------------------------------------------------
(* Properties.                                                             *)

\* The type invariant.
TypeOK ==
  /\ block \in {"NOT_BLOCKED", "PENDING", "BLOCKED"}
  /\ {notify, caller, granted} \subseteq Callers \cup {Nobody}
  /\ users \in 0..Cardinality(Streams)
  /\ {unblock, stop} \subseteq BOOLEAN
  /\ cpc \in [Callers -> {"idle", "wait"}] /\ event \in [Callers -> BOOLEAN]
  /\ spc \in [Streams -> {"out", "wait", "in"}]

\* What AssertValid asserts of the block, the handle and the users, and that a
\* blocked pin has no user, whichever threads call.
Valid ==
  /\ (notify # Nobody) <=> (block = "PENDING")
  /\ (caller # Nobody) => (block # "NOT_BLOCKED")
  /\ (users # 0 /\ block # "BLOCKED") \/ users = 0
  /\ block = "BLOCKED" => (\A s \in Streams : spc[s] # "in") /\ granted = caller
  /\ unblock <=> (block # "BLOCKED")

\* A block is granted or cancelled in the end, and a streaming thread waits only as
\* long as the pin is blocked and nothing is stopped or flushed.
NobodyIsLeft ==
  /\ \A c \in Callers : cpc[c] = "wait" ~> cpc[c] = "idle"
  /\ \A s \in Streams :
       spc[s] = "wait" ~> (spc[s] # "wait" \/ (block = "BLOCKED" /\ ~stop))
=============================================================================
