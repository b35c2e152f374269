---------------------------- MODULE SourceStream ----------------------------
(***************************************************************************)
(* CSource and its pins, CSourceStream (source.cpp), each with a worker    *)
(* thread: the filter's Pause, Run and Stop activate and deactivate the    *)
(* pins one by one under m_cStateLock, so one control thread stands for    *)
(* all callers; each worker fills buffers and delivers them until it is    *)
(* told to stop.                                                           *)
(***************************************************************************)
EXTENDS Integers, Sequences

CONSTANTS Pins,      \* the connected pins, in the order of m_paStreams
          FaultsMax  \* bound on the failures of Commit, Create, OnThreadCreate

VARIABLES
  state,      \* m_State of the filter
  cpc,        \* the call the control thread is in; "idle" leaves the lock free
  pin,        \* the pin its loop has reached
  thread,     \* pin -> its CAMThread
  wpc,        \* pin -> place of its worker
  committed,  \* pin -> its allocator is committed
  faults,     \* failures so far
  halfway     \* history: the last Pause of the stopped filter failed

vars == <<state, cpc, pin, thread, wpc, committed, faults, halfway>>

Commands == {"INIT", "PAUSE", "RUN", "STOP", "EXIT"}
Results == {"NOERROR", "FAILED"}
T == INSTANCE AMThread

Last == Len(Pins)
Each == DOMAIN Pins

Init ==
  /\ state = "Stopped" /\ cpc = "idle" /\ pin = 1
  /\ thread = [p \in Each |-> T!NoThread("NOERROR")]
  /\ wpc = [p \in Each |-> "none"]
  /\ committed = [p \in Each |-> FALSE]
  /\ faults = 0 /\ halfway = FALSE

Fault == faults < FaultsMax /\ faults' = faults + 1

-----------------------------------------------------------------------------
(* CBaseFilter::Pause with the pins' Active.                               *)

\* The loop over the pins goes on, or ends and sets the state.
NextPin(loop, final) ==
  IF pin < Last
    THEN pin' = pin + 1 /\ cpc' = loop /\ UNCHANGED <<state, halfway>>
    ELSE pin' = 1 /\ cpc' = "idle" /\ state' = final /\ halfway' = FALSE

\* A failure ends the loop, and the filter stays stopped.
PauseFails == cpc' = "idle" /\ pin' = 1 /\ halfway' = TRUE /\ UNCHANGED state

Pause ==
  /\ cpc = "idle"
  /\ IF state = "Stopped" THEN cpc' = "commit" /\ UNCHANGED state
                          ELSE state' = "Paused" /\ UNCHANGED cpc
  /\ UNCHANGED <<pin, thread, wpc, committed, faults, halfway>>

\* CBaseOutputPin::Active
CommitAllocator ==
  /\ cpc = "commit"
  /\ \/ /\ Fault /\ PauseFails
        /\ UNCHANGED committed
     \/ /\ committed' = [committed EXCEPT ![pin] = TRUE]
        /\ cpc' = "create"
        /\ UNCHANGED <<state, pin, faults, halfway>>
  /\ UNCHANGED <<thread, wpc>>

Create ==
  /\ cpc = "create"
  /\ \/ /\ thread[pin].exists
        /\ PauseFails
        /\ UNCHANGED <<thread, wpc, faults>>
     \/ /\ Fault /\ PauseFails
        /\ UNCHANGED <<thread, wpc>>
     \/ /\ ~thread[pin].exists
        /\ thread' = [thread EXCEPT ![pin] = T!Called(T!Created(@), "INIT")]
        /\ wpc' = [wpc EXCEPT ![pin] = "init"]
        /\ cpc' = "init"
        /\ UNCHANGED <<state, pin, faults, halfway>>
  /\ UNCHANGED committed

InitReturns ==
  /\ cpc = "init" /\ thread[pin].complete
  /\ IF thread[pin].result = "FAILED"
       THEN /\ thread' = [thread EXCEPT ![pin] = T!Returned(@)]
            /\ PauseFails
       ELSE /\ thread' = [thread EXCEPT ![pin] = T!Called(T!Returned(@), "PAUSE")]
            /\ cpc' = "pause"
            /\ UNCHANGED <<state, pin, halfway>>
  /\ UNCHANGED <<wpc, committed, faults>>

PauseReturns ==
  /\ cpc = "pause" /\ thread[pin].complete
  /\ thread' = [thread EXCEPT ![pin] = T!Returned(@)]
  /\ NextPin("commit", "Paused")
  /\ UNCHANGED <<wpc, committed, faults>>

-----------------------------------------------------------------------------
(* Run and Pause of a stream, for a derived class whose Run and Pause pass *)
(* the state on to its workers.                                            *)

Command ==
  /\ cpc = "idle" /\ state # "Stopped"
  /\ state' \in {"Paused", "Running"}
  /\ \E p \in Each :
       /\ pin' = p
       /\ thread' = [thread EXCEPT ![p] =
                       T!Called(@, IF state' = "Running" THEN "RUN" ELSE "PAUSE")]
  /\ cpc' = "command"
  /\ UNCHANGED <<wpc, committed, faults, halfway>>

CommandReturns ==
  /\ cpc = "command" /\ thread[pin].complete
  /\ thread' = [thread EXCEPT ![pin] = T!Returned(@)]
  /\ cpc' = "idle" /\ pin' = 1
  /\ UNCHANGED <<state, wpc, committed, faults, halfway>>

-----------------------------------------------------------------------------
(* CBaseFilter::Stop with the pins' Inactive.                              *)

Stop ==
  /\ cpc = "idle" /\ state # "Stopped"
  /\ cpc' = "decommit"
  /\ UNCHANGED <<state, pin, thread, wpc, committed, faults, halfway>>

\* Faulty: the allocator stays as it is while the worker is told to stop.
StopWithoutDecommit ==
  /\ cpc = "decommit" /\ thread[pin].exists
  /\ thread' = [thread EXCEPT ![pin] = T!Called(@, "STOP")]
  /\ cpc' = "stop"
  /\ UNCHANGED <<state, pin, wpc, committed, faults, halfway>>

Decommit ==
  /\ cpc = "decommit"
  /\ committed' = [committed EXCEPT ![pin] = FALSE]
  /\ IF thread[pin].exists
       THEN /\ thread' = [thread EXCEPT ![pin] = T!Called(@, "STOP")]
            /\ cpc' = "stop"
            /\ UNCHANGED <<state, pin, halfway>>
       ELSE NextPin("decommit", "Stopped") /\ UNCHANGED thread
  /\ UNCHANGED <<wpc, faults>>

StopReturns ==
  /\ cpc = "stop" /\ thread[pin].complete
  /\ thread' = [thread EXCEPT ![pin] = T!Called(T!Returned(@), "EXIT")]
  /\ cpc' = "exit"
  /\ UNCHANGED <<state, pin, wpc, committed, faults, halfway>>

\* An error from Exit leaves the thread behind, and the loop goes on.
ExitReturns ==
  /\ cpc = "exit" /\ thread[pin].complete
  /\ thread' = [thread EXCEPT ![pin] = T!Returned(@)]
  /\ IF thread[pin].result = "FAILED"
       THEN NextPin("decommit", "Stopped")
       ELSE cpc' = "close" /\ UNCHANGED <<state, pin, halfway>>
  /\ UNCHANGED <<wpc, committed, faults>>

\* Faulty: does not wait for the thread.
CloseAtOnce ==
  /\ cpc = "close"
  /\ thread' = [thread EXCEPT ![pin] = T!Closed(@)]
  /\ NextPin("decommit", "Stopped")
  /\ UNCHANGED <<wpc, committed, faults>>

Close ==
  /\ cpc = "close" /\ ~thread[pin].running
  /\ thread' = [thread EXCEPT ![pin] = T!Closed(@)]
  /\ NextPin("decommit", "Stopped")
  /\ UNCHANGED <<wpc, committed, faults>>

-----------------------------------------------------------------------------
(* The worker of pin p: ThreadProc and DoBufferProcessingLoop.             *)

Reply(p, r) == thread' = [thread EXCEPT ![p] = T!Replied(@, r)]
Goto(p, place) == wpc' = [wpc EXCEPT ![p] = place]
Control == <<state, cpc, pin, committed, halfway>>

ThreadInit(p) ==
  /\ wpc[p] = "init" /\ T!Requested(thread[p], "INIT")
  /\ \/ /\ Reply(p, "NOERROR") /\ Goto(p, "get")
        /\ UNCHANGED faults
     \/ /\ Fault
        /\ thread' = [thread EXCEPT ![p] = T!Exited(T!Replied(@, "FAILED"))]
        /\ Goto(p, "none")
  /\ UNCHANGED Control

GetRequest(p) ==
  /\ wpc[p] = "get" /\ thread[p].sent
  /\ CASE thread[p].param = "EXIT" -> Reply(p, "NOERROR") /\ Goto(p, "exit")
       [] thread[p].param \in {"PAUSE", "RUN"} -> Reply(p, "NOERROR") /\ Goto(p, "check")
       [] thread[p].param = "STOP" -> Reply(p, "NOERROR") /\ UNCHANGED wpc
       [] OTHER -> Reply(p, "FAILED") /\ UNCHANGED wpc
  /\ UNCHANGED <<Control, faults>>

ThreadExit(p) ==
  /\ wpc[p] = "exit"
  /\ thread' = [thread EXCEPT ![p] = T!Exited(@)]
  /\ Goto(p, "none")
  /\ UNCHANGED <<Control, faults>>

\* A stop ends the loop and is answered by ThreadProc.
CheckRequest(p) ==
  /\ wpc[p] = "check"
  /\ CASE ~thread[p].sent -> Goto(p, "buffer") /\ UNCHANGED thread
       [] T!Requested(thread[p], "STOP") -> Goto(p, "get") /\ UNCHANGED thread
       [] thread[p].sent /\ thread[p].param \in {"PAUSE", "RUN"} ->
            Reply(p, "NOERROR") /\ UNCHANGED wpc
       [] OTHER -> Reply(p, "FAILED") /\ UNCHANGED wpc
  /\ UNCHANGED <<Control, faults>>

\* GetDeliveryBuffer comes back with a sample when one is free, which may be
\* never, or at once when the allocator is decommitted.
GetBuffer(p) ==
  /\ wpc[p] = "buffer" /\ committed[p]
  /\ Goto(p, "fill")
  /\ UNCHANGED <<Control, thread, faults>>

NoBuffer(p) ==
  /\ wpc[p] = "buffer" /\ ~committed[p]
  /\ Goto(p, "check")
  /\ UNCHANGED <<Control, thread, faults>>

\* At the end of the stream, or after an error, the worker waits for a request.
FillBuffer(p) ==
  /\ wpc[p] = "fill"
  /\ wpc' \in {[wpc EXCEPT ![p] = w] : w \in {"deliver", "get"}}
  /\ UNCHANGED <<Control, thread, faults>>

Deliver(p) ==
  /\ wpc[p] = "deliver"
  /\ wpc' \in {[wpc EXCEPT ![p] = w] : w \in {"check", "get"}}
  /\ UNCHANGED <<Control, thread, faults>>

Work(p) == ThreadInit(p) \/ GetRequest(p) \/ ThreadExit(p) \/ CheckRequest(p)
           \/ NoBuffer(p) \/ FillBuffer(p) \/ Deliver(p)

Goes == CommitAllocator \/ Create \/ InitReturns \/ PauseReturns \/ CommandReturns
        \/ Decommit \/ StopReturns \/ ExitReturns \/ Close

Next == Pause \/ Stop \/ Command \/ Goes \/ \E p \in Each : Work(p) \/ GetBuffer(p)

(* Fairness: a call in progress and every worker go on; FillBuffer and the  *)
(* pin downstream return.  Nothing is assumed of who calls, nor of when a   *)
(* buffer becomes free.                                                     *)
Fairness == WF_vars(Goes) /\ \A p \in Each : WF_vars(Work(p))

Spec == Init /\ [][Next]_vars /\ Fairness

-----------------------------------------------------------------------------
(* Properties.                                                             *)

\* The type invariant.
TypeOK ==
  /\ state \in {"Stopped", "Paused", "Running"}
  /\ cpc \in {"idle", "commit", "create", "init", "pause", "command", "decommit",
              "stop", "exit", "close"}
  /\ pin \in Each /\ faults \in 0..FaultsMax /\ halfway \in BOOLEAN
  /\ thread \in [Each -> T!Threads]
  /\ wpc \in [Each -> {"none", "init", "get", "check", "buffer", "fill",
                       "deliver", "exit"}]
  /\ committed \in [Each -> BOOLEAN]

\* A filter that has been stopped leaves nothing behind: no worker that might
\* still deliver, no thread handle, no request nobody has answered, no committed
\* allocator.  A Pause that fails half way is another matter.
NothingLeft ==
  (state = "Stopped" /\ cpc = "idle" /\ ~halfway) =>
     \A p \in Each : /\ wpc[p] = "none" /\ ~committed[p]
                     /\ ~thread[p].exists /\ ~thread[p].running
                     /\ ~thread[p].sent /\ ~thread[p].complete

\* Pause and Stop return although each waits for its workers, who may be waiting
\* for buffers that never come.  (A command may have to wait for a buffer.)
CallsReturn == cpc \notin {"idle", "command"} ~> cpc = "idle"

\* An assertion of Active: a pin about to be activated has no thread.
NoThreadYet == cpc = "create" => ~thread[pin].exists
=============================================================================
