------------------------------- MODULE PullPin -------------------------------
(***************************************************************************)
(* CPullPin (pullpin.cpp): a pin that pulls from an IAsyncReader.  Active, *)
(* Inactive and Seek come from outside, one at a time under m_AccessLock;  *)
(* the worker reads the range from m_tStart to m_tStop, in the             *)
(* asynchronous mode with a second request under way while it waits for    *)
(* the first, and delivers every sample downstream.  The reader and the    *)
(* filter downstream are external.                                         *)
(***************************************************************************)
EXTENDS Integers, Sequences, FiniteSets

CONSTANTS Length,    \* m_tDuration
          Align,     \* cbAlign of the reader's allocator
          cbBuffer,  \* the size of its buffers
          cBuffers,  \* their number
          Seeks      \* bound on the calls of Seek

VARIABLES
  cpc,       \* the call in progress; "idle" leaves m_AccessLock free
  state,     \* m_State
  start,     \* m_tStart
  stop,      \* m_tStop
  sync,      \* m_bSync
  thread,    \* the CAMThread
  wpc,       \* place of the worker
  current,   \* tCurrent
  second,    \* the worker is in the inner loop of Process
  requests,  \* the reader: positions asked for and not yet collected
  cancelled, \* the reader: its requests are cancelled and new ones refused
  held,      \* buffers the filter downstream keeps
  committed, \* the allocator is committed
  flushing,  \* downstream is between BeginFlush and EndFlush
  next,      \* history: the first position of the present range not delivered
  ended,     \* history: how Process ended: "no", "end", "other"
  refused,   \* history: downstream has refused a sample of the present range
  seeks      \* calls of Seek so far

control == <<cpc, state, start, stop, flushing, seeks, sync>>
reader == <<requests, cancelled>>
vars == <<control, thread, wpc, current, second, reader, held, committed, next, ended, refused>>

Commands == {"Start", "Pause", "Exit"}
Results == {"S_OK"}
T == INSTANCE AMThread

AlignDown(p) == p - (p % Align)
AlignUp(p) == AlignDown(p + Align - 1)

\* The end of the range, and the end of what Process reads.
StopAt == IF stop > Length THEN Length ELSE stop
AlignStop == AlignUp(StopAt)

\* The end of the buffer that is read at position p.
Till(p) == IF p + cbBuffer > AlignStop THEN AlignStop ELSE p + cbBuffer

Init ==
  /\ cpc = "idle" /\ state = "Exit" /\ start = 0 /\ stop = Length
  /\ sync \in BOOLEAN
  /\ thread = T!NoThread("S_OK") /\ wpc = "none"
  /\ current = 0 /\ second = FALSE
  /\ requests = <<>> /\ cancelled = FALSE
  /\ held = 0 /\ committed = FALSE /\ flushing = FALSE
  /\ next = 0 /\ ended = "no" /\ refused = FALSE /\ seeks = 0

-----------------------------------------------------------------------------
(* Active, Inactive, Seek.                                                 *)

\* StartThread: creates the worker if there is none.
StartThread ==
  /\ committed' = TRUE
  /\ state' = "Start"
  /\ thread' = T!Called(IF thread.exists THEN thread ELSE T!Created(thread), "Start")
  /\ wpc' = IF thread.exists THEN wpc ELSE "get"
  /\ cpc' = "start"

Active ==
  /\ cpc = "idle" /\ ~thread.exists
  /\ StartThread
  /\ UNCHANGED <<start, stop, sync, current, second, reader, held, flushing,
                 next, ended, refused, seeks>>

StartReturns ==
  /\ cpc = "start" /\ thread.complete
  /\ thread' = T!Returned(thread)
  /\ cpc' = "idle"
  /\ UNCHANGED <<state, start, stop, flushing, seeks, sync, wpc, current, second,
                 reader, held, committed, next, ended, refused>>

\* Downstream has been told to stop before, and gives its buffers back.
Inactive ==
  /\ cpc = "idle" /\ thread.exists
  /\ flushing' = TRUE
  /\ cancelled' = TRUE
  /\ state' = "Exit"
  /\ thread' = T!Called(thread, "Exit")
  /\ cpc' = "exit"
  /\ UNCHANGED <<start, stop, seeks, sync, wpc, current, second, requests, held,
                 committed, next, ended, refused>>

ExitReturns ==
  /\ cpc = "exit" /\ thread.complete
  /\ thread' = T!Returned(thread)
  /\ cancelled' = FALSE
  /\ cpc' = "close"
  /\ UNCHANGED <<state, start, stop, flushing, seeks, sync, wpc, current, second,
                 requests, held, committed, next, ended, refused>>

Close ==
  /\ cpc = "close" /\ ~thread.running
  /\ thread' = T!Closed(thread)
  /\ committed' = FALSE
  /\ flushing' = FALSE
  /\ cpc' = "idle"
  /\ UNCHANGED <<state, start, stop, seeks, sync, wpc, current, second, reader,
                 held, next, ended, refused>>

\* A new range, with its first position next in turn.
NewRange ==
  /\ start' \in 0..Length /\ stop' \in 0..(Length + 1)
  /\ next' = AlignDown(start')
  /\ ended' = "no" /\ refused' = FALSE

SeekStopped ==
  /\ cpc = "idle" /\ state # "Start" /\ seeks < Seeks
  /\ seeks' = seeks + 1
  /\ NewRange
  /\ UNCHANGED <<cpc, state, flushing, sync, thread, wpc, current, second, reader,
                 held, committed>>

\* BeginFlush downstream, then PauseThread.
SeekStarted ==
  /\ cpc = "idle" /\ state = "Start" /\ seeks < Seeks
  /\ seeks' = seeks + 1
  /\ flushing' = TRUE
  /\ cancelled' = TRUE
  /\ state' = "Pause"
  /\ thread' = T!Called(thread, "Pause")
  /\ cpc' = "pause"
  /\ UNCHANGED <<start, stop, sync, wpc, current, second, requests, held,
                 committed, next, ended, refused>>

\* Faulty: does not wait for the worker to pause.
SeekAtOnce ==
  /\ cpc = "pause"
  /\ thread' = T!Called(T!Replied(thread, "S_OK"), "Start")
  /\ cancelled' = FALSE /\ flushing' = FALSE
  /\ NewRange
  /\ state' = "Start"
  /\ cpc' = "start"
  /\ UNCHANGED <<seeks, sync, wpc, current, second, requests, held, committed>>

\* The end of PauseThread, EndFlush downstream, the new range and StartThread.
SeekRestarts ==
  /\ cpc = "pause" /\ thread.complete
  /\ cancelled' = FALSE
  /\ flushing' = FALSE
  /\ NewRange
  /\ state' = "Start"
  /\ thread' = T!Called(T!Returned(thread), "Start")
  /\ cpc' = "start"
  /\ UNCHANGED <<seeks, sync, wpc, current, second, requests, held, committed>>

-----------------------------------------------------------------------------
(* The worker: ThreadProc.                                                 *)

\* On a start the worker goes on to Process.
GetRequest ==
  /\ wpc = "get" /\ thread.sent
  /\ thread' = T!Replied(thread, "S_OK")
  /\ wpc' = CASE thread.param = "Exit" -> "exit"
              [] thread.param = "Pause" -> "flush"
              [] thread.param = "Start" -> "process"
  /\ UNCHANGED <<control, committed, reader, current, second, held, next, ended, refused>>

ThreadExit ==
  /\ wpc = "exit"
  /\ thread' = T!Exited(thread)
  /\ wpc' = "none"
  /\ UNCHANGED <<control, committed, reader, current, second, held, next, ended, refused>>

\* Faulty: leaves cancelled requests with the reader.
FlushReaderOnly ==
  /\ wpc = "flush"
  /\ cancelled' = FALSE
  /\ wpc' = "get"
  /\ UNCHANGED <<control, committed, thread, requests, current, second, held, next,
                 ended, refused>>

\* BeginFlush of the reader, CleanupCancelled and EndFlush, whoever else is
\* flushing it.
FlushReader ==
  /\ wpc = "flush"
  /\ requests' = <<>> /\ cancelled' = FALSE
  /\ wpc' = "get"
  /\ UNCHANGED <<control, committed, thread, current, second, held, next, ended, refused>>

-----------------------------------------------------------------------------
(* The worker: Process.                                                    *)

\* Process returns; how says whether EndOfStream has been called.
Ends(how) == wpc' = "flush" /\ ended' = how

Process ==
  /\ wpc = "process"
  /\ current' = AlignDown(start) /\ second' = FALSE
  /\ next' = AlignDown(start) /\ refused' = FALSE
  /\ IF stop <= start THEN Ends("end") ELSE wpc' = "outer" /\ ended' = "no"
  /\ UNCHANGED <<control, committed, thread, reader, held>>

\* Faulty: reports the end of the stream when it breaks out.
OuterEnds ==
  /\ wpc = "outer"
  /\ IF current >= AlignStop \/ thread.sent
       THEN Ends("end") /\ UNCHANGED second
       ELSE /\ wpc' = "buffer" /\ UNCHANGED ended
            /\ second' = (~sync /\ cBuffers = 1)
  /\ UNCHANGED <<control, committed, thread, reader, current, held, next, refused>>

\* The head of the outer loop, the only place where a request is looked for.
Outer ==
  /\ wpc = "outer"
  /\ CASE current >= AlignStop -> Ends("end") /\ UNCHANGED second
       [] current < AlignStop /\ thread.sent -> Ends("other") /\ UNCHANGED second
       [] OTHER -> /\ wpc' = "buffer" /\ UNCHANGED ended
                   /\ second' = (~sync /\ cBuffers = 1)
  /\ UNCHANGED <<control, committed, thread, reader, current, held, next, refused>>

InUse == held + Len(requests)

\* GetBuffer and Request of QueueSample; a reader being flushed refuses, and the
\* requests cancelled so far are collected.
QueueSample ==
  /\ wpc = "buffer" /\ ~sync /\ InUse < cBuffers
  /\ current' = Till(current)
  /\ IF cancelled
       THEN requests' = <<>> /\ Ends("other") /\ UNCHANGED second
       ELSE /\ requests' = Append(requests, current)
            /\ UNCHANGED ended
            /\ second' = TRUE
            /\ wpc' = IF second \/ current' >= AlignStop THEN "collect" ELSE "buffer"
  /\ UNCHANGED <<control, committed, thread, cancelled, held, next, refused>>

\* The synchronous loop: the sample is read at once, whoever flushes.
ReadSync ==
  /\ wpc = "buffer" /\ sync /\ InUse < cBuffers
  /\ \/ /\ requests' = <<current>>
        /\ current' = Till(current)
        /\ wpc' = "deliver"
        /\ UNCHANGED ended
     \/ Ends("other") /\ UNCHANGED <<requests, current>>
  /\ UNCHANGED <<control, committed, thread, cancelled, second, held, next, refused>>

\* WaitForNext: the oldest request, or an error.
Collect ==
  /\ wpc = "collect"
  /\ IF cancelled THEN requests' = <<>> /\ Ends("other")
     ELSE \/ /\ requests # <<>>
             /\ wpc' = "deliver"
             /\ UNCHANGED <<requests, ended>>
          \/ /\ requests # <<>>
             /\ requests' = <<>> /\ Ends("other")
  /\ UNCHANGED <<control, committed, thread, cancelled, current, second, held, next, refused>>

\* The loop goes on after a sample.
GoesOn ==
  /\ UNCHANGED ended
  /\ wpc' = CASE sync -> "outer"
              [] ~sync /\ current < AlignStop -> "buffer"
              [] OTHER -> IF Tail(requests) # <<>> THEN "collect" ELSE "outer"

\* DeliverSample and Receive: the filter downstream takes the sample and perhaps
\* keeps it, or refuses it.  The last of two requests may be refused with S_FALSE
\* and the loop goes on all the same.
Deliver ==
  /\ wpc = "deliver"
  /\ \/ /\ ~flushing
        /\ held' \in {held, held + 1}
        /\ next' = Till(Head(requests))
        /\ GoesOn
        /\ UNCHANGED refused
     \/ /\ refused' = TRUE
        /\ \/ Ends("other")
           \/ /\ ~sync /\ cBuffers > 1 /\ current >= AlignStop /\ Len(requests) = 1
              /\ GoesOn
        /\ UNCHANGED <<held, next>>
  /\ requests' = Tail(requests)
  /\ UNCHANGED <<control, committed, thread, cancelled, current, second>>

\* The filter downstream gives a buffer back.
Release ==
  /\ held > 0
  /\ held' = held - 1
  /\ UNCHANGED <<control, committed, thread, wpc, reader, current, second, next, ended, refused>>

Work == GetRequest \/ ThreadExit \/ FlushReader \/ Process \/ Outer \/ QueueSample
        \/ ReadSync \/ Collect \/ Deliver

Goes == StartReturns \/ ExitReturns \/ Close \/ SeekRestarts

Next == Active \/ Inactive \/ SeekStopped \/ SeekStarted \/ Goes \/ Work \/ Release

(* Fairness: calls in progress and the worker go on, the reader answers, and *)
(* the filter downstream gives its buffers back.                            *)
Fairness == WF_vars(Goes) /\ WF_vars(Work) /\ WF_vars(Release)

Spec == Init /\ [][Next]_vars /\ Fairness

-----------------------------------------------------------------------------
(* Properties.                                                             *)

\* The type invariant.
TypeOK ==
  /\ cpc \in {"idle", "start", "exit", "close", "pause"}
  /\ state \in Commands /\ start \in 0..Length /\ stop \in 0..(Length + 1)
  /\ {sync, second, cancelled, committed, flushing, refused} \subseteq BOOLEAN
  /\ thread \in T!Threads
  /\ wpc \in {"none", "get", "exit", "flush", "process", "outer", "buffer",
              "collect", "deliver"}
  /\ current \in 0..(Length + Align) /\ next \in 0..(Length + Align)
  /\ requests \in Seq(0..(Length + Align)) /\ InUse \in 0..cBuffers
  /\ ended \in {"no", "end", "other"} /\ seeks \in 0..Seeks

\* What the filter downstream accepts follows the range without a gap, a
\* repetition or a sample of the range before the last Seek.
Contiguous ==
  (wpc = "deliver" /\ ~flushing) => Head(requests) = next

\* EndOfStream comes after the last sample of the range, unless one was refused.
EndAfterAll == ended = "end" => (next >= StopAt \/ stop <= start \/ refused)

InOrder == Contiguous /\ EndAfterAll

\* A worker waiting for a request has left no request with the reader, and a
\* thread that has ended no buffer but those kept downstream.
NoneOutstanding == wpc \in {"none", "get", "exit", "process"} => requests = <<>>

\* Active, Inactive and Seek return, whatever the worker waits for.
CallsReturn == cpc # "idle" ~> cpc = "idle"
=============================================================================
