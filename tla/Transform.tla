------------------------------ MODULE Transform ------------------------------
(***************************************************************************)
(* CTransformFilter and its pins (transfrm.cpp): one filter between two    *)
(* pins, without a thread of its own.  Control calls and flushes hold      *)
(* m_csFilter; the streaming thread of the filter upstream holds           *)
(* m_csReceive while it waits for an output buffer, transforms and         *)
(* delivers, so Stop can take it only when that thread comes back.  The    *)
(* filters around it are external; the graph stops downstream first.       *)
(***************************************************************************)
EXTENDS Integers

CONSTANT cBuffers   \* buffers of the output pin's allocator

VARIABLES
  in, out,      \* the pins are connected
  state,        \* m_State
  cpc,          \* the control call that holds m_csFilter, or "idle"
  rpc,          \* place of the streaming thread; "out" leaves m_csReceive free
  flushing,     \* m_bFlushing of the input pin
  runTimeError, \* m_bRunTimeError of the input pin
  committed,    \* the output pin's allocator is committed
  eosDelivered, \* m_bEOSDelivered
  skipped,      \* m_bSampleSkipped
  quality,      \* m_bQualityChanged
  down,         \* the state of the filter downstream
  downFlushing, \* it is being flushed
  held          \* output buffers it keeps

pins == <<in, out>>
streaming == <<rpc, skipped, quality>>
downstream == <<down, downFlushing, held>>
vars == <<pins, state, cpc, streaming, flushing, runTimeError, committed,
          eosDelivered, downstream>>

Init ==
  /\ in \in BOOLEAN /\ out \in BOOLEAN
  /\ state = "Stopped" /\ cpc = "idle" /\ rpc = "out"
  /\ flushing = FALSE /\ runTimeError = FALSE /\ committed = FALSE
  /\ eosDelivered = FALSE /\ skipped = FALSE /\ quality = FALSE
  /\ down = "Stopped" /\ downFlushing = FALSE /\ held = 0

-----------------------------------------------------------------------------
(* The filter downstream.  Stopped or flushed, it gives its buffers back,  *)
(* and stopping decommits the allocator it shares with the output pin.     *)

DownStop ==
  /\ cpc = "idle" /\ out /\ down # "Stopped"
  /\ down' = "Stopped" /\ held' = 0 /\ committed' = FALSE
  /\ UNCHANGED <<pins, state, cpc, streaming, flushing, runTimeError, eosDelivered,
                 downFlushing>>

DownStart ==
  /\ cpc = "idle" /\ out
  /\ down' \in {"Paused", "Running"} \ {down}
  /\ UNCHANGED <<pins, state, cpc, streaming, flushing, runTimeError, committed,
                 eosDelivered, downFlushing, held>>

\* A renderer that runs gives a sample back in time; paused it keeps it.
DownRelease ==
  /\ down = "Running" /\ held > 0
  /\ held' = held - 1
  /\ UNCHANGED <<pins, state, cpc, streaming, flushing, runTimeError, committed,
                 eosDelivered, down, downFlushing>>

-----------------------------------------------------------------------------
(* Stop, Pause, Run.                                                       *)

StopUnconnected ==
  /\ cpc = "idle" /\ state # "Stopped" /\ ~(in /\ out)
  /\ state' = "Stopped" /\ eosDelivered' = FALSE
  /\ UNCHANGED <<pins, cpc, streaming, flushing, runTimeError, committed, downstream>>

\* The input pin's Inactive; then m_csReceive is waited for.
Stop ==
  /\ cpc = "idle" /\ state # "Stopped" /\ in /\ out
  /\ down = "Stopped"
  /\ flushing' = FALSE /\ runTimeError' = FALSE
  /\ cpc' = "stop"
  /\ UNCHANGED <<pins, state, streaming, committed, eosDelivered, downstream>>

\* The output pin's Inactive and StopStreaming, under both locks.
Stopped ==
  /\ committed' = FALSE
  /\ state' = "Stopped" /\ eosDelivered' = FALSE
  /\ cpc' = "idle"
  /\ UNCHANGED <<pins, streaming, flushing, runTimeError, downstream>>

\* Faulty: does not take m_csReceive.
StopWithoutReceive == cpc = "stop" /\ Stopped
StopReceived == cpc = "stop" /\ rpc = "out" /\ Stopped

\* A filter without its input delivers the end of the stream itself, once.
PauseUnconnected ==
  /\ cpc = "idle" /\ state # "Paused" /\ ~(in /\ out)
  /\ state' = "Paused"
  /\ eosDelivered' = (eosDelivered \/ ~in)
  /\ skipped' = FALSE /\ quality' = FALSE
  /\ UNCHANGED <<pins, cpc, rpc, flushing, runTimeError, committed, downstream>>

Pause ==
  /\ cpc = "idle" /\ in /\ out
  /\ IF state = "Stopped"
       THEN cpc' = "pause" /\ UNCHANGED <<state, skipped, quality>>
       ELSE state' = "Paused" /\ skipped' = FALSE /\ quality' = FALSE /\ UNCHANGED cpc
  /\ UNCHANGED <<pins, rpc, flushing, runTimeError, committed, eosDelivered, downstream>>

\* StartStreaming under m_csReceive, and CBaseFilter::Pause, which may fail to
\* commit the allocator.
PauseReceived ==
  /\ cpc = "pause" /\ rpc = "out"
  /\ committed' \in BOOLEAN
  /\ state' = IF committed' THEN "Paused" ELSE "Stopped"
  /\ skipped' = FALSE /\ quality' = FALSE
  /\ cpc' = "idle"
  /\ UNCHANGED <<pins, rpc, flushing, runTimeError, eosDelivered, downstream>>

Run ==
  /\ cpc = "idle" /\ state = "Paused"
  /\ state' = "Running"
  /\ UNCHANGED <<pins, cpc, streaming, flushing, runTimeError, committed, eosDelivered,
                 downstream>>

-----------------------------------------------------------------------------
(* Flushes, from a thread of the filter upstream.                          *)

\* Faulty: the flush is not passed on.
BeginFlushHere ==
  /\ cpc = "idle" /\ in /\ out /\ ~flushing /\ ~downFlushing
  /\ flushing' = TRUE
  /\ UNCHANGED <<pins, state, cpc, streaming, runTimeError, committed, eosDelivered,
                 downstream>>

BeginFlush ==
  /\ cpc = "idle" /\ in /\ out /\ ~flushing /\ ~downFlushing
  /\ flushing' = TRUE
  /\ downFlushing' = TRUE /\ held' = 0
  /\ UNCHANGED <<pins, state, cpc, streaming, runTimeError, committed, eosDelivered, down>>

\* Upstream ends the flush once its streaming thread has come back.
EndFlush ==
  /\ cpc = "idle" /\ downFlushing /\ rpc = "out"
  /\ downFlushing' = FALSE
  /\ flushing' = FALSE /\ runTimeError' = FALSE
  /\ UNCHANGED <<pins, state, cpc, streaming, committed, eosDelivered, down, held>>

-----------------------------------------------------------------------------
(* The streaming thread: Receive.                                          *)

\* CTransformInputPin::CheckStreaming
CheckStreaming == in /\ out /\ ~flushing /\ state # "Stopped" /\ ~runTimeError

\* A sample, or one of another stream that is passed on as it is.
Receive ==
  /\ rpc = "out" /\ CheckStreaming
  /\ rpc' \in {"buffer", "pass"}
  /\ UNCHANGED <<pins, state, cpc, skipped, quality, flushing, runTimeError, committed,
                 eosDelivered, downstream>>

\* A sample of a type the pin does not accept.  The error is set before
\* EndOfStream is called, which therefore delivers nothing.
ReceiveBadType ==
  /\ rpc = "out" /\ CheckStreaming
  /\ runTimeError' = TRUE
  /\ UNCHANGED <<pins, state, cpc, streaming, flushing, committed, eosDelivered, downstream>>

\* InitializeOutputSample: a buffer, or an error once there will be none.
GetBuffer ==
  /\ rpc = "buffer"
  /\ \/ ~committed /\ rpc' = "out"
     \/ committed /\ held < cBuffers /\ rpc' = "transform"
  /\ UNCHANGED <<pins, state, cpc, skipped, quality, flushing, runTimeError, committed,
                 eosDelivered, downstream>>

\* Transform fails, drops the sample, or makes one to deliver.
TransformSample ==
  /\ rpc = "transform"
  /\ \/ rpc' = "out" /\ UNCHANGED <<skipped, quality>>
     \/ rpc' = "out" /\ skipped' = TRUE /\ quality' = TRUE
     \/ rpc' = "deliver" /\ UNCHANGED <<skipped, quality>>
  /\ UNCHANGED <<pins, state, cpc, flushing, runTimeError, committed, eosDelivered,
                 downstream>>

\* Receive downstream refuses the sample, or takes it and perhaps keeps it; a
\* paused renderer does not return.
Deliver ==
  /\ rpc \in {"deliver", "pass"}
  /\ \/ (down = "Stopped" \/ downFlushing) /\ UNCHANGED held
     \/ /\ down = "Running" /\ ~downFlushing
        /\ held' \in {held, held + 1} /\ held' <= cBuffers
  /\ rpc' = "out" /\ skipped' = (skipped /\ rpc = "pass")
  /\ UNCHANGED <<pins, state, cpc, quality, flushing, runTimeError, committed,
                 eosDelivered, down, downFlushing>>

Streaming == GetBuffer \/ TransformSample \/ Deliver
Goes == StopReceived \/ PauseReceived

Next == DownStop \/ DownStart \/ DownRelease \/ StopUnconnected \/ Stop
        \/ PauseUnconnected \/ Pause \/ Goes \/ Run \/ BeginFlush \/ EndFlush
        \/ Receive \/ ReceiveBadType \/ Streaming

(* Fairness: control calls, the streaming thread, and a renderer that runs. *)
(* A thread waiting for m_csReceive gets it in the end.                     *)
Fairness == SF_vars(Goes) /\ WF_vars(Streaming) /\ WF_vars(DownRelease)

Spec == Init /\ [][Next]_vars /\ Fairness

-----------------------------------------------------------------------------
(* Properties.                                                             *)

\* The type invariant.
TypeOK ==
  /\ {in, out, flushing, runTimeError, committed, eosDelivered, skipped, quality,
      downFlushing} \subseteq BOOLEAN
  /\ {state, down} \subseteq {"Stopped", "Paused", "Running"}
  /\ cpc \in {"idle", "stop", "pause"}
  /\ rpc \in {"out", "buffer", "transform", "deliver", "pass"}
  /\ held \in 0..cBuffers

\* Once Stop has returned no thread is inside the filter's Receive, and none is
\* waiting for a buffer.
QuietWhenStopped == (state = "Stopped" /\ cpc = "idle") => rpc = "out"

\* Stop and Pause return, although the streaming thread holds m_csReceive while it
\* waits for a buffer or for the filter downstream, and that thread leaves a filter
\* that is being flushed.
CallsReturn ==
  /\ cpc # "idle" ~> cpc = "idle"
  /\ (flushing /\ rpc # "out") ~> (~flushing \/ rpc = "out")
=============================================================================
