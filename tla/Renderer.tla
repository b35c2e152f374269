------------------------------ MODULE Renderer ------------------------------
(***************************************************************************)
(* CBaseRenderer with its input pin (renbase.cpp): a streaming thread      *)
(* brings samples and waits in Receive until the clock says that a sample  *)
(* is due, a control thread runs, pauses, stops and flushes, and a timer   *)
(* reports the end of the stream.                                          *)
(*                                                                         *)
(* Every control call holds m_InterfaceLock from its beginning to its end, *)
(* so one control thread stands for all that may call; cpc says how far    *)
(* the call has got where another thread can look in between.  The         *)
(* sections of the streaming thread that hold m_InterfaceLock are single   *)
(* steps, taken while no control call is in progress.  m_RendererLock is   *)
(* held across steps by BeginFlush alone.                                  *)
(***************************************************************************)
EXTENDS Integers, FiniteSets

CONSTANTS
  Samples,   \* records [start, stop, timed, type]: what a source may send
  NoSample,  \* m_pMediaSample is NULL
  MaxTime,   \* stream times beyond this one are not told apart
  DeliveryWait, \* TIMEOUT_DELIVERYWAIT: an end as near as that is not waited for
  Cookies    \* advise cookies the clock may give out; 0 is none

ASSUME RendererAssumption ==
  /\ MaxTime \in Nat /\ DeliveryWait \in Nat \ {0}
  /\ Samples \subseteq [start : 0..MaxTime, stop : 0..MaxTime,
                        timed : BOOLEAN, type : {"same", "refused"}]
  /\ NoSample \notin Samples
  /\ Cookies \subseteq Nat \ {0} /\ IsFiniteSet(Cookies)

VARIABLES
  state,        \* m_State
  old,          \* OldState of the Run or Pause in progress
  cpc,          \* place of the control thread; "idle" leaves m_InterfaceLock free
  rpc,          \* place of the streaming thread
  hasClock,     \* m_pClock is not NULL
  time,         \* the clock, less m_tStart
  advises,      \* the clock's list: cookie -> ticks until it sets m_RenderEvent
  dwAdvise,     \* m_dwAdvise
  renderEvent,  \* m_RenderEvent, reset by the wait it ends
  threadSignal, \* m_ThreadSignal
  ready,        \* m_evComplete
  inReceive,    \* m_bInReceive
  streaming,    \* m_bStreaming
  abort,        \* m_bAbort
  sample,       \* m_pMediaSample
  signal,       \* m_SignalTime
  eos,          \* m_bEOS
  delivered,    \* m_bEOSDelivered
  eosTimer,     \* m_EndOfStreamTimer is not 0
  timer,        \* ticks until the multimedia timer calls back, or Off
  tpc,          \* the timer's thread: "called" while it waits for m_RendererLock
  flushing,     \* m_bFlushing of the pin
  failed,       \* m_bRunTimeError of the pin
  overtaken     \* history: a control call has come between the end of the wait
                \* and the rendering of the sample the thread waited for

Off == -1
clock == <<time, advises>>
endvars == <<eos, delivered, eosTimer, timer>>
vars == <<state, old, cpc, rpc, hasClock, clock, dwAdvise, renderEvent,
          threadSignal, ready, inReceive, streaming, abort, sample, signal,
          endvars, tpc, flushing, failed, overtaken>>

Init ==
  /\ state = "Stopped" /\ old = "Stopped" /\ cpc = "idle" /\ rpc = "idle"
  /\ hasClock \in BOOLEAN
  /\ time = 0 /\ advises = [c \in {} |-> 0] /\ dwAdvise = 0
  /\ renderEvent = FALSE /\ threadSignal = FALSE /\ ready = TRUE
  /\ inReceive = FALSE /\ streaming = FALSE /\ abort = FALSE
  /\ sample = NoSample /\ signal = 0
  /\ eos = FALSE /\ delivered = FALSE /\ eosTimer = FALSE /\ timer = Off
  /\ tpc = "idle" /\ flushing = FALSE /\ failed = FALSE /\ overtaken = FALSE

-----------------------------------------------------------------------------
(* The clock and the multimedia timer (external).                          *)

Sooner(n) == IF n = 0 THEN 0 ELSE n - 1

Tick ==
  /\ \/ time < MaxTime
     \/ \E c \in DOMAIN advises : advises[c] > 0
     \/ timer > 0
  /\ time' = IF time < MaxTime THEN time + 1 ELSE time
  /\ advises' = [c \in DOMAIN advises |-> Sooner(advises[c])]
  /\ timer' = IF timer = Off THEN timer ELSE Sooner(timer)
  /\ UNCHANGED <<state, old, cpc, rpc, hasClock, dwAdvise, renderEvent,
                 threadSignal, ready, inReceive, streaming, abort, sample,
                 signal, eos, delivered, eosTimer, tpc, flushing, failed,
                 overtaken>>

Without(c) == [d \in DOMAIN advises \ {c} |-> advises[d]]

Fire ==
  /\ \E c \in DOMAIN advises :
       /\ advises[c] = 0
       /\ advises' = Without(c)
  /\ renderEvent' = TRUE
  /\ UNCHANGED <<state, old, cpc, rpc, hasClock, time, dwAdvise, threadSignal,
                 ready, inReceive, streaming, abort, sample, signal, endvars,
                 tpc, flushing, failed, overtaken>>

TimerFires ==
  /\ timer = 0 /\ tpc = "idle"
  /\ timer' = Off /\ tpc' = "called"
  /\ UNCHANGED <<state, old, cpc, rpc, hasClock, clock, dwAdvise, renderEvent,
                 threadSignal, ready, inReceive, streaming, abort, sample,
                 signal, eos, delivered, eosTimer, flushing, failed, overtaken>>

-----------------------------------------------------------------------------
(* The pieces the calls are made of.                                       *)

\* A sample's end before its start: GetSampleTimes fails.
Inverted(s) == s.timed /\ s.stop < s.start

\* Faulty: forgets the renderer without a clock.
ScheduleByClock(s, t) ==
  IF ~s.timed \/ ~hasClock
    THEN UNCHANGED <<renderEvent, advises, dwAdvise>>
    ELSE \E c \in Cookies \ DOMAIN advises :
           /\ dwAdvise' = c
           /\ advises' = [d \in DOMAIN advises \cup {c} |->
                            IF d # c THEN advises[d]
                            ELSE IF s.start > t THEN s.start - t ELSE 0]
           /\ UNCHANGED renderEvent

\* ScheduleSample, in a stream at time t: the sample is due at once, or an
\* advise link is set up.
ScheduleSample(s, t) ==
  IF ~s.timed \/ ~hasClock
    THEN renderEvent' = TRUE /\ UNCHANGED <<advises, dwAdvise>>
    ELSE \E c \in Cookies \ DOMAIN advises :
           /\ dwAdvise' = c
           /\ advises' = [d \in DOMAIN advises \cup {c} |->
                            IF d # c THEN advises[d]
                            ELSE IF s.start > t THEN s.start - t ELSE 0]
           /\ UNCHANGED renderEvent

\* Faulty: leaves the event set.
CancelKeepsEvent == advises' = Without(dwAdvise) /\ dwAdvise' = 0 /\ UNCHANGED renderEvent

\* Faulty: leaves the link with the clock.
CancelKeepsAdvise == dwAdvise' = 0 /\ renderEvent' = FALSE /\ UNCHANGED advises

CancelNotification ==
  /\ advises' = Without(dwAdvise)
  /\ dwAdvise' = 0
  /\ renderEvent' = FALSE

\* Faulty: does not wait for the end of the last sample.
SendAtOnce(e, str, t) ==
  IF ~e \/ delivered \/ eosTimer THEN UNCHANGED <<delivered, eosTimer, timer>>
  ELSE delivered' = str /\ UNCHANGED <<eosTimer, timer>>

\* The end of the last sample is no nearer than the delivery wait.
TooEarly(t) == hasClock /\ signal - t >= DeliveryWait

\* Faulty: sets no timer.
SendWithoutTimer(e, str, t) ==
  IF ~e \/ delivered \/ eosTimer THEN UNCHANGED <<delivered, eosTimer, timer>>
  ELSE IF TooEarly(t)
    THEN UNCHANGED <<delivered, eosTimer, timer>>
    ELSE delivered' = str /\ UNCHANGED <<eosTimer, timer>>

\* SendEndOfStream, given m_bEOS, m_bStreaming and the stream time; with
\* NotifyEndOfStream, which is silent when the renderer does not stream.
SendEndOfStream(e, str, t) ==
  IF ~e \/ delivered \/ eosTimer THEN UNCHANGED <<delivered, eosTimer, timer>>
  ELSE IF TooEarly(t)
    THEN eosTimer' = TRUE /\ timer' = signal - t /\ UNCHANGED delivered
    ELSE delivered' = str /\ UNCHANGED <<eosTimer, timer>>

\* timeKillEvent comes back only when no callback is running.
KillTimer ==
  IF eosTimer THEN tpc = "idle" /\ eosTimer' = FALSE /\ timer' = Off
              ELSE UNCHANGED <<eosTimer, timer>>

\* Faulty: forgets that a sample may be waiting already.
StateCompleteAtEnd(oldState) == eos

\* CompleteStateChange
StateComplete(oldState) == eos \/ (sample # NoSample /\ oldState # "Stopped")

\* Between its wait and its last section the streaming thread holds no lock.
Woken == rpc \in {"fired", "final"}

-----------------------------------------------------------------------------
(* Stop, Pause, Run.                                                       *)

\* Another state change comes only after the filters upstream have stopped
\* too, with their threads, and never in the middle of a flush.
GraphAllows == (state = "Stopped" => rpc = "idle") /\ ~flushing

Stop ==
  /\ cpc = "idle" /\ state # "Stopped"
  /\ state' = "Stopped"
  /\ sample' = NoSample /\ failed' = FALSE
  /\ streaming' = FALSE /\ delivered' = FALSE
  /\ threadSignal' = TRUE
  /\ cpc' = "stopKill"
  /\ UNCHANGED <<old, rpc, hasClock, clock, dwAdvise, renderEvent, ready,
                 inReceive, abort, signal, eos, eosTimer, timer, tpc, flushing,
                 overtaken>>

StopCancel ==
  /\ cpc = "stopKill"
  /\ KillTimer
  /\ eos' = FALSE /\ delivered' = FALSE /\ signal' = 0
  /\ CancelNotification
  /\ ready' = TRUE
  /\ cpc' = "stopWait"
  /\ UNCHANGED <<state, old, rpc, hasClock, time, threadSignal, inReceive,
                 streaming, abort, sample, tpc, flushing, failed, overtaken>>

StopReturns ==
  /\ cpc = "stopWait" /\ ~inReceive
  /\ abort' = FALSE
  /\ cpc' = "idle"
  /\ UNCHANGED <<state, old, rpc, hasClock, clock, dwAdvise, renderEvent,
                 threadSignal, ready, inReceive, streaming, sample, signal,
                 endvars, tpc, flushing, failed, overtaken>>

PauseAgain ==
  /\ cpc = "idle" /\ state = "Paused" /\ GraphAllows
  /\ ready' = StateComplete("Paused")
  /\ UNCHANGED <<state, old, cpc, rpc, hasClock, clock, dwAdvise, renderEvent,
                 threadSignal, inReceive, streaming, abort, sample, signal,
                 endvars, tpc, flushing, failed, overtaken>>

\* The first half of Pause, which Run of a stopped filter goes through as well.
BeginPause(next) ==
  /\ old' = state
  /\ state' = "Paused"
  /\ streaming' = FALSE /\ delivered' = FALSE
  /\ threadSignal' = FALSE
  /\ CancelNotification
  /\ overtaken' = (overtaken \/ Woken)
  /\ cpc' = next
  /\ UNCHANGED <<rpc, hasClock, time, inReceive, abort, sample, signal, eos,
                 eosTimer, timer, tpc, flushing, failed>>

Pause ==
  /\ cpc = "idle" /\ state # "Paused" /\ GraphAllows
  /\ BeginPause("pauseKill")
  /\ UNCHANGED ready

EndPause ==
  /\ cpc \in {"pauseKill", "runKill"}
  /\ KillTimer
  /\ abort' = (abort /\ old # "Stopped")
  /\ sample' = IF old = "Stopped" THEN NoSample ELSE sample
  /\ ready' = StateComplete(old)
  /\ cpc' = IF cpc = "runKill" THEN "run" ELSE "idle"
  /\ UNCHANGED <<state, old, rpc, hasClock, clock, dwAdvise, renderEvent,
                 threadSignal, inReceive, streaming, signal, eos, delivered,
                 tpc, flushing, failed, overtaken>>

RunStopped ==
  /\ cpc = "idle" /\ state = "Stopped" /\ GraphAllows
  /\ ready' = TRUE
  /\ BeginPause("runKill")

RunPaused ==
  /\ cpc = "idle" /\ state = "Paused" /\ GraphAllows
  /\ ready' = TRUE
  /\ old' = state
  /\ cpc' = "run"
  /\ UNCHANGED <<state, rpc, hasClock, clock, dwAdvise, renderEvent,
                 threadSignal, inReceive, streaming, abort, sample, signal,
                 endvars, tpc, flushing, failed, overtaken>>

\* StartStreaming; the stream time starts again.
StartStreaming ==
  /\ streaming' = TRUE
  /\ time' = 0
  /\ \/ /\ sample' = NoSample
        /\ SendEndOfStream(eos, TRUE, 0)
        /\ UNCHANGED <<advises, dwAdvise, renderEvent>>
     \/ /\ sample' # NoSample /\ Inverted(sample')
        /\ renderEvent' = TRUE
        /\ UNCHANGED <<advises, dwAdvise, delivered, eosTimer, timer>>
     \/ /\ sample' # NoSample /\ ~Inverted(sample')
        /\ ScheduleSample(sample', 0)
        /\ UNCHANGED <<delivered, eosTimer, timer>>

Run ==
  /\ cpc = "run"
  /\ state' = "Running"
  /\ threadSignal' = FALSE
  /\ abort' = (abort /\ old # "Stopped")
  /\ sample' = IF old = "Stopped" THEN NoSample ELSE sample
  /\ StartStreaming
  /\ overtaken' = (overtaken \/ Woken)
  /\ cpc' = "idle"
  /\ UNCHANGED <<old, rpc, hasClock, ready, inReceive, signal, eos, tpc,
                 flushing, failed>>

-----------------------------------------------------------------------------
(* Flushing and a change of the display.                                   *)

BeginFlush ==
  /\ cpc = "idle" /\ ~flushing
  /\ flushing' = TRUE
  /\ ready' = (ready /\ state # "Paused")
  /\ threadSignal' = TRUE
  /\ CancelNotification
  /\ sample' = NoSample
  /\ cpc' = "flushWait"
  /\ UNCHANGED <<state, old, rpc, hasClock, time, inReceive, streaming, abort,
                 signal, endvars, tpc, failed, overtaken>>

\* WaitForReceiveToComplete, with both locks held.
FlushWaits ==
  /\ cpc = "flushWait" /\ ~inReceive
  /\ cpc' = "flushKill"
  /\ UNCHANGED <<state, old, rpc, hasClock, clock, dwAdvise, renderEvent,
                 threadSignal, ready, inReceive, streaming, abort, sample,
                 signal, endvars, tpc, flushing, failed, overtaken>>

\* ResetEndOfStream, with m_RendererLock given back.
FlushReset ==
  /\ cpc = "flushKill"
  /\ KillTimer
  /\ eos' = FALSE /\ delivered' = FALSE /\ signal' = 0
  /\ cpc' = "idle"
  /\ UNCHANGED <<state, old, rpc, hasClock, clock, dwAdvise, renderEvent,
                 threadSignal, ready, inReceive, streaming, abort, sample, tpc,
                 flushing, failed, overtaken>>

\* Who flushes lets the thread that pushes come back first, as the base class
\* asks ("no thread pushing any more without a further receive").
EndFlush ==
  /\ cpc = "idle" /\ flushing /\ rpc = "idle"
  /\ flushing' = FALSE /\ failed' = FALSE
  /\ threadSignal' = FALSE
  /\ UNCHANGED <<state, old, cpc, rpc, hasClock, clock, dwAdvise, renderEvent,
                 ready, inReceive, streaming, abort, sample, signal, endvars,
                 tpc, overtaken>>

\* The window's thread, under m_RendererLock.
OnDisplayChange ==
  /\ cpc # "flushWait"
  /\ abort' = TRUE /\ sample' = NoSample
  /\ UNCHANGED <<state, old, cpc, rpc, hasClock, clock, dwAdvise, renderEvent,
                 threadSignal, ready, inReceive, streaming, signal, endvars,
                 tpc, flushing, failed, overtaken>>

Control == Stop \/ StopCancel \/ StopReturns \/ PauseAgain \/ Pause \/ EndPause
           \/ RunStopped \/ RunPaused \/ Run
           \/ BeginFlush \/ FlushWaits \/ FlushReset \/ EndFlush

-----------------------------------------------------------------------------
(* The streaming thread.                                                   *)

\* PrepareReceive: the base class refuses the sample, or its new type.
RefuseReceive ==
  /\ rpc = "idle" /\ cpc = "idle"
  /\ \E s \in Samples :
       /\ \/ state = "Stopped" \/ flushing \/ failed
          \/ s.type = "refused"
       /\ failed' = (failed \/ (state # "Stopped" /\ ~flushing))
  /\ rpc' = "error"
  /\ UNCHANGED <<state, old, cpc, hasClock, clock, dwAdvise, renderEvent,
                 threadSignal, ready, inReceive, streaming, abort, sample,
                 signal, endvars, tpc, flushing, overtaken>>

Receivable(s) ==
  /\ rpc = "idle" /\ cpc = "idle"
  /\ state # "Stopped" /\ ~flushing /\ ~failed /\ s.type # "refused"

\* A sample too many: after the end of the stream, or after an abort.
UnexpectedReceive ==
  /\ \E s \in Samples : Receivable(s)
  /\ sample # NoSample \/ eos \/ abort
  /\ ready' = TRUE
  /\ rpc' = "error"
  /\ UNCHANGED <<state, old, cpc, hasClock, clock, dwAdvise, renderEvent,
                 threadSignal, inReceive, streaming, abort, sample, signal,
                 endvars, tpc, flushing, failed, overtaken>>

\* A sample without sensible times is dropped while streaming, and the source
\* sees a success: no step of this module.
PrepareReceive ==
  /\ sample = NoSample /\ ~eos /\ ~abort
  /\ \E s \in Samples :
       /\ Receivable(s)
       /\ IF streaming THEN ~Inverted(s) /\ ScheduleSample(s, time)
                       ELSE UNCHANGED <<advises, dwAdvise, renderEvent>>
       /\ signal' = s.stop
       /\ sample' = s
  /\ inReceive' = TRUE
  /\ rpc' = "check"
  /\ UNCHANGED <<state, old, cpc, hasClock, time, threadSignal, ready,
                 streaming, abort, endvars, tpc, flushing, failed, overtaken>>

\* Receive reads m_State with no lock held.
CheckPaused ==
  /\ rpc = "check"
  /\ IF state = "Paused" THEN rpc' = "first" /\ inReceive' = FALSE
                         ELSE rpc' = "wait" /\ UNCHANGED inReceive
  /\ UNCHANGED <<state, old, cpc, hasClock, clock, dwAdvise, renderEvent,
                 threadSignal, ready, streaming, abort, sample, signal, endvars,
                 tpc, flushing, failed, overtaken>>

FirstSample ==
  /\ rpc = "first" /\ cpc = "idle"
  /\ IF state = "Stopped" THEN rpc' = "idle" /\ UNCHANGED inReceive
                          ELSE rpc' = "ready" /\ inReceive' = TRUE
  /\ UNCHANGED <<state, old, cpc, hasClock, clock, dwAdvise, renderEvent,
                 threadSignal, ready, streaming, abort, sample, signal, endvars,
                 tpc, flushing, failed, overtaken>>

FirstReady ==
  /\ rpc = "ready"
  /\ ready' = TRUE
  /\ rpc' = "wait"
  /\ UNCHANGED <<state, old, cpc, hasClock, clock, dwAdvise, renderEvent,
                 threadSignal, inReceive, streaming, abort, sample, signal,
                 endvars, tpc, flushing, failed, overtaken>>

\* Faulty: still says that it is in Receive.
ReleasedInReceive ==
  /\ rpc = "wait" /\ threadSignal
  /\ rpc' = "idle"
  /\ UNCHANGED <<state, old, cpc, hasClock, clock, dwAdvise, renderEvent,
                 threadSignal, ready, inReceive, streaming, abort, sample,
                 signal, endvars, tpc, flushing, failed, overtaken>>

\* WaitForRenderTime: the thread signal has precedence.
Released ==
  /\ rpc = "wait" /\ threadSignal
  /\ inReceive' = FALSE
  /\ rpc' = "idle"
  /\ UNCHANGED <<state, old, cpc, hasClock, clock, dwAdvise, renderEvent,
                 threadSignal, ready, streaming, abort, sample, signal, endvars,
                 tpc, flushing, failed, overtaken>>

Due ==
  /\ rpc = "wait" /\ ~threadSignal /\ renderEvent
  /\ renderEvent' = FALSE
  /\ rpc' = "fired"
  /\ UNCHANGED <<state, old, cpc, hasClock, clock, dwAdvise, threadSignal,
                 ready, inReceive, streaming, abort, sample, signal, endvars,
                 tpc, flushing, failed, overtaken>>

\* SignalTimerFired, without a lock.
SignalTimerFired ==
  /\ rpc = "fired"
  /\ dwAdvise' = 0
  /\ inReceive' = FALSE
  /\ rpc' = "final"
  /\ UNCHANGED <<state, old, cpc, hasClock, clock, renderEvent, threadSignal,
                 ready, streaming, abort, sample, signal, endvars, tpc,
                 flushing, failed, overtaken>>

RenderStopped ==
  /\ rpc = "final" /\ cpc = "idle" /\ state = "Stopped"
  /\ rpc' = "idle"
  /\ UNCHANGED <<state, old, cpc, hasClock, clock, dwAdvise, renderEvent,
                 threadSignal, ready, inReceive, streaming, abort, sample,
                 signal, endvars, tpc, flushing, failed, overtaken>>

\* Render draws the sample if the renderer still streams.
Render ==
  /\ rpc = "final" /\ cpc = "idle" /\ state # "Stopped"
  /\ sample' = NoSample
  /\ SendEndOfStream(eos, streaming, time)
  /\ CancelNotification
  /\ rpc' = "idle"
  /\ UNCHANGED <<state, old, cpc, hasClock, time, threadSignal, ready,
                 inReceive, streaming, abort, signal, eos, tpc, flushing,
                 failed, overtaken>>

\* CRendererInputPin::Receive after an error: EC_ERRORABORT, and EC_COMPLETE
\* unless it has been sent.
ReportError ==
  /\ rpc = "error" /\ cpc = "idle"
  /\ IF state # "Stopped" /\ ~flushing /\ ~abort /\ ~failed
       THEN /\ delivered' = (delivered \/ streaming)
            /\ eosTimer' = (eosTimer /\ (delivered \/ ~streaming))
            /\ failed' = TRUE
       ELSE UNCHANGED <<delivered, eosTimer, failed>>
  /\ rpc' = "idle"
  /\ UNCHANGED <<state, old, cpc, hasClock, clock, dwAdvise, renderEvent,
                 threadSignal, ready, inReceive, streaming, abort, sample,
                 signal, eos, timer, tpc, flushing, overtaken>>

\* The pin's and the renderer's EndOfStream; the source calls it between samples.
EndOfStream ==
  /\ rpc = "idle" /\ cpc = "idle"
  /\ state # "Stopped" /\ ~flushing /\ ~failed
  /\ eos' = TRUE
  /\ IF sample # NoSample THEN UNCHANGED <<ready, delivered, eosTimer, timer>>
     ELSE /\ ready' = TRUE
          /\ IF streaming THEN SendEndOfStream(TRUE, TRUE, time)
                          ELSE UNCHANGED <<delivered, eosTimer, timer>>
  /\ UNCHANGED <<state, old, cpc, rpc, hasClock, clock, dwAdvise, renderEvent,
                 threadSignal, inReceive, streaming, abort, sample, signal, tpc,
                 flushing, failed, overtaken>>

TimerCallback ==
  /\ tpc = "called" /\ cpc # "flushWait"
  /\ tpc' = "idle"
  /\ IF eosTimer
       THEN IF eos /\ ~delivered /\ TooEarly(time)
              THEN timer' = signal - time /\ UNCHANGED <<eosTimer, delivered>>
              ELSE /\ eosTimer' = FALSE
                   /\ delivered' = (delivered \/ (eos /\ streaming))
                   /\ UNCHANGED timer
       ELSE UNCHANGED <<delivered, eosTimer, timer>>
  /\ UNCHANGED <<state, old, cpc, rpc, hasClock, clock, dwAdvise, renderEvent,
                 threadSignal, ready, inReceive, streaming, abort, sample,
                 signal, eos, flushing, failed, overtaken>>

Receiving == CheckPaused \/ FirstSample \/ FirstReady \/ Released \/ Due
             \/ SignalTimerFired \/ RenderStopped \/ Render \/ ReportError

Streaming == RefuseReceive \/ UnexpectedReceive \/ PrepareReceive
             \/ Receiving \/ EndOfStream

Next == Control \/ Streaming \/ OnDisplayChange
        \/ Tick \/ Fire \/ TimerFires \/ TimerCallback

(* Fairness: a call in progress goes on, the clock ticks and fires.  The    *)
(* lock is won in the end by a thread that keeps asking for it.  Nothing is *)
(* assumed of the source, nor of who calls Run, Pause, Stop and BeginFlush. *)
ControlGoesOn == StopCancel \/ StopReturns \/ EndPause \/ Run \/ FlushWaits \/ FlushReset

Fairness ==
  /\ WF_vars(ControlGoesOn)
  /\ SF_vars(Receiving)
  /\ WF_vars(Tick) /\ WF_vars(Fire) /\ WF_vars(TimerFires)
  /\ SF_vars(TimerCallback)

Spec == Init /\ [][Next]_vars /\ Fairness

-----------------------------------------------------------------------------
(* Properties.                                                             *)

Places == {"idle", "check", "first", "ready", "wait", "fired", "final", "error"}

\* The type invariant.
TypeOK ==
  /\ state \in {"Stopped", "Paused", "Running"}
  /\ old \in {"Stopped", "Paused", "Running"}
  /\ cpc \in {"idle", "stopKill", "stopWait", "pauseKill", "runKill", "run",
              "flushWait", "flushKill"}
  /\ rpc \in Places /\ tpc \in {"idle", "called"}
  /\ hasClock \in BOOLEAN /\ time \in 0..MaxTime
  /\ DOMAIN advises \subseteq Cookies
  /\ \A c \in DOMAIN advises : advises[c] \in 0..MaxTime
  /\ dwAdvise \in Cookies \cup {0}
  /\ {renderEvent, threadSignal, ready, inReceive, streaming, abort, eos,
      delivered, eosTimer, flushing, failed, overtaken} \subseteq BOOLEAN
  /\ sample \in Samples \cup {NoSample}
  /\ signal \in 0..MaxTime
  /\ timer \in {Off} \cup 0..MaxTime

\* A renderer that does not stream has no advise link with the clock and its
\* event is not set, as Stop, Pause and Run assert: whatever the streaming
\* thread was doing when the control call came in.
Quiet ==
  (~streaming /\ cpc = "idle" /\ ~overtaken) =>
     dwAdvise = 0 /\ ~renderEvent /\ DOMAIN advises = {}

\* A sample is drawn at its time or later, never by a notification meant for
\* another sample or for an earlier run.
Drawn == rpc = "final" /\ rpc' = "idle" /\ streaming /\ sample # NoSample
NeverEarly ==
  [][(Drawn /\ hasClock /\ sample.timed /\ ~Inverted(sample) /\ ~overtaken)
       => time >= sample.start]_vars

\* EC_COMPLETE without an error: the last sample has been rendered or thrown
\* away, and its end has come or is nearer than TIMEOUT_DELIVERYWAIT.
CompleteAfterLast ==
  [][(delivered' /\ ~delivered /\ failed' = failed)
       => eos' /\ sample' = NoSample /\ (hasClock => signal - time' < DeliveryWait)]_vars

\* A pause with a sample, or at the end of the stream, is complete: who waits in
\* GetState for the pause to complete does not wait for ever.
CueCompletes ==
  (state = "Paused" /\ cpc = "idle" /\ rpc \in {"idle", "wait"}
     /\ (sample # NoSample \/ eos)) => ready

\* Stop, Pause, Run and BeginFlush return, although they wait for the streaming
\* thread and for the timer's callback.
ControlReturns == cpc # "idle" ~> cpc = "idle"

\* While the renderer runs, the streaming thread is not left in its wait.
ReceiveReturns == (rpc = "wait" /\ streaming) ~> (rpc # "wait" \/ ~streaming \/ abort)

\* The end of the stream is reported unless something puts an end to the run.
EosDelivered ==
  (eos /\ streaming) ~> (delivered \/ ~streaming \/ ~eos \/ failed \/ abort)

\* Between calls a renderer is as its state says: no advise and no set event
\* without streaming, and a pause is complete as soon as it can be.
PauseIsWhole == TypeOK /\ Quiet /\ CueCompletes

\* Who is waited for comes back, and the end of the stream is reported.
CallsReturn == ControlReturns /\ ReceiveReturns /\ EosDelivered

\* A comment of renbase.cpp says that GetState does not return "intermediate"
\* after Run.  The code does not keep it.
CompleteWhenRunning == (state = "Running" /\ cpc = "idle") => ready

\* A comment of BeginFlush says that a paused renderer reports "intermediate"
\* until it gets some data again.  The code does not keep it.
CuedByData ==
  (state = "Paused" /\ cpc = "idle" /\ rpc \in {"idle", "wait"} /\ ready /\ ~abort
     /\ ~flushing /\ ~overtaken)
     => (sample # NoSample \/ eos)
=============================================================================
