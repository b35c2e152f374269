--------------------------- MODULE RendererProofs ----------------------------
(***************************************************************************)
(* Proofs about the renderer (Renderer), and about the units of MCClock:   *)
(* the clock that advises the renderer, enumerators and lists, for every   *)
(* value of their constants.  RInv, CLInv, ENInv and LIInv are the         *)
(* inductive invariants; the last part puts those of MCClock together.     *)
(***************************************************************************)
EXTENDS Renderer, MCClock, FiniteSetTheorems, SequenceTheorems, TLAPS

(* The places, and what is in the variables.                               *)
RPlaces ==
  /\ state \in {"Stopped", "Paused", "Running"}
  /\ old \in {"Stopped", "Paused", "Running"}
  /\ cpc \in {"idle", "stopKill", "stopWait", "pauseKill", "runKill", "run",
              "flushWait", "flushKill"}
  /\ rpc \in Places /\ tpc \in {"idle", "called"}

RBooleans ==
  /\ hasClock \in BOOLEAN /\ renderEvent \in BOOLEAN /\ threadSignal \in BOOLEAN
  /\ ready \in BOOLEAN /\ inReceive \in BOOLEAN /\ streaming \in BOOLEAN
  /\ abort \in BOOLEAN /\ eos \in BOOLEAN /\ delivered \in BOOLEAN
  /\ eosTimer \in BOOLEAN /\ flushing \in BOOLEAN /\ failed \in BOOLEAN
  /\ overtaken \in BOOLEAN

RTimes ==
  /\ time \in 0..MaxTime /\ signal \in 0..MaxTime
  /\ timer \in {Off} \cup 0..MaxTime
  /\ sample \in Samples \cup {NoSample}

RLinks ==
  /\ DOMAIN advises \subseteq Cookies
  /\ \A c \in DOMAIN advises : advises[c] \in 0..MaxTime
  /\ dwAdvise \in Cookies \cup {0}

(* How far a control call has got.                                         *)
RCalls ==
  /\ cpc \in {"pauseKill", "runKill", "run"} => state = "Paused" /\ ~flushing
  /\ cpc \in {"stopKill", "stopWait"} => state = "Stopped"
  /\ cpc \in {"flushWait", "flushKill"} => flushing
  /\ streaming => state = "Running"
  /\ threadSignal => state = "Stopped" \/ flushing

(* A sample is held only while the streaming thread is in Receive, and not *)
(* in a stopped or flushing renderer.                                      *)
RSample ==
  /\ sample # NoSample =>
       /\ rpc \in {"check", "first", "ready", "wait", "fired", "final"}
       /\ state # "Stopped" /\ ~flushing

(* After the end of the stream nothing is received, and the timer runs for *)
(* a renderer without a sample.                                            *)
REnd ==
  /\ eos => rpc \in {"idle", "error"}
  /\ eosTimer => eos /\ sample = NoSample

Silent == dwAdvise = 0 /\ ~renderEvent /\ DOMAIN advises = {}

(* One notification at most is on its way, by the link m_dwAdvise stands   *)
(* for or in the event, and none where nobody is to be notified.           *)
RQuiet ==
  ~overtaken =>
    /\ DOMAIN advises \subseteq {dwAdvise}
    /\ (renderEvent \/ rpc \in {"fired", "final"}) => DOMAIN advises = {}
    /\ (cpc # "stopKill" /\ (~streaming \/ flushing \/ rpc \in {"idle", "error"})) => Silent

(* The notification on its way is for the sample in hand.                  *)
RDue ==
  (streaming /\ ~overtaken /\ hasClock /\ sample # NoSample /\ sample.timed
     /\ ~Inverted(sample)) =>
    /\ \A c \in DOMAIN advises : time + advises[c] >= sample.start
    /\ (renderEvent \/ rpc \in {"fired", "final"}) => time >= sample.start

RCue ==
  (state = "Paused" /\ cpc = "idle" /\ rpc \in {"idle", "error", "wait"}
     /\ (sample # NoSample \/ eos)) => ready

RInv == RPlaces /\ RBooleans /\ RTimes /\ RLinks
        /\ RCalls /\ RSample /\ REnd /\ RQuiet /\ RDue /\ RCue


LEMMA RNext ==
  ASSUME Next
  PROVE  \/ Stop
         \/ StopCancel
         \/ StopReturns
         \/ PauseAgain
         \/ Pause
         \/ EndPause
         \/ RunStopped
         \/ RunPaused
         \/ Run
         \/ BeginFlush
         \/ FlushWaits
         \/ FlushReset
         \/ EndFlush
         \/ RefuseReceive
         \/ UnexpectedReceive
         \/ PrepareReceive
         \/ CheckPaused
         \/ FirstSample
         \/ FirstReady
         \/ Released
         \/ Due
         \/ SignalTimerFired
         \/ RenderStopped
         \/ Render
         \/ ReportError
         \/ EndOfStream
         \/ OnDisplayChange
         \/ Tick
         \/ Fire
         \/ TimerFires
         \/ TimerCallback
  BY DEF Next, Control, Streaming, Receiving


(* ScheduleSample: a link within the clock's bounds, and due at the sample's *)
(* start or later.                                                         *)
LEMMA Scheduled ==
  ASSUME NEW s \in Samples, NEW t \in 0..MaxTime, RLinks, ScheduleSample(s, t)
  PROVE  RLinks'
  <1>1. CASE UNCHANGED <<advises, dwAdvise>>
    BY <1>1 DEF RLinks
  <1>2. CASE ~(~s.timed \/ ~hasClock)
    <2>1. PICK c \in Cookies \ DOMAIN advises :
            /\ dwAdvise' = c
            /\ advises' = [d \in DOMAIN advises \cup {c} |->
                             IF d # c THEN advises[d]
                             ELSE IF s.start > t THEN s.start - t ELSE 0]
      BY <1>2 DEF ScheduleSample
    <2>2. DOMAIN advises' = DOMAIN advises \cup {c}
      BY <2>1
    <2>3. s.start \in 0..MaxTime
      BY RendererAssumption
    <2>4. ASSUME NEW d \in DOMAIN advises'
          PROVE  advises'[d] \in 0..MaxTime
      BY <2>1, <2>2, <2>3, RendererAssumption DEF RLinks
    <2> QED
      BY <2>1, <2>2, <2>4 DEF RLinks
  <1> QED
    BY <1>1, <1>2 DEF ScheduleSample

LEMMA ScheduledDue ==
  ASSUME NEW s \in Samples, NEW t \in 0..MaxTime, Silent, ScheduleSample(s, t),
         s.timed, hasClock
  PROVE  ~renderEvent' /\ \A c \in DOMAIN advises' : t + advises'[c] >= s.start
  <1>1. PICK c \in Cookies \ DOMAIN advises :
            /\ dwAdvise' = c
            /\ advises' = [d \in DOMAIN advises \cup {c} |->
                             IF d # c THEN advises[d]
                             ELSE IF s.start > t THEN s.start - t ELSE 0]
            /\ UNCHANGED renderEvent
    BY DEF ScheduleSample
  <1>2. DOMAIN advises' = {c}
    BY <1>1 DEF Silent
  <1>3. s.start \in 0..MaxTime
    BY RendererAssumption
  <1>4. t + advises'[c] >= s.start
    BY <1>1, <1>3, RendererAssumption
  <1> QED
    BY <1>1, <1>2, <1>4 DEF Silent

LEMMA RPlacesStep ==
  RPlaces /\ [Next]_vars
    => RPlaces'
  <1> SUFFICES ASSUME RPlaces, [Next]_vars
               PROVE  RPlaces'
    OBVIOUS
  <1>a. ASSUME UNCHANGED <<state, old, cpc, rpc, tpc>>
        PROVE  RPlaces'
    BY <1>a DEF RPlaces, Places
  <1>b. CASE PauseAgain \/ EndFlush \/ EndOfStream \/ OnDisplayChange \/ Tick
          \/ Fire
    <2>1. UNCHANGED <<state, old, cpc, rpc, tpc>>
      BY <1>b
         DEF EndFlush, EndOfStream, Fire, OnDisplayChange, PauseAgain, SendEndOfStream,
             Sooner, StateComplete, Tick, Without, clock, endvars
    <2> QED
      BY <1>a, <2>1
  <1>c. CASE UNCHANGED vars
    BY <1>a, <1>c DEF vars, clock, endvars
  <1>1. CASE Stop
    BY <1>1, RendererAssumption DEF RPlaces, Places, Stop, clock, endvars
  <1>2. CASE StopCancel
    BY <1>2, RendererAssumption
       DEF RPlaces, Places, StopCancel, KillTimer, CancelNotification, Without, clock,
           endvars
  <1>3. CASE StopReturns
    BY <1>3, RendererAssumption DEF RPlaces, Places, StopReturns, clock, endvars
  <1>4. CASE Pause
    BY <1>4, RendererAssumption
       DEF RPlaces, Places, Pause, BeginPause, CancelNotification, Without, Woken,
           GraphAllows, clock, endvars
  <1>5. CASE EndPause
    BY <1>5, RendererAssumption
       DEF RPlaces, Places, EndPause, KillTimer, StateComplete, clock, endvars
  <1>6. CASE RunStopped
    BY <1>6, RendererAssumption
       DEF RPlaces, Places, RunStopped, BeginPause, CancelNotification, Without, Woken,
           GraphAllows, clock, endvars
  <1>7. CASE RunPaused
    BY <1>7, RendererAssumption
       DEF RPlaces, Places, RunPaused, GraphAllows, clock, endvars
  <1>8. CASE Run
    BY <1>8, RendererAssumption
       DEF RPlaces, Places, Run, StartStreaming, ScheduleSample, SendEndOfStream, Woken,
           clock, endvars
  <1>9. CASE BeginFlush
    BY <1>9, RendererAssumption
       DEF RPlaces, Places, BeginFlush, CancelNotification, Without, clock, endvars
  <1>10. CASE FlushWaits
    BY <1>10, RendererAssumption DEF RPlaces, Places, FlushWaits, clock, endvars
  <1>11. CASE FlushReset
    BY <1>11, RendererAssumption
       DEF RPlaces, Places, FlushReset, KillTimer, clock, endvars
  <1>12. CASE RefuseReceive
    BY <1>12, RendererAssumption DEF RPlaces, Places, RefuseReceive, clock, endvars
  <1>13. CASE UnexpectedReceive
    BY <1>13, RendererAssumption
       DEF RPlaces, Places, UnexpectedReceive, Receivable, clock, endvars
  <1>14. CASE PrepareReceive
    BY <1>14, RendererAssumption
       DEF RPlaces, Places, PrepareReceive, Receivable, ScheduleSample, clock, endvars
  <1>15. CASE CheckPaused
    BY <1>15, RendererAssumption DEF RPlaces, Places, CheckPaused, clock, endvars
  <1>16. CASE FirstSample
    BY <1>16, RendererAssumption DEF RPlaces, Places, FirstSample, clock, endvars
  <1>17. CASE FirstReady
    BY <1>17, RendererAssumption DEF RPlaces, Places, FirstReady, clock, endvars
  <1>18. CASE Released
    BY <1>18, RendererAssumption DEF RPlaces, Places, Released, clock, endvars
  <1>19. CASE Due
    BY <1>19, RendererAssumption DEF RPlaces, Places, Due, clock, endvars
  <1>20. CASE SignalTimerFired
    BY <1>20, RendererAssumption DEF RPlaces, Places, SignalTimerFired, clock, endvars
  <1>21. CASE RenderStopped
    BY <1>21, RendererAssumption DEF RPlaces, Places, RenderStopped, clock, endvars
  <1>22. CASE Render
    BY <1>22, RendererAssumption
       DEF RPlaces, Places, Render, SendEndOfStream, CancelNotification, Without, clock,
           endvars
  <1>23. CASE ReportError
    BY <1>23, RendererAssumption DEF RPlaces, Places, ReportError, clock, endvars
  <1>24. CASE TimerFires
    BY <1>24, RendererAssumption DEF RPlaces, Places, TimerFires, clock, endvars
  <1>25. CASE TimerCallback
    BY <1>25, RendererAssumption DEF RPlaces, Places, TimerCallback, clock, endvars
  <1> QED
    BY RNext, <1>b, <1>c, <1>1, <1>2, <1>3, <1>4, <1>5, <1>6, <1>7, <1>8, <1>9, <1>10,
       <1>11, <1>12, <1>13, <1>14, <1>15, <1>16, <1>17, <1>18, <1>19, <1>20, <1>21,
       <1>22, <1>23, <1>24, <1>25

LEMMA RBooleansStep ==
  RBooleans /\ [Next]_vars
    => RBooleans'
  <1> SUFFICES ASSUME RBooleans, [Next]_vars
               PROVE  RBooleans'
    OBVIOUS
  <1>a. ASSUME UNCHANGED <<hasClock, renderEvent, threadSignal, ready, inReceive,
                           streaming, abort, eos, delivered, eosTimer, flushing, failed, overtaken>>
        PROVE  RBooleans'
    BY <1>a DEF RBooleans
  <1>b. CASE FlushWaits \/ RenderStopped \/ Tick \/ TimerFires
    <2>1. UNCHANGED <<hasClock, renderEvent, threadSignal, ready, inReceive, streaming,
                      abort, eos, delivered, eosTimer, flushing, failed, overtaken>>
      BY <1>b DEF FlushWaits, RenderStopped, Sooner, Tick, TimerFires, clock, endvars
    <2> QED
      BY <1>a, <2>1
  <1>c. CASE UNCHANGED vars
    BY <1>a, <1>c DEF vars, clock, endvars
  <1>1. CASE Stop
    BY <1>1, RendererAssumption DEF RBooleans, Stop, clock, endvars
  <1>2. CASE StopCancel
    BY <1>2, RendererAssumption
       DEF RBooleans, StopCancel, KillTimer, CancelNotification, Without, clock,
           endvars
  <1>3. CASE StopReturns
    BY <1>3, RendererAssumption DEF RBooleans, StopReturns, clock, endvars
  <1>4. CASE PauseAgain
    BY <1>4, RendererAssumption DEF RBooleans, PauseAgain, StateComplete, clock, endvars
  <1>5. CASE Pause
    BY <1>5, RendererAssumption
       DEF RBooleans, Pause, BeginPause, CancelNotification, Without, Woken,
           GraphAllows, clock, endvars
  <1>6. CASE EndPause
    BY <1>6, RendererAssumption
       DEF RBooleans, EndPause, KillTimer, StateComplete, clock, endvars
  <1>7. CASE RunStopped
    BY <1>7, RendererAssumption
       DEF RBooleans, RunStopped, BeginPause, CancelNotification, Without, Woken,
           GraphAllows, clock, endvars
  <1>8. CASE RunPaused
    BY <1>8, RendererAssumption DEF RBooleans, RunPaused, GraphAllows, clock, endvars
  <1>9. CASE Run
    BY <1>9, RendererAssumption
       DEF RBooleans, Run, StartStreaming, ScheduleSample, SendEndOfStream, Woken,
           clock, endvars
  <1>10. CASE BeginFlush
    BY <1>10, RendererAssumption
       DEF RBooleans, BeginFlush, CancelNotification, Without, clock, endvars
  <1>11. CASE FlushReset
    BY <1>11, RendererAssumption DEF RBooleans, FlushReset, KillTimer, clock, endvars
  <1>12. CASE EndFlush
    BY <1>12, RendererAssumption DEF RBooleans, EndFlush, clock, endvars
  <1>13. CASE RefuseReceive
    BY <1>13, RendererAssumption DEF RBooleans, RefuseReceive, clock, endvars
  <1>14. CASE UnexpectedReceive
    BY <1>14, RendererAssumption
       DEF RBooleans, UnexpectedReceive, Receivable, clock, endvars
  <1>15. CASE PrepareReceive
    BY <1>15, RendererAssumption
       DEF RBooleans, PrepareReceive, Receivable, ScheduleSample, clock, endvars
  <1>16. CASE CheckPaused
    <2>1. inReceive' = inReceive \/ inReceive' = FALSE
      BY <1>16 DEF CheckPaused
    <2>2. inReceive' \in BOOLEAN
      BY <2>1 DEF RBooleans
    <2>3. UNCHANGED <<hasClock, renderEvent, threadSignal, ready, streaming, abort, eos,
                      delivered, eosTimer, flushing, failed, overtaken>>
      BY <1>16 DEF CheckPaused, endvars
    <2> QED
      BY <2>2, <2>3 DEF RBooleans
  <1>17. CASE FirstSample
    <2>1. inReceive' = inReceive \/ inReceive' = TRUE
      BY <1>17 DEF FirstSample
    <2>2. inReceive' \in BOOLEAN
      BY <2>1 DEF RBooleans
    <2>3. UNCHANGED <<hasClock, renderEvent, threadSignal, ready, streaming, abort, eos,
                      delivered, eosTimer, flushing, failed, overtaken>>
      BY <1>17 DEF FirstSample, endvars
    <2> QED
      BY <2>2, <2>3 DEF RBooleans
  <1>18. CASE FirstReady
    BY <1>18, RendererAssumption DEF RBooleans, FirstReady, clock, endvars
  <1>19. CASE Released
    BY <1>19, RendererAssumption DEF RBooleans, Released, clock, endvars
  <1>20. CASE Due
    BY <1>20, RendererAssumption DEF RBooleans, Due, clock, endvars
  <1>21. CASE SignalTimerFired
    BY <1>21, RendererAssumption DEF RBooleans, SignalTimerFired, clock, endvars
  <1>22. CASE Render
    BY <1>22, RendererAssumption
       DEF RBooleans, Render, SendEndOfStream, CancelNotification, Without, clock,
           endvars
  <1>23. CASE ReportError
    <2>1. \/ UNCHANGED <<delivered, eosTimer, failed>>
          \/ /\ delivered' = (delivered \/ streaming)
             /\ eosTimer' = (eosTimer /\ (delivered \/ ~streaming))
             /\ failed' = TRUE
      BY <1>23, Zenon DEF ReportError
    <2>2. delivered' \in BOOLEAN /\ eosTimer' \in BOOLEAN /\ failed' \in BOOLEAN
      BY <2>1, Zenon DEF RBooleans
    <2>3. UNCHANGED <<hasClock, renderEvent, threadSignal, ready, inReceive, streaming,
                      abort,
                      eos, flushing, overtaken>>
      BY <1>23 DEF ReportError
    <2> QED
      BY <2>2, <2>3 DEF RBooleans
  <1>24. CASE EndOfStream
    BY <1>24, RendererAssumption
       DEF RBooleans, EndOfStream, SendEndOfStream, clock, endvars
  <1>25. CASE OnDisplayChange
    BY <1>25, RendererAssumption DEF RBooleans, OnDisplayChange, clock, endvars
  <1>26. CASE Fire
    BY <1>26, RendererAssumption DEF RBooleans, Fire, Without, clock, endvars
  <1>27. CASE TimerCallback
    <2>1. \/ UNCHANGED <<delivered, eosTimer>>
          \/ delivered' = (delivered \/ (eos /\ streaming)) /\ eosTimer' = FALSE
      BY <1>27, Zenon DEF TimerCallback
    <2>2. delivered' \in BOOLEAN /\ eosTimer' \in BOOLEAN
      BY <2>1, Zenon DEF RBooleans
    <2>3. UNCHANGED <<hasClock, renderEvent, threadSignal, ready, inReceive, streaming,
                      abort,
                      eos, flushing, failed, overtaken>>
      BY <1>27 DEF TimerCallback
    <2> QED
      BY <2>2, <2>3 DEF RBooleans
  <1> QED
    BY RNext, <1>b, <1>c, <1>1, <1>2, <1>3, <1>4, <1>5, <1>6, <1>7, <1>8, <1>9, <1>10,
       <1>11, <1>12, <1>13, <1>14, <1>15, <1>16, <1>17, <1>18, <1>19, <1>20, <1>21,
       <1>22, <1>23, <1>24, <1>25, <1>26, <1>27

LEMMA RTimesStep ==
  RTimes /\ [Next]_vars
    => RTimes'
  <1> SUFFICES ASSUME RTimes, [Next]_vars
               PROVE  RTimes'
    OBVIOUS
  <1>a. ASSUME UNCHANGED <<time, signal, timer, sample>>
        PROVE  RTimes'
    BY <1>a DEF RTimes, Off
  <1>b. CASE StopReturns \/ PauseAgain \/ Pause \/ RunStopped \/ RunPaused
          \/ FlushWaits \/ EndFlush \/ RefuseReceive \/ UnexpectedReceive
          \/ CheckPaused \/ FirstSample \/ FirstReady \/ Released \/ Due
          \/ SignalTimerFired \/ RenderStopped \/ ReportError \/ Fire
    <2>1. UNCHANGED <<time, signal, timer, sample>>
      BY <1>b
         DEF BeginPause, CancelNotification, CheckPaused, Due, EndFlush, Fire,
             FirstReady, FirstSample, FlushWaits, Pause, PauseAgain, Receivable,
             RefuseReceive, Released, RenderStopped, ReportError, RunPaused, RunStopped,
             SignalTimerFired, StateComplete, StopReturns, UnexpectedReceive, Without,
             Woken, clock, endvars
    <2> QED
      BY <1>a, <2>1
  <1>c. CASE UNCHANGED vars
    BY <1>a, <1>c DEF vars, clock, endvars
  <1>1. CASE Stop
    BY <1>1, RendererAssumption DEF RTimes, Off, Stop, clock, endvars
  <1>2. CASE StopCancel
    BY <1>2, RendererAssumption
       DEF RTimes, Off, StopCancel, KillTimer, CancelNotification, Without, clock,
           endvars
  <1>3. CASE EndPause
    BY <1>3, RendererAssumption
       DEF RTimes, Off, EndPause, KillTimer, StateComplete, clock, endvars
  <1>4. CASE Run
    BY <1>4, RendererAssumption
       DEF RTimes, Off, Run, StartStreaming, ScheduleSample, SendEndOfStream, Woken,
           TooEarly, clock, endvars
  <1>5. CASE BeginFlush
    BY <1>5, RendererAssumption
       DEF RTimes, Off, BeginFlush, CancelNotification, Without, clock, endvars
  <1>6. CASE FlushReset
    BY <1>6, RendererAssumption DEF RTimes, Off, FlushReset, KillTimer, clock, endvars
  <1>7. CASE PrepareReceive
    BY <1>7, RendererAssumption
       DEF RTimes, Off, PrepareReceive, Receivable, ScheduleSample, clock, endvars
  <1>8. CASE Render
    BY <1>8, RendererAssumption
       DEF RTimes, Off, Render, SendEndOfStream, CancelNotification, Without, TooEarly,
           clock, endvars
  <1>9. CASE EndOfStream
    BY <1>9, RendererAssumption
       DEF RTimes, Off, EndOfStream, SendEndOfStream, TooEarly, clock, endvars
  <1>10. CASE OnDisplayChange
    BY <1>10, RendererAssumption DEF RTimes, Off, OnDisplayChange, clock, endvars
  <1>11. CASE Tick
    BY <1>11, RendererAssumption DEF RTimes, Off, Tick, Sooner, clock, endvars
  <1>12. CASE TimerFires
    BY <1>12, RendererAssumption DEF RTimes, Off, TimerFires, clock, endvars
  <1>13. CASE TimerCallback
    BY <1>13, RendererAssumption
       DEF RTimes, Off, TimerCallback, TooEarly, clock, endvars
  <1> QED
    BY RNext, <1>b, <1>c, <1>1, <1>2, <1>3, <1>4, <1>5, <1>6, <1>7, <1>8, <1>9, <1>10,
       <1>11, <1>12, <1>13

LEMMA RLinksStep ==
  RLinks /\ RTimes /\ [Next]_vars
    => RLinks'
  <1> SUFFICES ASSUME RLinks, RTimes, [Next]_vars
               PROVE  RLinks'
    OBVIOUS
  <1>a. ASSUME UNCHANGED <<advises, dwAdvise>>
        PROVE  RLinks'
    BY <1>a DEF RLinks
  <1>b. CASE Stop \/ StopReturns \/ PauseAgain \/ EndPause \/ RunPaused
          \/ FlushWaits \/ FlushReset \/ EndFlush \/ RefuseReceive
          \/ UnexpectedReceive \/ CheckPaused \/ FirstSample \/ FirstReady
          \/ Released \/ Due \/ RenderStopped \/ ReportError \/ EndOfStream
          \/ OnDisplayChange \/ TimerFires \/ TimerCallback
    <2>1. UNCHANGED <<advises, dwAdvise>>
      BY <1>b
         DEF CheckPaused, Due, EndFlush, EndOfStream, EndPause, FirstReady, FirstSample,
             FlushReset, FlushWaits, KillTimer, OnDisplayChange, PauseAgain, Receivable,
             RefuseReceive, Released, RenderStopped, ReportError, RunPaused,
             SendEndOfStream, StateComplete, Stop, StopReturns, TimerCallback,
             TimerFires, UnexpectedReceive, clock, endvars
    <2> QED
      BY <1>a, <2>1
  <1>c. CASE UNCHANGED vars
    BY <1>a, <1>c DEF vars, clock, endvars
  <1>1. CASE StopCancel
    BY <1>1, RendererAssumption
       DEF RLinks, RTimes, StopCancel, KillTimer, CancelNotification, Without, clock,
           endvars
  <1>2. CASE Pause
    BY <1>2, RendererAssumption
       DEF RLinks, RTimes, Pause, BeginPause, CancelNotification, Without, Woken,
           GraphAllows, clock, endvars
  <1>3. CASE RunStopped
    BY <1>3, RendererAssumption
       DEF RLinks, RTimes, RunStopped, BeginPause, CancelNotification, Without, Woken,
           GraphAllows, clock, endvars
  <1>4. CASE Run
    <2>1. CASE UNCHANGED <<advises, dwAdvise>>
      BY <2>1 DEF RLinks
    <2>2. ASSUME sample' # NoSample, ScheduleSample(sample', 0)
          PROVE  RLinks'
      <3>1. sample' \in Samples
        BY <1>4, <2>2 DEF Run, RTimes
      <3> QED
        BY <2>2, <3>1, Scheduled, RendererAssumption
    <2> QED
      BY <1>4, <2>1, <2>2 DEF Run, StartStreaming
  <1>5. CASE BeginFlush
    BY <1>5, RendererAssumption
       DEF RLinks, RTimes, BeginFlush, CancelNotification, Without, clock, endvars
  <1>6. CASE PrepareReceive
    <2>1. CASE UNCHANGED <<advises, dwAdvise>>
      BY <2>1 DEF RLinks
    <2>2. ASSUME NEW s \in Samples, ScheduleSample(s, time)
          PROVE  RLinks'
      BY <2>2, Scheduled DEF RTimes
    <2> QED
      BY <1>6, <2>1, <2>2 DEF PrepareReceive
  <1>7. CASE SignalTimerFired
    BY <1>7, RendererAssumption DEF RLinks, RTimes, SignalTimerFired, clock, endvars
  <1>8. CASE Render
    BY <1>8, RendererAssumption
       DEF RLinks, RTimes, Render, SendEndOfStream, CancelNotification, Without, clock,
           endvars
  <1>9. CASE Tick
    BY <1>9, RendererAssumption DEF RLinks, RTimes, Tick, Sooner, clock, endvars
  <1>10. CASE Fire
    BY <1>10, RendererAssumption DEF RLinks, RTimes, Fire, Without, clock, endvars
  <1> QED
    BY RNext, <1>b, <1>c, <1>1, <1>2, <1>3, <1>4, <1>5, <1>6, <1>7, <1>8, <1>9, <1>10

LEMMA RCallsStep ==
  RCalls /\ RPlaces /\ [Next]_vars
    => RCalls'
  <1> SUFFICES ASSUME RCalls, RPlaces, [Next]_vars
               PROVE  RCalls'
    OBVIOUS
  <1>a. ASSUME UNCHANGED <<cpc, state, flushing, streaming, threadSignal>>
        PROVE  RCalls'
    BY <1>a DEF RCalls
  <1>b. CASE PauseAgain \/ RefuseReceive \/ UnexpectedReceive \/ PrepareReceive
          \/ CheckPaused \/ FirstSample \/ FirstReady \/ Released \/ Due
          \/ SignalTimerFired \/ RenderStopped \/ Render \/ ReportError
          \/ EndOfStream \/ OnDisplayChange \/ Tick \/ Fire \/ TimerFires
          \/ TimerCallback
    <2>1. UNCHANGED <<cpc, state, flushing, streaming, threadSignal>>
      BY <1>b
         DEF CancelNotification, CheckPaused, Due, EndOfStream, Fire, FirstReady,
             FirstSample, OnDisplayChange, PauseAgain, PrepareReceive, Receivable,
             RefuseReceive, Released, Render, RenderStopped, ReportError,
             ScheduleSample, SendEndOfStream, SignalTimerFired, Sooner, StateComplete,
             Tick, TimerCallback, TimerFires, UnexpectedReceive, Without, clock,
             endvars
    <2> QED
      BY <1>a, <2>1
  <1>c. CASE UNCHANGED vars
    BY <1>a, <1>c DEF vars, clock, endvars
  <1>1. CASE Stop
    BY <1>1, RendererAssumption DEF RCalls, RPlaces, Stop, clock, endvars
  <1>2. CASE StopCancel
    BY <1>2, RendererAssumption
       DEF RCalls, RPlaces, StopCancel, KillTimer, CancelNotification, Without, clock,
           endvars
  <1>3. CASE StopReturns
    BY <1>3, RendererAssumption DEF RCalls, RPlaces, StopReturns, clock, endvars
  <1>4. CASE Pause
    BY <1>4, RendererAssumption
       DEF RCalls, RPlaces, Pause, BeginPause, CancelNotification, Without, Woken,
           GraphAllows, clock, endvars
  <1>5. CASE EndPause
    BY <1>5, RendererAssumption
       DEF RCalls, RPlaces, EndPause, KillTimer, StateComplete, clock, endvars
  <1>6. CASE RunStopped
    BY <1>6, RendererAssumption
       DEF RCalls, RPlaces, RunStopped, BeginPause, CancelNotification, Without, Woken,
           GraphAllows, clock, endvars
  <1>7. CASE RunPaused
    BY <1>7, RendererAssumption
       DEF RCalls, RPlaces, RunPaused, GraphAllows, clock, endvars
  <1>8. CASE Run
    BY <1>8, RendererAssumption
       DEF RCalls, RPlaces, Run, StartStreaming, ScheduleSample, SendEndOfStream, Woken,
           clock, endvars
  <1>9. CASE BeginFlush
    BY <1>9, RendererAssumption
       DEF RCalls, RPlaces, BeginFlush, CancelNotification, Without, clock, endvars
  <1>10. CASE FlushWaits
    BY <1>10, RendererAssumption DEF RCalls, RPlaces, FlushWaits, clock, endvars
  <1>11. CASE FlushReset
    BY <1>11, RendererAssumption
       DEF RCalls, RPlaces, FlushReset, KillTimer, clock, endvars
  <1>12. CASE EndFlush
    BY <1>12, RendererAssumption DEF RCalls, RPlaces, EndFlush, clock, endvars
  <1> QED
    BY RNext, <1>b, <1>c, <1>1, <1>2, <1>3, <1>4, <1>5, <1>6, <1>7, <1>8, <1>9, <1>10,
       <1>11, <1>12

LEMMA RSampleStep ==
  RSample /\ RPlaces /\ RCalls /\ [Next]_vars
    => RSample'
  <1> SUFFICES ASSUME RSample, RPlaces, RCalls, [Next]_vars
               PROVE  RSample'
    OBVIOUS
  <1>a. ASSUME UNCHANGED <<sample, rpc, state, flushing>>
        PROVE  RSample'
    BY <1>a DEF RSample
  <1>b. CASE StopCancel \/ StopReturns \/ PauseAgain \/ RunPaused \/ FlushWaits
          \/ FlushReset \/ EndOfStream \/ Tick \/ Fire \/ TimerFires
          \/ TimerCallback
    <2>1. UNCHANGED <<sample, rpc, state, flushing>>
      BY <1>b
         DEF CancelNotification, EndOfStream, Fire, FlushReset, FlushWaits, KillTimer,
             PauseAgain, RunPaused, SendEndOfStream, Sooner, StateComplete, StopCancel,
             StopReturns, Tick, TimerCallback, TimerFires, Without, clock, endvars
    <2> QED
      BY <1>a, <2>1
  <1>c. CASE UNCHANGED vars
    BY <1>a, <1>c DEF vars, clock, endvars
  <1>1. CASE Stop
    BY <1>1, RendererAssumption DEF RSample, RPlaces, RCalls, Stop, clock, endvars
  <1>2. CASE Pause
    BY <1>2, RendererAssumption
       DEF RSample, RPlaces, RCalls, Pause, BeginPause, CancelNotification, Without,
           Woken, GraphAllows, clock, endvars
  <1>3. CASE EndPause
    BY <1>3, RendererAssumption
       DEF RSample, RPlaces, RCalls, EndPause, KillTimer, StateComplete, clock, endvars
  <1>4. CASE RunStopped
    BY <1>4, RendererAssumption
       DEF RSample, RPlaces, RCalls, RunStopped, BeginPause, CancelNotification,
           Without, Woken, GraphAllows, clock, endvars
  <1>5. CASE Run
    BY <1>5, RendererAssumption
       DEF RSample, RPlaces, RCalls, Run, StartStreaming, ScheduleSample,
           SendEndOfStream, Woken, clock, endvars
  <1>6. CASE BeginFlush
    BY <1>6, RendererAssumption
       DEF RSample, RPlaces, RCalls, BeginFlush, CancelNotification, Without, clock,
           endvars
  <1>7. CASE EndFlush
    BY <1>7, RendererAssumption DEF RSample, RPlaces, RCalls, EndFlush, clock, endvars
  <1>8. CASE RefuseReceive
    BY <1>8, RendererAssumption
       DEF RSample, RPlaces, RCalls, RefuseReceive, clock, endvars
  <1>9. CASE UnexpectedReceive
    BY <1>9, RendererAssumption
       DEF RSample, RPlaces, RCalls, UnexpectedReceive, Receivable, clock, endvars
  <1>10. CASE PrepareReceive
    BY <1>10, RendererAssumption
       DEF RSample, RPlaces, RCalls, PrepareReceive, Receivable, ScheduleSample, clock,
           endvars
  <1>11. CASE CheckPaused
    BY <1>11, RendererAssumption
       DEF RSample, RPlaces, RCalls, CheckPaused, clock, endvars
  <1>12. CASE FirstSample
    BY <1>12, RendererAssumption
       DEF RSample, RPlaces, RCalls, FirstSample, clock, endvars
  <1>13. CASE FirstReady
    BY <1>13, RendererAssumption
       DEF RSample, RPlaces, RCalls, FirstReady, clock, endvars
  <1>14. CASE Released
    BY <1>14, RendererAssumption DEF RSample, RPlaces, RCalls, Released, clock, endvars
  <1>15. CASE Due
    BY <1>15, RendererAssumption DEF RSample, RPlaces, RCalls, Due, clock, endvars
  <1>16. CASE SignalTimerFired
    BY <1>16, RendererAssumption
       DEF RSample, RPlaces, RCalls, SignalTimerFired, clock, endvars
  <1>17. CASE RenderStopped
    BY <1>17, RendererAssumption
       DEF RSample, RPlaces, RCalls, RenderStopped, clock, endvars
  <1>18. CASE Render
    BY <1>18, RendererAssumption
       DEF RSample, RPlaces, RCalls, Render, SendEndOfStream, CancelNotification,
           Without, clock, endvars
  <1>19. CASE ReportError
    BY <1>19, RendererAssumption
       DEF RSample, RPlaces, RCalls, ReportError, clock, endvars
  <1>20. CASE OnDisplayChange
    BY <1>20, RendererAssumption
       DEF RSample, RPlaces, RCalls, OnDisplayChange, clock, endvars
  <1> QED
    BY RNext, <1>b, <1>c, <1>1, <1>2, <1>3, <1>4, <1>5, <1>6, <1>7, <1>8, <1>9, <1>10,
       <1>11, <1>12, <1>13, <1>14, <1>15, <1>16, <1>17, <1>18, <1>19, <1>20

LEMMA REndStep ==
  REnd /\ RPlaces /\ RBooleans /\ RSample /\ RCalls /\ [Next]_vars
    => REnd'
  <1> SUFFICES ASSUME REnd, RPlaces, RBooleans, RSample, RCalls, [Next]_vars
               PROVE  REnd'
    OBVIOUS
  <1>a. ASSUME UNCHANGED <<eos, rpc, eosTimer, sample>>
        PROVE  REnd'
    BY <1>a DEF REnd
  <1>b. CASE StopReturns \/ PauseAgain \/ Pause \/ RunStopped \/ RunPaused
          \/ FlushWaits \/ EndFlush \/ Tick \/ Fire \/ TimerFires
    <2>1. UNCHANGED <<eos, rpc, eosTimer, sample>>
      BY <1>b
         DEF BeginPause, CancelNotification, EndFlush, Fire, FlushWaits, Pause,
             PauseAgain, RunPaused, RunStopped, Sooner, StateComplete, StopReturns,
             Tick, TimerFires, Without, Woken, clock, endvars
    <2> QED
      BY <1>a, <2>1
  <1>c. CASE UNCHANGED vars
    BY <1>a, <1>c DEF vars, clock, endvars
  <1>1. CASE Stop
    BY <1>1, RendererAssumption
       DEF REnd, RPlaces, RBooleans, RSample, RCalls, Stop, clock, endvars
  <1>2. CASE StopCancel
    BY <1>2, RendererAssumption
       DEF REnd, RPlaces, RBooleans, RSample, RCalls, StopCancel, KillTimer,
           CancelNotification, Without, clock, endvars
  <1>3. CASE EndPause
    BY <1>3, RendererAssumption
       DEF REnd, RPlaces, RBooleans, RSample, RCalls, EndPause, KillTimer,
           StateComplete, clock, endvars
  <1>4. CASE Run
    BY <1>4, RendererAssumption
       DEF REnd, RPlaces, RBooleans, RSample, RCalls, Run, StartStreaming,
           ScheduleSample, SendEndOfStream, Woken, clock, endvars
  <1>5. CASE BeginFlush
    BY <1>5, RendererAssumption
       DEF REnd, RPlaces, RBooleans, RSample, RCalls, BeginFlush, CancelNotification,
           Without, clock, endvars
  <1>6. CASE FlushReset
    BY <1>6, RendererAssumption
       DEF REnd, RPlaces, RBooleans, RSample, RCalls, FlushReset, KillTimer, clock,
           endvars
  <1>7. CASE RefuseReceive
    BY <1>7, RendererAssumption
       DEF REnd, RPlaces, RBooleans, RSample, RCalls, RefuseReceive, clock, endvars
  <1>8. CASE UnexpectedReceive
    BY <1>8, RendererAssumption
       DEF REnd, RPlaces, RBooleans, RSample, RCalls, UnexpectedReceive, Receivable,
           clock, endvars
  <1>9. CASE PrepareReceive
    BY <1>9, RendererAssumption
       DEF REnd, RPlaces, RBooleans, RSample, RCalls, PrepareReceive, Receivable,
           ScheduleSample, clock, endvars
  <1>10. CASE CheckPaused
    BY <1>10, RendererAssumption
       DEF REnd, RPlaces, RBooleans, RSample, RCalls, CheckPaused, clock, endvars
  <1>11. CASE FirstSample
    BY <1>11, RendererAssumption
       DEF REnd, RPlaces, RBooleans, RSample, RCalls, FirstSample, clock, endvars
  <1>12. CASE FirstReady
    BY <1>12, RendererAssumption
       DEF REnd, RPlaces, RBooleans, RSample, RCalls, FirstReady, clock, endvars
  <1>13. CASE Released
    BY <1>13, RendererAssumption
       DEF REnd, RPlaces, RBooleans, RSample, RCalls, Released, clock, endvars
  <1>14. CASE Due
    BY <1>14, RendererAssumption
       DEF REnd, RPlaces, RBooleans, RSample, RCalls, Due, clock, endvars
  <1>15. CASE SignalTimerFired
    BY <1>15, RendererAssumption
       DEF REnd, RPlaces, RBooleans, RSample, RCalls, SignalTimerFired, clock, endvars
  <1>16. CASE RenderStopped
    BY <1>16, RendererAssumption
       DEF REnd, RPlaces, RBooleans, RSample, RCalls, RenderStopped, clock, endvars
  <1>17. CASE Render
    BY <1>17, RendererAssumption
       DEF REnd, RPlaces, RBooleans, RSample, RCalls, Render, SendEndOfStream,
           CancelNotification, Without, clock, endvars
  <1>18. CASE ReportError
    BY <1>18, RendererAssumption
       DEF REnd, RPlaces, RBooleans, RSample, RCalls, ReportError, clock, endvars
  <1>19. CASE EndOfStream
    BY <1>19, RendererAssumption
       DEF REnd, RPlaces, RBooleans, RSample, RCalls, EndOfStream, SendEndOfStream,
           clock, endvars
  <1>20. CASE OnDisplayChange
    BY <1>20, RendererAssumption
       DEF REnd, RPlaces, RBooleans, RSample, RCalls, OnDisplayChange, clock, endvars
  <1>21. CASE TimerCallback
    BY <1>21, RendererAssumption
       DEF REnd, RPlaces, RBooleans, RSample, RCalls, TimerCallback, clock, endvars
  <1> QED
    BY RNext, <1>b, <1>c, <1>1, <1>2, <1>3, <1>4, <1>5, <1>6, <1>7, <1>8, <1>9, <1>10,
       <1>11, <1>12, <1>13, <1>14, <1>15, <1>16, <1>17, <1>18, <1>19, <1>20, <1>21

LEMMA RQuietStep ==
  RQuiet /\ RPlaces /\ RBooleans /\ RLinks /\ RCalls /\ RSample /\ [Next]_vars
    => RQuiet'
  <1> SUFFICES ASSUME RQuiet, RPlaces, RBooleans, RLinks, RCalls, RSample, [Next]_vars
               PROVE  RQuiet'
    OBVIOUS
  <1>a. ASSUME UNCHANGED <<overtaken, advises, dwAdvise, renderEvent, rpc, cpc, streaming,
                           flushing>>
        PROVE  RQuiet'
    BY <1>a DEF RQuiet, Silent
  <1>b. CASE PauseAgain \/ EndOfStream \/ OnDisplayChange \/ TimerFires
          \/ TimerCallback
    <2>1. UNCHANGED <<overtaken, advises, dwAdvise, renderEvent, rpc, cpc, streaming,
                      flushing>>
      BY <1>b
         DEF EndOfStream, OnDisplayChange, PauseAgain, SendEndOfStream, StateComplete,
             TimerCallback, TimerFires, clock, endvars
    <2> QED
      BY <1>a, <2>1
  <1>c. CASE UNCHANGED vars
    BY <1>a, <1>c DEF vars, clock, endvars
  <1>1. CASE Stop
    BY <1>1, RendererAssumption
       DEF RQuiet, RPlaces, RBooleans, RLinks, RCalls, RSample, Silent, Stop, clock,
           endvars
  <1>2. CASE StopCancel
    BY <1>2, RendererAssumption
       DEF RQuiet, RPlaces, RBooleans, RLinks, RCalls, RSample, Silent, StopCancel,
           KillTimer, CancelNotification, Without, clock, endvars
  <1>3. CASE StopReturns
    BY <1>3, RendererAssumption
       DEF RQuiet, RPlaces, RBooleans, RLinks, RCalls, RSample, Silent, StopReturns,
           clock, endvars
  <1>4. CASE Pause
    BY <1>4, RendererAssumption
       DEF RQuiet, RPlaces, RBooleans, RLinks, RCalls, RSample, Silent, Pause,
           BeginPause, CancelNotification, Without, Woken, GraphAllows, clock, endvars
  <1>5. CASE EndPause
    BY <1>5, RendererAssumption
       DEF RQuiet, RPlaces, RBooleans, RLinks, RCalls, RSample, Silent, EndPause,
           KillTimer, StateComplete, clock, endvars
  <1>6. CASE RunStopped
    BY <1>6, RendererAssumption
       DEF RQuiet, RPlaces, RBooleans, RLinks, RCalls, RSample, Silent, RunStopped,
           BeginPause, CancelNotification, Without, Woken, GraphAllows, clock, endvars
  <1>7. CASE RunPaused
    BY <1>7, RendererAssumption
       DEF RQuiet, RPlaces, RBooleans, RLinks, RCalls, RSample, Silent, RunPaused,
           GraphAllows, clock, endvars
  <1>8. CASE Run
    BY <1>8, RendererAssumption
       DEF RQuiet, RPlaces, RBooleans, RLinks, RCalls, RSample, Silent, Run,
           StartStreaming, ScheduleSample, SendEndOfStream, Woken, clock, endvars
  <1>9. CASE BeginFlush
    BY <1>9, RendererAssumption
       DEF RQuiet, RPlaces, RBooleans, RLinks, RCalls, RSample, Silent, BeginFlush,
           CancelNotification, Without, clock, endvars
  <1>10. CASE FlushWaits
    BY <1>10, RendererAssumption
       DEF RQuiet, RPlaces, RBooleans, RLinks, RCalls, RSample, Silent, FlushWaits,
           clock, endvars
  <1>11. CASE FlushReset
    BY <1>11, RendererAssumption
       DEF RQuiet, RPlaces, RBooleans, RLinks, RCalls, RSample, Silent, FlushReset,
           KillTimer, clock, endvars
  <1>12. CASE EndFlush
    BY <1>12, RendererAssumption
       DEF RQuiet, RPlaces, RBooleans, RLinks, RCalls, RSample, Silent, EndFlush, clock,
           endvars
  <1>13. CASE RefuseReceive
    BY <1>13, RendererAssumption
       DEF RQuiet, RPlaces, RBooleans, RLinks, RCalls, RSample, Silent, RefuseReceive,
           clock, endvars
  <1>14. CASE UnexpectedReceive
    BY <1>14, RendererAssumption
       DEF RQuiet, RPlaces, RBooleans, RLinks, RCalls, RSample, Silent,
           UnexpectedReceive, Receivable, clock, endvars
  <1>15. CASE PrepareReceive
    BY <1>15, RendererAssumption
       DEF RQuiet, RPlaces, RBooleans, RLinks, RCalls, RSample, Silent, PrepareReceive,
           Receivable, ScheduleSample, clock, endvars
  <1>16. CASE CheckPaused
    BY <1>16, RendererAssumption
       DEF RQuiet, RPlaces, RBooleans, RLinks, RCalls, RSample, Silent, CheckPaused,
           clock, endvars
  <1>17. CASE FirstSample
    BY <1>17, RendererAssumption
       DEF RQuiet, RPlaces, RBooleans, RLinks, RCalls, RSample, Silent, FirstSample,
           clock, endvars
  <1>18. CASE FirstReady
    BY <1>18, RendererAssumption
       DEF RQuiet, RPlaces, RBooleans, RLinks, RCalls, RSample, Silent, FirstReady,
           clock, endvars
  <1>19. CASE Released
    BY <1>19, RendererAssumption
       DEF RQuiet, RPlaces, RBooleans, RLinks, RCalls, RSample, Silent, Released, clock,
           endvars
  <1>20. CASE Due
    BY <1>20, RendererAssumption
       DEF RQuiet, RPlaces, RBooleans, RLinks, RCalls, RSample, Silent, Due, clock,
           endvars
  <1>21. CASE SignalTimerFired
    BY <1>21, RendererAssumption
       DEF RQuiet, RPlaces, RBooleans, RLinks, RCalls, RSample, Silent,
           SignalTimerFired, clock, endvars
  <1>22. CASE RenderStopped
    BY <1>22, RendererAssumption
       DEF RQuiet, RPlaces, RBooleans, RLinks, RCalls, RSample, Silent, RenderStopped,
           clock, endvars
  <1>23. CASE Render
    BY <1>23, RendererAssumption
       DEF RQuiet, RPlaces, RBooleans, RLinks, RCalls, RSample, Silent, Render,
           SendEndOfStream, CancelNotification, Without, clock, endvars
  <1>24. CASE ReportError
    BY <1>24, RendererAssumption
       DEF RQuiet, RPlaces, RBooleans, RLinks, RCalls, RSample, Silent, ReportError,
           clock, endvars
  <1>25. CASE Tick
    BY <1>25, RendererAssumption
       DEF RQuiet, RPlaces, RBooleans, RLinks, RCalls, RSample, Silent, Tick, Sooner,
           clock, endvars
  <1>26. CASE Fire
    BY <1>26, RendererAssumption
       DEF RQuiet, RPlaces, RBooleans, RLinks, RCalls, RSample, Silent, Fire, Without,
           clock, endvars
  <1> QED
    BY RNext, <1>b, <1>c, <1>1, <1>2, <1>3, <1>4, <1>5, <1>6, <1>7, <1>8, <1>9, <1>10,
       <1>11, <1>12, <1>13, <1>14, <1>15, <1>16, <1>17, <1>18, <1>19, <1>20, <1>21,
       <1>22, <1>23, <1>24, <1>25, <1>26

LEMMA RDueStep ==
  RDue /\ RPlaces /\ RBooleans /\ RTimes /\ RLinks /\ RCalls /\ RSample /\ RQuiet
  /\ [Next]_vars
    => RDue'
  <1> SUFFICES ASSUME RDue, RPlaces, RBooleans, RTimes, RLinks, RCalls, RSample, RQuiet, [Next]_vars
               PROVE  RDue'
    OBVIOUS
  <1>a. ASSUME UNCHANGED <<streaming, overtaken, hasClock, sample, advises, renderEvent,
                           rpc, time>>
        PROVE  RDue'
    BY <1>a DEF RDue, Inverted, Silent
  <1>b. CASE StopReturns \/ PauseAgain \/ RunPaused \/ FlushWaits \/ FlushReset
          \/ EndFlush \/ EndOfStream \/ TimerFires \/ TimerCallback
    <2>1. UNCHANGED <<streaming, overtaken, hasClock, sample, advises, renderEvent, rpc,
                      time>>
      BY <1>b
         DEF EndFlush, EndOfStream, FlushReset, FlushWaits, KillTimer, PauseAgain,
             RunPaused, SendEndOfStream, StateComplete, StopReturns, TimerCallback,
             TimerFires, clock, endvars
    <2> QED
      BY <1>a, <2>1
  <1>c. CASE UNCHANGED vars
    BY <1>a, <1>c DEF vars, clock, endvars
  <1>1. CASE Stop
    BY <1>1, RendererAssumption
       DEF RDue, RPlaces, RBooleans, RTimes, RLinks, RCalls, RSample, RQuiet, Inverted,
           Silent, Stop, clock, endvars
  <1>2. CASE StopCancel
    BY <1>2, RendererAssumption
       DEF RDue, RPlaces, RBooleans, RTimes, RLinks, RCalls, RSample, RQuiet, Inverted,
           Silent, StopCancel, KillTimer, CancelNotification, Without, clock, endvars
  <1>3. CASE Pause
    BY <1>3, RendererAssumption
       DEF RDue, RPlaces, RBooleans, RTimes, RLinks, RCalls, RSample, RQuiet, Inverted,
           Silent, Pause, BeginPause, CancelNotification, Without, Woken, GraphAllows,
           clock, endvars
  <1>4. CASE EndPause
    BY <1>4, RendererAssumption
       DEF RDue, RPlaces, RBooleans, RTimes, RLinks, RCalls, RSample, RQuiet, Inverted,
           Silent, EndPause, KillTimer, StateComplete, clock, endvars
  <1>5. CASE RunStopped
    BY <1>5, RendererAssumption
       DEF RDue, RPlaces, RBooleans, RTimes, RLinks, RCalls, RSample, RQuiet, Inverted,
           Silent, RunStopped, BeginPause, CancelNotification, Without, Woken,
           GraphAllows, clock, endvars
  <1>6. CASE Run
    <2> SUFFICES ASSUME ~overtaken', hasClock', sample' # NoSample, sample'.timed,
                        ~Inverted(sample')
                 PROVE  /\ \A c \in DOMAIN advises' : time' + advises'[c] >= sample'.start
                        /\ (renderEvent' \/ rpc' \in {"fired", "final"}) => time' >= sample'.start
      BY DEF RDue, Inverted
    <2>1. Silent /\ rpc' \notin {"fired", "final"} /\ time' = 0 /\ sample' \in Samples
      BY <1>6 DEF Run, Woken, StartStreaming, RQuiet, RCalls, RPlaces, RTimes
    <2>2. ScheduleSample(sample', 0)
      BY <1>6 DEF Run, StartStreaming
    <2>3. hasClock
      BY <1>6 DEF Run
    <2>a. 0 \in 0..MaxTime
      BY RendererAssumption
    <2>4. ~renderEvent' /\ \A c \in DOMAIN advises' : 0 + advises'[c] >= sample'.start
      BY <2>a, <2>1, <2>2, <2>3, ScheduledDue
    <2> QED
      BY <2>1, <2>4
  <1>7. CASE BeginFlush
    BY <1>7, RendererAssumption
       DEF RDue, RPlaces, RBooleans, RTimes, RLinks, RCalls, RSample, RQuiet, Inverted,
           Silent, BeginFlush, CancelNotification, Without, clock, endvars
  <1>8. CASE RefuseReceive
    BY <1>8, RendererAssumption
       DEF RDue, RPlaces, RBooleans, RTimes, RLinks, RCalls, RSample, RQuiet, Inverted,
           Silent, RefuseReceive, clock, endvars
  <1>9. CASE UnexpectedReceive
    BY <1>9, RendererAssumption
       DEF RDue, RPlaces, RBooleans, RTimes, RLinks, RCalls, RSample, RQuiet, Inverted,
           Silent, UnexpectedReceive, Receivable, clock, endvars
  <1>10. CASE PrepareReceive
    <2> SUFFICES ASSUME streaming', ~overtaken', hasClock', sample' # NoSample, sample'.timed,
                        ~Inverted(sample')
                 PROVE  /\ \A c \in DOMAIN advises' : time' + advises'[c] >= sample'.start
                        /\ (renderEvent' \/ rpc' \in {"fired", "final"}) => time' >= sample'.start
      BY DEF RDue, Inverted
    <2>1. PICK s \in Samples : s = sample' /\ ScheduleSample(s, time)
      BY <1>10 DEF PrepareReceive
    <2>2. Silent /\ rpc' = "check" /\ time' = time /\ hasClock
      BY <1>10 DEF PrepareReceive, Receivable, RQuiet
    <2>3. ~renderEvent' /\ \A c \in DOMAIN advises' : time + advises'[c] >= s.start
      BY <2>1, <2>2, ScheduledDue DEF RTimes
    <2> QED
      BY <2>1, <2>2, <2>3
  <1>11. CASE CheckPaused
    BY <1>11, RendererAssumption
       DEF RDue, RPlaces, RBooleans, RTimes, RLinks, RCalls, RSample, RQuiet, Inverted,
           Silent, CheckPaused, clock, endvars
  <1>12. CASE FirstSample
    BY <1>12, RendererAssumption
       DEF RDue, RPlaces, RBooleans, RTimes, RLinks, RCalls, RSample, RQuiet, Inverted,
           Silent, FirstSample, clock, endvars
  <1>13. CASE FirstReady
    BY <1>13, RendererAssumption
       DEF RDue, RPlaces, RBooleans, RTimes, RLinks, RCalls, RSample, RQuiet, Inverted,
           Silent, FirstReady, clock, endvars
  <1>14. CASE Released
    BY <1>14, RendererAssumption
       DEF RDue, RPlaces, RBooleans, RTimes, RLinks, RCalls, RSample, RQuiet, Inverted,
           Silent, Released, clock, endvars
  <1>15. CASE Due
    BY <1>15, RendererAssumption
       DEF RDue, RPlaces, RBooleans, RTimes, RLinks, RCalls, RSample, RQuiet, Inverted,
           Silent, Due, clock, endvars
  <1>16. CASE SignalTimerFired
    BY <1>16, RendererAssumption
       DEF RDue, RPlaces, RBooleans, RTimes, RLinks, RCalls, RSample, RQuiet, Inverted,
           Silent, SignalTimerFired, clock, endvars
  <1>17. CASE RenderStopped
    BY <1>17, RendererAssumption
       DEF RDue, RPlaces, RBooleans, RTimes, RLinks, RCalls, RSample, RQuiet, Inverted,
           Silent, RenderStopped, clock, endvars
  <1>18. CASE Render
    BY <1>18, RendererAssumption
       DEF RDue, RPlaces, RBooleans, RTimes, RLinks, RCalls, RSample, RQuiet, Inverted,
           Silent, Render, SendEndOfStream, CancelNotification, Without, clock, endvars
  <1>19. CASE ReportError
    BY <1>19, RendererAssumption
       DEF RDue, RPlaces, RBooleans, RTimes, RLinks, RCalls, RSample, RQuiet, Inverted,
           Silent, ReportError, clock, endvars
  <1>20. CASE OnDisplayChange
    BY <1>20, RendererAssumption
       DEF RDue, RPlaces, RBooleans, RTimes, RLinks, RCalls, RSample, RQuiet, Inverted,
           Silent, OnDisplayChange, clock, endvars
  <1>21. CASE Tick
    BY <1>21, RendererAssumption
       DEF RDue, RPlaces, RBooleans, RTimes, RLinks, RCalls, RSample, RQuiet, Inverted,
           Silent, Tick, Sooner, clock, endvars
  <1>22. CASE Fire
    BY <1>22, RendererAssumption
       DEF RDue, RPlaces, RBooleans, RTimes, RLinks, RCalls, RSample, RQuiet, Inverted,
           Silent, Fire, Without, clock, endvars
  <1> QED
    BY RNext, <1>b, <1>c, <1>1, <1>2, <1>3, <1>4, <1>5, <1>6, <1>7, <1>8, <1>9, <1>10,
       <1>11, <1>12, <1>13, <1>14, <1>15, <1>16, <1>17, <1>18, <1>19, <1>20, <1>21,
       <1>22

LEMMA RCueStep ==
  RCue /\ RPlaces /\ RBooleans /\ RCalls /\ RSample /\ REnd /\ [Next]_vars
    => RCue'
  <1> SUFFICES ASSUME RCue, RPlaces, RBooleans, RCalls, RSample, REnd, [Next]_vars
               PROVE  RCue'
    OBVIOUS
  <1>a. ASSUME UNCHANGED <<state, cpc, rpc, sample, eos, ready>>
        PROVE  RCue'
    BY <1>a DEF RCue
  <1>b. CASE EndFlush \/ Tick \/ Fire \/ TimerFires \/ TimerCallback
    <2>1. UNCHANGED <<state, cpc, rpc, sample, eos, ready>>
      BY <1>b
         DEF EndFlush, Fire, Sooner, Tick, TimerCallback, TimerFires, Without, clock,
             endvars
    <2> QED
      BY <1>a, <2>1
  <1>c. CASE UNCHANGED vars
    BY <1>a, <1>c DEF vars, clock, endvars
  <1>1. CASE Stop
    BY <1>1, RendererAssumption
       DEF RCue, RPlaces, RBooleans, RCalls, RSample, REnd, Stop, clock, endvars
  <1>2. CASE StopCancel
    BY <1>2, RendererAssumption
       DEF RCue, RPlaces, RBooleans, RCalls, RSample, REnd, StopCancel, KillTimer,
           CancelNotification, Without, clock, endvars
  <1>3. CASE StopReturns
    BY <1>3, RendererAssumption
       DEF RCue, RPlaces, RBooleans, RCalls, RSample, REnd, StopReturns, clock, endvars
  <1>4. CASE PauseAgain
    BY <1>4, RendererAssumption
       DEF RCue, RPlaces, RBooleans, RCalls, RSample, REnd, PauseAgain, StateComplete,
           clock, endvars
  <1>5. CASE Pause
    BY <1>5, RendererAssumption
       DEF RCue, RPlaces, RBooleans, RCalls, RSample, REnd, Pause, BeginPause,
           CancelNotification, Without, Woken, GraphAllows, clock, endvars
  <1>6. CASE EndPause
    BY <1>6, RendererAssumption
       DEF RCue, RPlaces, RBooleans, RCalls, RSample, REnd, EndPause, KillTimer,
           StateComplete, clock, endvars
  <1>7. CASE RunStopped
    BY <1>7, RendererAssumption
       DEF RCue, RPlaces, RBooleans, RCalls, RSample, REnd, RunStopped, BeginPause,
           CancelNotification, Without, Woken, GraphAllows, clock, endvars
  <1>8. CASE RunPaused
    BY <1>8, RendererAssumption
       DEF RCue, RPlaces, RBooleans, RCalls, RSample, REnd, RunPaused, GraphAllows,
           clock, endvars
  <1>9. CASE Run
    BY <1>9, RendererAssumption
       DEF RCue, RPlaces, RBooleans, RCalls, RSample, REnd, Run, StartStreaming,
           ScheduleSample, SendEndOfStream, Woken, clock, endvars
  <1>10. CASE BeginFlush
    BY <1>10, RendererAssumption
       DEF RCue, RPlaces, RBooleans, RCalls, RSample, REnd, BeginFlush,
           CancelNotification, Without, clock, endvars
  <1>11. CASE FlushWaits
    BY <1>11, RendererAssumption
       DEF RCue, RPlaces, RBooleans, RCalls, RSample, REnd, FlushWaits, clock, endvars
  <1>12. CASE FlushReset
    BY <1>12, RendererAssumption
       DEF RCue, RPlaces, RBooleans, RCalls, RSample, REnd, FlushReset, KillTimer,
           clock, endvars
  <1>13. CASE RefuseReceive
    BY <1>13, RendererAssumption
       DEF RCue, RPlaces, RBooleans, RCalls, RSample, REnd, RefuseReceive, clock,
           endvars
  <1>14. CASE UnexpectedReceive
    BY <1>14, RendererAssumption
       DEF RCue, RPlaces, RBooleans, RCalls, RSample, REnd, UnexpectedReceive,
           Receivable, clock, endvars
  <1>15. CASE PrepareReceive
    BY <1>15, RendererAssumption
       DEF RCue, RPlaces, RBooleans, RCalls, RSample, REnd, PrepareReceive, Receivable,
           ScheduleSample, clock, endvars
  <1>16. CASE CheckPaused
    BY <1>16, RendererAssumption
       DEF RCue, RPlaces, RBooleans, RCalls, RSample, REnd, CheckPaused, clock, endvars
  <1>17. CASE FirstSample
    BY <1>17, RendererAssumption
       DEF RCue, RPlaces, RBooleans, RCalls, RSample, REnd, FirstSample, clock, endvars
  <1>18. CASE FirstReady
    BY <1>18, RendererAssumption
       DEF RCue, RPlaces, RBooleans, RCalls, RSample, REnd, FirstReady, clock, endvars
  <1>19. CASE Released
    BY <1>19, RendererAssumption
       DEF RCue, RPlaces, RBooleans, RCalls, RSample, REnd, Released, clock, endvars
  <1>20. CASE Due
    BY <1>20, RendererAssumption
       DEF RCue, RPlaces, RBooleans, RCalls, RSample, REnd, Due, clock, endvars
  <1>21. CASE SignalTimerFired
    BY <1>21, RendererAssumption
       DEF RCue, RPlaces, RBooleans, RCalls, RSample, REnd, SignalTimerFired, clock,
           endvars
  <1>22. CASE RenderStopped
    BY <1>22, RendererAssumption
       DEF RCue, RPlaces, RBooleans, RCalls, RSample, REnd, RenderStopped, clock,
           endvars
  <1>23. CASE Render
    BY <1>23, RendererAssumption
       DEF RCue, RPlaces, RBooleans, RCalls, RSample, REnd, Render, SendEndOfStream,
           CancelNotification, Without, clock, endvars
  <1>24. CASE ReportError
    BY <1>24, RendererAssumption
       DEF RCue, RPlaces, RBooleans, RCalls, RSample, REnd, ReportError, clock, endvars
  <1>25. CASE EndOfStream
    BY <1>25, RendererAssumption
       DEF RCue, RPlaces, RBooleans, RCalls, RSample, REnd, EndOfStream,
           SendEndOfStream, clock, endvars
  <1>26. CASE OnDisplayChange
    BY <1>26, RendererAssumption
       DEF RCue, RPlaces, RBooleans, RCalls, RSample, REnd, OnDisplayChange, clock,
           endvars
  <1> QED
    BY RNext, <1>b, <1>c, <1>1, <1>2, <1>3, <1>4, <1>5, <1>6, <1>7, <1>8, <1>9, <1>10,
       <1>11, <1>12, <1>13, <1>14, <1>15, <1>16, <1>17, <1>18, <1>19, <1>20, <1>21,
       <1>22, <1>23, <1>24, <1>25, <1>26

(* The invariant as a whole.                                               *)
LEMMA RStart == Init => RInv
  <1> SUFFICES ASSUME Init
               PROVE  RInv
    OBVIOUS
  <1>1. RPlaces /\ RCalls /\ RSample /\ REnd /\ RCue
    BY DEF Init, RPlaces, RCalls, RSample, REnd, RCue, Places
  <1>2. RBooleans
    BY DEF Init, RBooleans
  <1>3. RTimes /\ RLinks /\ RQuiet
    BY RendererAssumption DEF Init, RTimes, RLinks, RQuiet, Silent
  <1>4. RDue
    BY DEF Init, RDue
  <1> QED
    BY <1>1, <1>2, <1>3, <1>4 DEF RInv

LEMMA RStep == RInv /\ [Next]_vars => RInv'
  BY RPlacesStep, RBooleansStep, RTimesStep, RLinksStep, RCallsStep, RSampleStep,
     REndStep,
     RQuietStep, RDueStep, RCueStep DEF RInv

LEMMA RTypeOK == RInv => TypeOK
  <1> SUFFICES ASSUME RInv
               PROVE  TypeOK
    OBVIOUS
  <1>1. {renderEvent, threadSignal, ready, inReceive, streaming, abort, eos, delivered,
         eosTimer, flushing, failed, overtaken} \subseteq BOOLEAN
    BY DEF RInv, RBooleans
  <1> QED
    BY <1>1 DEF RInv, RPlaces, RBooleans, RTimes, RLinks, TypeOK

LEMMA RPause == RInv => Quiet /\ CueCompletes
  BY DEF RInv, RQuiet, RCue, Silent, Quiet, CueCompletes

(* A sample is drawn only after the notification that was for it.          *)
LEMMA RNeverEarly ==
  RInv => ((Drawn /\ hasClock /\ sample.timed /\ ~Inverted(sample) /\ ~overtaken)
             => time >= sample.start)
  BY DEF RInv, RDue, Drawn

(* EC_COMPLETE without an error comes from SendEndOfStream or from the     *)
(* timer, which have both looked how far the end is.                       *)
LEMMA RComplete ==
  RInv /\ [Next]_vars =>
    ((delivered' /\ ~delivered /\ failed' = failed)
       => eos' /\ sample' = NoSample /\ (hasClock => signal - time' < DeliveryWait))
  <1> SUFFICES ASSUME RInv, [Next]_vars, delivered', ~delivered, failed' = failed
               PROVE  eos' /\ sample' = NoSample
                      /\ (hasClock => signal - time' < DeliveryWait)
    OBVIOUS
  <1>0. /\ time \in Int /\ signal \in Int /\ 0 <= time
        /\ eosTimer => eos /\ sample = NoSample
        /\ DeliveryWait \in Nat
    BY RendererAssumption DEF RInv, RTimes, REnd
  <1>a. ~(delivered' = delivered)
    BY Zenon
  <1>1. CASE Run
    <2>1. ~UNCHANGED <<delivered, eosTimer, timer>>
      BY <1>a, Zenon
    <2>2. /\ sample' = NoSample /\ time' = 0 /\ eos' = eos
          /\ SendEndOfStream(eos, TRUE, 0)
      BY <1>1, <2>1, Zenon DEF Run, StartStreaming
    <2>3. eos /\ ~TooEarly(0)
      BY <1>a, <2>1, <2>2, Zenon DEF SendEndOfStream
    <2> QED
      BY <1>0, <2>2, <2>3 DEF TooEarly
  <1>2. CASE Render
    <2>1. sample' = NoSample /\ time' = time /\ eos' = eos
      BY <1>2 DEF Render
    <2>2. eos /\ ~TooEarly(time)
      BY <1>a, <1>2, Zenon DEF Render, SendEndOfStream
    <2> QED
      BY <1>0, <2>1, <2>2 DEF TooEarly
  <1>3. CASE EndOfStream
    <2>1. sample = NoSample /\ sample' = sample /\ time' = time /\ eos'
      BY <1>a, <1>3, Zenon DEF EndOfStream, clock
    <2>2. ~TooEarly(time)
      BY <1>a, <1>3, Zenon DEF EndOfStream, SendEndOfStream
    <2> QED
      BY <1>0, <2>1, <2>2 DEF TooEarly
  <1>4. CASE TimerCallback
    <2>1. sample' = sample /\ time' = time /\ eos' = eos /\ eosTimer
      BY <1>a, <1>4, Zenon DEF TimerCallback, clock
    <2>2. ~TooEarly(time)
      BY <1>0, <1>a, <1>4, <2>1, Zenon DEF TimerCallback
    <2> QED
      BY <1>0, <2>1, <2>2 DEF TooEarly
  <1>5. CASE ReportError
    BY <1>5 DEF ReportError, clock, endvars
  <1>6. CASE Stop \/ StopCancel \/ StopReturns \/ PauseAgain \/ Pause \/ EndPause
          \/ RunStopped \/ RunPaused \/ BeginFlush \/ FlushWaits \/ FlushReset
          \/ EndFlush \/ RefuseReceive \/ UnexpectedReceive \/ PrepareReceive
          \/ CheckPaused \/ FirstSample \/ FirstReady \/ Released \/ Due
          \/ SignalTimerFired \/ RenderStopped \/ OnDisplayChange \/ Tick \/ Fire
          \/ TimerFires
    BY <1>6
       DEF BeginFlush, BeginPause, CancelNotification, CheckPaused, Due, EndFlush,
           EndPause, Fire, FirstReady, FirstSample, FlushReset, FlushWaits, KillTimer,
           OnDisplayChange, Pause, PauseAgain, PrepareReceive, Receivable,
           RefuseReceive, Released, RenderStopped, RunPaused, RunStopped,
           ScheduleSample, SignalTimerFired, Sooner, StateComplete, Stop, StopCancel,
           StopReturns, Tick, TimerFires, UnexpectedReceive, Without, Woken, clock,
           endvars
  <1>7. CASE UNCHANGED vars
    BY <1>7 DEF vars, endvars
  <1> QED
    BY RNext, <1>1, <1>2, <1>3, <1>4, <1>5, <1>6, <1>7

(***************************************************************************)
(* The theorems.                                                           *)
(***************************************************************************)

LEMMA RAlways == Spec => []RInv
  <1> QED
    BY RStart, RStep, PTL DEF Spec

(* Between calls a renderer is as its state says, whatever the streaming   *)
(* thread was doing when the call came in, for every set of samples, every *)
(* bound on the time and every supply of cookies.                          *)
THEOREM PauseIsWholeCorrect == Spec => []PauseIsWhole
  <1>1. RInv => PauseIsWhole
    BY RTypeOK, RPause DEF PauseIsWhole
  <1> QED
    BY <1>1, RAlways, PTL

(* No sample is drawn before its time, nor by a notification that was meant *)
(* for another one or for an earlier run.                                  *)
THEOREM NeverEarlyCorrect == Spec => NeverEarly
  <1>1. RInv /\ [Next]_vars =>
          [(Drawn /\ hasClock /\ sample.timed /\ ~Inverted(sample) /\ ~overtaken)
             => time >= sample.start]_vars
    BY RNeverEarly
  <1> QED
    BY <1>1, RAlways, PTL DEF Spec, NeverEarly

(* Without an error, the end of the stream is reported after the last      *)
(* sample has been rendered or thrown away, and no earlier than the         *)
(* delivery wait before its end.                                           *)
THEOREM CompleteAfterLastCorrect == Spec => CompleteAfterLast
  <1>1. RInv /\ [Next]_vars =>
          [(delivered' /\ ~delivered /\ failed' = failed)
             => eos' /\ sample' = NoSample /\ (hasClock => signal - time' < DeliveryWait)]_vars
    BY RComplete
  <1> QED
    BY <1>1, RAlways, PTL DEF Spec, CompleteAfterLast

-----------------------------------------------------------------------------
(***************************************************************************)
(* The clock: the list of advise packets stays ordered and the advise thread*)
(* never sleeps past its head.                                             *)
(***************************************************************************)

(* While the thread goes through the list, its reading of the clock is     *)
(* behind the clock by no more than late, or the event calls it back.      *)
ReadingFresh ==
  (cl_pc = "advise" /\ ~cl_ev /\ cl_list # << >>) => CL!Now <= cl_now + cl_late

CLInv == CL!TypeOK /\ CL!Sorted /\ CL!NoOversleep /\ ReadingFresh

----------------------------------------------------------------------------
(* The elements of InsertAt and RemoveAt.                                  *)
LEMMA InsertAtLemma ==
  ASSUME NEW S, NEW s \in Seq(S), NEW p \in S, NEW i \in 1..Len(s) + 1
  PROVE  /\ CL!InsertAt(s, i, p) \in Seq(S)
         /\ Len(CL!InsertAt(s, i, p)) = Len(s) + 1
         /\ \A k \in 1..Len(s) + 1 : CL!InsertAt(s, i, p)[k] =
              IF k < i THEN s[k] ELSE IF k = i THEN p ELSE s[k - 1]
<1> DEFINE a == SubSeq(s, 1, i - 1)
           b == SubSeq(s, i, Len(s))
<1>0. Len(s) \in Nat /\ \A k \in 1..Len(s) : s[k] \in S
  BY ElementOfSeq
<1>1. /\ a \in Seq(S) /\ Len(a) = i - 1
      /\ \A k \in 1..i - 1 : a[k] = s[k]
  BY <1>0, SubSeqProperties
<1>2. /\ b \in Seq(S) /\ Len(b) = Len(s) - i + 1
      /\ \A k \in 1..Len(s) - i + 1 : b[k] = s[i + k - 1]
  BY <1>0, SubSeqProperties
<1>3. <<p>> \in Seq(S) /\ Len(<<p>>) = 1 /\ <<p>>[1] = p
  OBVIOUS
<1> HIDE DEF a, b
<1> DEFINE c == a \o <<p>>
<1>4. /\ c \in Seq(S) /\ Len(c) = i
      /\ \A k \in 1..i : c[k] = IF k < i THEN s[k] ELSE p
  BY <1>1, <1>3, ConcatProperties
<1> HIDE DEF c
<1>5. /\ c \o b \in Seq(S)
      /\ Len(c \o b) = Len(c) + Len(b)
      /\ \A k \in 1..Len(c) + Len(b) : (c \o b)[k] =
           IF k <= Len(c) THEN c[k] ELSE b[k - Len(c)]
  BY <1>2, <1>4, ConcatProperties
<1>6. Len(c) + Len(b) = Len(s) + 1
  BY <1>0, <1>2, <1>4
<1>7. ASSUME NEW k \in 1..Len(s) + 1
      PROVE  (c \o b)[k] = IF k < i THEN s[k] ELSE IF k = i THEN p ELSE s[k - 1]
  <2>1. (c \o b)[k] = IF k <= i THEN c[k] ELSE b[k - i]
    BY <1>4, <1>5, <1>6
  <2>2. k > i => b[k - i] = s[k - 1]
    <3>1. k > i => k - i \in 1..Len(s) - i + 1 /\ i + (k - i) - 1 = k - 1
      BY <1>0
    <3> QED BY <1>2, <3>1
  <2> QED BY <1>0, <1>4, <2>1, <2>2
<1> QED BY <1>5, <1>6, <1>7 DEF CL!InsertAt, a, b, c

LEMMA RemoveAtLemma ==
  ASSUME NEW S, NEW s \in Seq(S), NEW i \in 1..Len(s)
  PROVE  /\ CL!RemoveAt(s, i) \in Seq(S)
         /\ Len(CL!RemoveAt(s, i)) = Len(s) - 1
         /\ \A k \in 1..Len(s) - 1 : CL!RemoveAt(s, i)[k] =
              IF k < i THEN s[k] ELSE s[k + 1]
<1> DEFINE a == SubSeq(s, 1, i - 1)
           b == SubSeq(s, i + 1, Len(s))
<1>0. Len(s) \in Nat /\ \A k \in 1..Len(s) : s[k] \in S
  BY ElementOfSeq
<1>1. /\ a \in Seq(S) /\ Len(a) = i - 1
      /\ \A k \in 1..i - 1 : a[k] = s[k]
  BY <1>0, SubSeqProperties
<1>2. /\ b \in Seq(S) /\ Len(b) = Len(s) - i
      /\ \A k \in 1..Len(s) - i : b[k] = s[i + k]
  BY <1>0, SubSeqProperties
<1> HIDE DEF a, b
<1>3. /\ a \o b \in Seq(S)
      /\ Len(a \o b) = Len(a) + Len(b)
      /\ \A k \in 1..Len(a) + Len(b) : (a \o b)[k] =
           IF k <= Len(a) THEN a[k] ELSE b[k - Len(a)]
  BY <1>1, <1>2, ConcatProperties
<1>4. Len(a) + Len(b) = Len(s) - 1
  BY <1>0, <1>1, <1>2
<1>5. ASSUME NEW k \in 1..Len(s) - 1
      PROVE  (a \o b)[k] = IF k < i THEN s[k] ELSE s[k + 1]
  <2>1. (a \o b)[k] = IF k <= i - 1 THEN a[k] ELSE b[k - (i - 1)]
    BY <1>1, <1>3, <1>4
  <2>2. k >= i => b[k - (i - 1)] = s[k + 1]
    <3>1. k >= i => k - (i - 1) \in 1..Len(s) - i /\ i + (k - (i - 1)) = k + 1
      BY <1>0
    <3> QED BY <1>2, <3>1
  <2> QED BY <1>0, <1>1, <2>1, <2>2
<1> QED BY <1>3, <1>4, <1>5 DEF CL!RemoveAt, a, b

(* The packets of AddAdvisePacket, and what FirePeriodic makes of them.    *)
LEMMA PacketLemma ==
  ASSUME NEW p \in CL!Packets
  PROVE  /\ p.time \in Nat /\ p.period \in Nat
         /\ \A t \in Nat : /\ [p EXCEPT !.time = t] \in CL!Packets
                          /\ [p EXCEPT !.time = t].time = t
BY PeriodsAssumption DEF CL!Packets

LEMMA TimesLemma ==
  ASSUME NEW s \in Seq(CL!Packets)
  PROVE  /\ Len(s) \in Nat
         /\ s # << >> => Len(s) > 0
         /\ \A k \in 1..Len(s) : s[k] \in CL!Packets /\ s[k].time \in Nat
BY ElementOfSeq, PacketLemma, EmptySeq

(* Putting a packet where its neighbours allow keeps a list in order.      *)
LEMMA InsertLemma ==
  ASSUME NEW S, \A e \in S : e.time \in Nat,
         NEW s \in Seq(S), NEW p \in S, NEW i \in 1..Len(s) + 1,
         CL!InOrder(s),
         \A j \in 1..i - 1 : s[j].time <= p.time,
         i <= Len(s) => s[i].time >= p.time
  PROVE  /\ CL!InsertAt(s, i, p) \in Seq(S)
         /\ Len(CL!InsertAt(s, i, p)) = Len(s) + 1
         /\ CL!InOrder(CL!InsertAt(s, i, p))
         /\ CL!InsertAt(s, i, p)[1] = IF i = 1 THEN p ELSE s[1]
<1> DEFINE r == CL!InsertAt(s, i, p)
<1>1. /\ r \in Seq(S)
      /\ Len(r) = Len(s) + 1
      /\ \A k \in 1..Len(s) + 1 :
           r[k] = IF k < i THEN s[k] ELSE IF k = i THEN p ELSE s[k - 1]
  BY ONLY s \in Seq(S), p \in S, i \in 1..Len(s) + 1, InsertAtLemma
<1> DEFINE T == [k \in 1..Len(s) |-> s[k].time]
           t == p.time
<1>2. Len(s) \in Nat /\ t \in Nat /\ T \in [1..Len(s) -> Nat]
  BY ElementOfSeq
<1>3. /\ \A j, k \in 1..Len(s) : j < k => T[j] <= T[k]
      /\ \A j \in 1..i - 1 : T[j] <= t
      /\ i <= Len(s) => T[i] >= t
  BY <1>2 DEF CL!InOrder
<1>4. \A k \in 1..Len(s) + 1 :
        r[k].time = IF k < i THEN T[k] ELSE IF k = i THEN t ELSE T[k - 1]
  BY <1>1, <1>2
<1> HIDE DEF r, T, t
<1>5. CL!InOrder(r)
  <2>1. \A k \in 1..Len(s) : k >= i => t <= T[k]
    BY ONLY i \in 1..Len(s) + 1, <1>2, <1>3
  <2>2. ASSUME NEW j \in 1..Len(s) + 1, NEW k \in 1..Len(s) + 1, j < k
        PROVE  r[j].time <= r[k].time
    <3>1. CASE k <= i
      BY ONLY i \in 1..Len(s) + 1, j \in 1..Len(s) + 1, k \in 1..Len(s) + 1,
              j < k, <1>2, <1>3, <1>4, <3>1
    <3>2. CASE k > i
      BY ONLY i \in 1..Len(s) + 1, j \in 1..Len(s) + 1, k \in 1..Len(s) + 1,
              j < k, <1>2, <1>3, <1>4, <2>1, <3>2
    <3> QED BY <1>2, <3>1, <3>2
  <2> QED BY <1>1, <2>2 DEF CL!InOrder
<1>6. r[1] = IF i = 1 THEN p ELSE s[1]
  BY <1>1, <1>2
<1> QED BY <1>1, <1>5, <1>6 DEF r

(* Taking any packet out keeps a list in order, and the head no earlier.   *)
LEMMA RemoveLemma ==
  ASSUME NEW S, \A e \in S : e.time \in Nat,
         NEW s \in Seq(S), NEW i \in 1..Len(s), CL!InOrder(s)
  PROVE  /\ CL!RemoveAt(s, i) \in Seq(S)
         /\ Len(CL!RemoveAt(s, i)) = Len(s) - 1
         /\ CL!InOrder(CL!RemoveAt(s, i))
         /\ Len(s) > 1 => CL!RemoveAt(s, i)[1].time >= s[1].time
<1> DEFINE r == CL!RemoveAt(s, i)
<1>1. /\ r \in Seq(S)
      /\ Len(r) = Len(s) - 1
      /\ \A k \in 1..Len(s) - 1 : r[k] = IF k < i THEN s[k] ELSE s[k + 1]
  BY RemoveAtLemma
<1>2. Len(s) \in Nat /\ \A k \in 1..Len(s) : s[k].time \in Nat
  BY ElementOfSeq
<1> HIDE DEF r
<1>3. ASSUME NEW j \in 1..Len(r), NEW k \in 1..Len(r), j < k
      PROVE  r[j].time <= r[k].time
  <2> DEFINE a == IF j < i THEN j ELSE j + 1
             b == IF k < i THEN k ELSE k + 1
  <2>1. r[j] = s[a] /\ r[k] = s[b]
    BY <1>1, <1>2
  <2>2. a \in 1..Len(s) /\ b \in 1..Len(s) /\ a < b
    BY <1>1, <1>2, <1>3
  <2> QED BY <2>1, <2>2 DEF CL!InOrder
<1>4. CL!InOrder(r)
  BY <1>3 DEF CL!InOrder
<1>5. Len(s) > 1 => r[1].time >= s[1].time
  BY <1>1, <1>2 DEF CL!InOrder
<1> QED BY <1>1, <1>4, <1>5 DEF r

LEMMA TailLemma ==
  ASSUME NEW S, \A e \in S : e.time \in Nat,
         NEW s \in Seq(S), s # << >>, CL!InOrder(s)
  PROVE  /\ Tail(s) \in Seq(S)
         /\ Len(Tail(s)) = Len(s) - 1
         /\ CL!InOrder(Tail(s))
<1>1. /\ Tail(s) \in Seq(S)
      /\ Len(Tail(s)) = Len(s) - 1
      /\ \A k \in 1..Len(s) - 1 : Tail(s)[k] = s[k + 1]
  BY HeadTailProperties
<1>2. Len(s) \in Nat
  OBVIOUS
<1> QED BY <1>1, <1>2 DEF CL!InOrder

----------------------------------------------------------------------------
LEMMA CLStart == CL!Init => CLInv
<1> SUFFICES ASSUME CL!Init PROVE CLInv
  OBVIOUS
<1>1. cl_list = << >> /\ cl_list \in Seq(CL!Packets) /\ Len(cl_list) = 0
  BY DEF CL!Init
<1>2. CL!TypeOK
  <2>1. cl_count = Len(cl_list) /\ cl_cached \in 0..cl_CacheMax
    BY <1>1, CacheAssumption DEF CL!Init
  <2>2. cl_sys \in Nat /\ cl_skew \in Int /\ cl_nextCookie \in Nat /\ cl_now \in Int
        /\ cl_late \in Nat
    BY DEF CL!Init
  <2>3. /\ cl_life \in {"alive", "joining", "gone"}
        /\ cl_pc \in {"wait", "woken", "advise", "ended"}
    BY DEF CL!Init
  <2>4. cl_ev \in BOOLEAN /\ cl_abort \in BOOLEAN /\ cl_deadline \in Nat \cup {CL!Infinite}
    BY Zenon DEF CL!Init
  <2> QED BY <1>1, <2>1, <2>2, <2>3, <2>4 DEF CL!TypeOK
<1>3. CL!Sorted
  BY <1>1 DEF CL!Sorted, CL!InOrder
<1>4. CL!NoOversleep /\ ReadingFresh
  BY <1>1 DEF CL!NoOversleep, ReadingFresh
<1> QED BY <1>2, <1>3, <1>4 DEF CLInv

LEMMA CLStep == CLInv /\ [CL!Next]_(CL!vars) => CLInv'
<1> SUFFICES ASSUME CLInv, [CL!Next]_(CL!vars) PROVE CLInv'
  OBVIOUS
<1> USE CacheAssumption, MaxWaitAssumption DEF CLInv, CL!TypeOK
<1>h. cl_list # << >> => /\ cl_list[1] \in CL!Packets
                         /\ cl_list[1].time \in Nat /\ cl_list[1].period \in Nat
                         /\ cl_count > 0
  BY TimesLemma, PacketLemma
<1>1. CASE CL!Tick
  <2>1. CL!TypeOK' /\ CL!Sorted'
    BY <1>1 DEF CL!Tick, CL!Sorted, CL!schedule, CL!object, CL!thread
  <2>2. CL!NoOversleep'
    BY <1>1, <1>h
       DEF CL!Tick, CL!NoOversleep, CL!Now, CL!Infinite, CL!schedule, CL!object,
           CL!thread
  <2>3. ReadingFresh'
    BY <1>1 DEF CL!Tick, ReadingFresh, CL!Now, CL!schedule, CL!object, CL!thread
  <2> QED BY <2>1, <2>2, <2>3
<1>2. ASSUME NEW t \in cl_Times, NEW q \in cl_Periods \cup {0}, CL!AddAdvisePacket(t, q)
      PROVE  CLInv'
  <2> DEFINE p == [cookie |-> cl_nextCookie + 1, time |-> t, period |-> q]
  <2>1. p \in CL!Packets /\ p.time = t /\ p.time \in Nat
    BY TimesAssumption DEF CL!Packets
  <2>2. PICK i \in 1..Len(cl_list) + 1 :
          CL!InsertsAt(i, t) /\ cl_list' = CL!InsertAt(cl_list, i, p)
          /\ cl_ev' = (cl_ev \/ i = 1)
    BY <1>2 DEF CL!AddAdvisePacket
  <2> HIDE DEF p
  <2>3. \A j \in 1..Len(cl_list) : cl_list[j].time \in Nat
    BY TimesLemma
  <2>4. \A j \in 1..i - 1 : cl_list[j].time <= p.time
    BY <2>1, <2>2, <2>3 DEF CL!InsertsAt
  <2>5. i <= Len(cl_list) => cl_list[i].time >= p.time
    BY <2>1, <2>2 DEF CL!InsertsAt
  <2>6. /\ cl_list' \in Seq(CL!Packets) /\ Len(cl_list') = Len(cl_list) + 1
        /\ CL!InOrder(cl_list')
        /\ cl_list'[1] = IF i = 1 THEN p ELSE cl_list[1]
    <3>1. cl_list \in Seq(CL!Packets) /\ CL!InOrder(cl_list) /\ i \in 1..Len(cl_list) + 1
      BY DEF CL!Sorted
    <3>2. cl_list' = CL!InsertAt(cl_list, i, p)
      BY <2>2
    <3>3. \A e \in CL!Packets : e.time \in Nat
      BY PacketLemma
    <3>4. p \in CL!Packets
      BY <2>1
    <3> QED BY ONLY <3>1, <3>2, <3>3, <3>4, <2>4, <2>5, InsertLemma
  <2>7. CL!TypeOK'
    BY <1>2, <2>2, <2>6 DEF CL!AddAdvisePacket, CL!time, CL!object, CL!thread
  <2>8. CL!Sorted'
    BY <2>6 DEF CL!Sorted, CL!InOrder
  <2>9. CL!NoOversleep'
    <3>0. cl_list = << >> => Len(cl_list) = 0
      OBVIOUS
    <3>1. ~cl_ev' => ~cl_ev /\ i # 1
      BY <2>2, Zenon
    <3>2. i # 1 => cl_list # << >> /\ cl_list'[1] = cl_list[1]
      BY ONLY i \in 1..Len(cl_list) + 1, <3>0, <2>6
    <3> QED BY <1>2, <3>1, <3>2
            DEF CL!AddAdvisePacket, CL!NoOversleep, CL!Now, CL!time, CL!object, CL!thread
  <2>10. ReadingFresh'
    BY <1>2
       DEF CL!AddAdvisePacket, ReadingFresh, CL!Unlocked, CL!time, CL!object, CL!thread
  <2> QED BY <2>7, <2>8, <2>9, <2>10
<1>3. ASSUME NEW i \in 1..Len(cl_list), CL!Unadvise(i) PROVE CLInv'
  <2>1. /\ cl_list' \in Seq(CL!Packets) /\ Len(cl_list') = Len(cl_list) - 1
        /\ CL!InOrder(cl_list')
        /\ Len(cl_list) > 1 => cl_list'[1].time >= cl_list[1].time
    BY <1>3, PacketLemma, RemoveLemma DEF CL!Unadvise, CL!Sorted
  <2>2. CL!TypeOK'
    BY <1>3, <2>1 DEF CL!Unadvise, CL!Delete, CL!time, CL!object, CL!thread
  <2>3. CL!Sorted'
    BY <2>1 DEF CL!Sorted, CL!InOrder
  <2>4. cl_list' # << >> => Len(cl_list) > 1 /\ cl_list'[1].time \in Nat /\ cl_list # << >>
    BY <2>1, TimesLemma
  <2>5. CL!NoOversleep'
    <3>1. /\ cl_pc' = cl_pc /\ cl_ev' = cl_ev /\ cl_now' = cl_now
          /\ cl_deadline' = cl_deadline
          /\ cl_late' = cl_late /\ CL!Now' = CL!Now /\ cl_sys' = cl_sys
      BY <1>3 DEF CL!Unadvise, CL!Now, CL!time, CL!object, CL!thread
    <3>2. CL!Now \in Int
      BY DEF CL!Now
    <3> SUFFICES ASSUME cl_pc = "wait", ~cl_ev, cl_list' # << >>
                 PROVE  IF cl_deadline = CL!Infinite
                        THEN cl_list'[1].time - cl_now >= 2 * cl_MaxWait
                        ELSE CL!Now + 2 * (cl_deadline - cl_sys) <= cl_list'[1].time + cl_late
      BY <3>1 DEF CL!NoOversleep
    <3>3. IF cl_deadline = CL!Infinite
          THEN cl_list[1].time - cl_now >= 2 * cl_MaxWait
          ELSE CL!Now + 2 * (cl_deadline - cl_sys) <= cl_list[1].time + cl_late
      BY <2>4 DEF CL!NoOversleep
    <3>4. /\ cl_list[1].time \in Nat /\ cl_list'[1].time \in Nat
          /\ cl_list'[1].time >= cl_list[1].time
      BY <1>h, <2>1, <2>4
    <3>5. /\ cl_now \in Int /\ cl_sys \in Nat /\ cl_late \in Nat
          /\ cl_deadline \in Nat \cup {CL!Infinite}
      BY DEF CL!TypeOK
    <3>6. ASSUME NEW was \in Nat, NEW new \in Nat, new >= was,
                 IF cl_deadline = CL!Infinite
                 THEN was - cl_now >= 2 * cl_MaxWait
                 ELSE CL!Now + 2 * (cl_deadline - cl_sys) <= was + cl_late
          PROVE  IF cl_deadline = CL!Infinite
                 THEN new - cl_now >= 2 * cl_MaxWait
                 ELSE CL!Now + 2 * (cl_deadline - cl_sys) <= new + cl_late
      BY ONLY <3>2, <3>5, <3>6, MaxWaitAssumption DEF CL!Infinite
    <3> QED BY ONLY <3>3, <3>4, <3>6
  <2>6. ReadingFresh'
    BY <1>3 DEF CL!Unadvise, ReadingFresh, CL!Unlocked, CL!time, CL!object, CL!thread
  <2> QED BY <2>2, <2>3, <2>5, <2>6
<1>4. ASSUME NEW d \in cl_Deltas, CL!SetTimeDelta(d) PROVE CLInv'
  <2>0. d \in Int
    BY DeltasAssumption
  <2>1. CL!TypeOK'
    BY <1>4, <2>0 DEF CL!SetTimeDelta, CL!schedule, CL!object, CL!thread
  <2>2. CL!Sorted'
    BY <1>4 DEF CL!SetTimeDelta, CL!schedule, CL!Sorted
  <2>3. /\ cl_pc' = cl_pc /\ cl_list' = cl_list /\ cl_now' = cl_now
        /\ cl_deadline' = cl_deadline
        /\ cl_sys' = cl_sys /\ CL!Now' = CL!Now + d /\ CL!Now \in Int
        /\ cl_late' = IF d = 1 THEN cl_late + 1 ELSE cl_late
        /\ cl_ev' = (cl_ev \/ (d > 1 /\ cl_count > 0))
    BY <1>4, <1>h, <2>0 DEF CL!SetTimeDelta, CL!Now, CL!schedule, CL!object, CL!thread
  <2>6. ~cl_ev' /\ cl_list # << >> => ~cl_ev /\ cl_late' >= cl_late + d /\ cl_late' >= cl_late
    <3>1. ~cl_ev' /\ cl_list # << >> => ~cl_ev /\ ~(d > 1)
      BY <1>h, <2>3, Zenon
    <3>2. ~(d > 1) => cl_late' >= cl_late + d /\ cl_late' >= cl_late
      BY <2>0, <2>3
    <3> QED BY <3>1, <3>2, Zenon
  <2>4. CL!NoOversleep'
    BY <1>h, <2>0, <2>1, <2>3, <2>6 DEF CL!NoOversleep, CL!Infinite
  <2>5. ReadingFresh'
    BY <2>0, <2>1, <2>3, <2>6 DEF ReadingFresh
  <2> QED BY <2>1, <2>2, <2>4, <2>5
<1>5. CASE CL!Destroy
  BY <1>5
     DEF CL!Destroy, CL!Sorted, CL!NoOversleep, ReadingFresh, CL!time, CL!schedule,
         CL!thread
<1>6. CASE CL!Join
  BY <1>6
     DEF CL!Join, CL!Sorted, CL!NoOversleep, ReadingFresh, CL!Now, CL!time, CL!schedule,
         CL!thread
<1>7. CASE CL!Wake
  BY <1>7
     DEF CL!Wake, CL!Sorted, CL!NoOversleep, ReadingFresh, CL!time, CL!schedule,
         CL!object
<1>8. CASE CL!ReadTime
  <2>1. CL!TypeOK' /\ CL!Sorted'
    BY <1>8 DEF CL!ReadTime, CL!Now, CL!Sorted, CL!time, CL!schedule, CL!object
  <2>2. CL!NoOversleep'
    BY <1>8 DEF CL!ReadTime, CL!NoOversleep
  <2>3. ReadingFresh'
    BY <1>8 DEF CL!ReadTime, ReadingFresh, CL!Now, CL!time, CL!schedule
  <2> QED BY <2>1, <2>2, <2>3
<1>9. CASE CL!FireOneShot
  <2>1. /\ cl_list' \in Seq(CL!Packets) /\ Len(cl_list') = Len(cl_list) - 1
        /\ CL!InOrder(cl_list')
    BY <1>9, PacketLemma, TailLemma DEF CL!FireOneShot, CL!HeadDue, CL!Sorted
  <2>2. CL!TypeOK'
    BY <1>9, <2>1
       DEF CL!FireOneShot, CL!HeadDue, CL!Delete, CL!time, CL!object, CL!thread
  <2>3. CL!Sorted'
    BY <2>1 DEF CL!Sorted, CL!InOrder
  <2>4. CL!NoOversleep' /\ ReadingFresh'
    BY <1>9
       DEF CL!FireOneShot, CL!HeadDue, CL!NoOversleep, ReadingFresh, CL!Now, CL!time,
           CL!thread
  <2> QED BY <2>2, <2>3, <2>4
<1>10. CASE CL!FirePeriodic
  <2> DEFINE t == cl_list[1].time + cl_list[1].period
             p == [cl_list[1] EXCEPT !.time = t]
             rest == Tail(cl_list)
  <2>1. cl_list # << >>
    BY <1>10 DEF CL!FirePeriodic, CL!HeadDue
  <2> HIDE DEF t
  <2>2. t \in Nat /\ p \in CL!Packets /\ p.time = t
    <3>1. t \in Nat
      BY <1>h, <2>1 DEF t
    <3> HIDE DEF p
    <3> QED BY <1>h, <2>1, <3>1, PacketLemma, Zenon DEF p
  <2>3. rest \in Seq(CL!Packets) /\ Len(rest) = Len(cl_list) - 1 /\ CL!InOrder(rest)
    BY <2>1, PacketLemma, TailLemma DEF CL!Sorted
  <2>4. PICK i \in 1..Len(rest) + 1 :
          /\ \A j \in 1..i - 1 : rest[j].time <= t
          /\ i <= Len(rest) => rest[i].time > t
          /\ cl_list' = CL!InsertAt(rest, i, p)
    BY <1>10, Zenon DEF CL!FirePeriodic, t
  <2>5. \A j \in 1..Len(rest) : rest[j].time \in Nat
    BY <2>3, TimesLemma
  <2> HIDE DEF p, rest
  <2>6. /\ \A j \in 1..i - 1 : rest[j].time <= p.time
        /\ i <= Len(rest) => rest[i].time >= p.time
    BY <2>2, <2>3, <2>4, <2>5
  <2>7. cl_list' \in Seq(CL!Packets) /\ Len(cl_list') = Len(cl_list) /\ CL!InOrder(cl_list')
    <3>1. Len(cl_list) \in Nat
      OBVIOUS
    <3> QED BY ONLY <3>1, <2>2, <2>3, <2>4, <2>6, PacketLemma, InsertLemma
  <2>8. CL!TypeOK'
    BY <1>10, <2>7 DEF CL!FirePeriodic, CL!time, CL!object, CL!thread
  <2>9. CL!Sorted'
    BY <2>7 DEF CL!Sorted, CL!InOrder
  <2>10. CL!NoOversleep' /\ ReadingFresh'
    BY <1>10, <2>1
       DEF CL!FirePeriodic, CL!NoOversleep, ReadingFresh, CL!Now, CL!time, CL!thread
  <2> QED BY <2>8, <2>9, <2>10
<1>11. CASE CL!AdviseReturns
  <2>1. cl_list # << >> => /\ CL!Wait \in Nat
                           /\ 2 * CL!Wait <= cl_list[1].time - cl_now
    <3>1. cl_list # << >> => ~(cl_list[1].time <= cl_now + 2)
      BY <1>11 DEF CL!AdviseReturns, CL!HeadDue
    <3>2. cl_now \in Int
      OBVIOUS
    <3> QED BY ONLY <1>h, <3>1, <3>2 DEF CL!Wait
  <2> USE <1>11, <2>1 DEF CL!AdviseReturns
  <2>2. CL!TypeOK' /\ CL!Sorted'
    BY DEF CL!Sorted, CL!time, CL!schedule, CL!object
  <2>3. CL!NoOversleep'
    <3>1. /\ cl_list' = cl_list /\ cl_now' = cl_now /\ cl_sys' = cl_sys
          /\ cl_late' = cl_late
          /\ CL!Now' = CL!Now /\ cl_ev' = cl_ev /\ CL!Now \in Int
      BY DEF CL!Now, CL!time, CL!schedule
    <3> SUFFICES ASSUME ~cl_ev, cl_list # << >>
                 PROVE  IF cl_deadline' = CL!Infinite
                        THEN cl_list[1].time - cl_now >= 2 * cl_MaxWait
                        ELSE CL!Now + 2 * (cl_deadline' - cl_sys) <= cl_list[1].time + cl_late
      BY <3>1 DEF CL!NoOversleep
    <3>2. CL!Now <= cl_now + cl_late
      BY DEF ReadingFresh
    <3>3. CASE CL!Wait >= cl_MaxWait
      BY <1>h, <3>3
    <3>4. CASE ~(CL!Wait >= cl_MaxWait)
      <4>1. cl_deadline' = cl_sys + CL!Wait /\ cl_deadline' # CL!Infinite
        BY <3>4 DEF CL!Infinite
      <4>2. /\ CL!Wait \in Nat /\ 2 * CL!Wait <= cl_list[1].time - cl_now
            /\ cl_list[1].time \in Nat /\ cl_now \in Int /\ cl_sys \in Nat
            /\ cl_late \in Nat
        BY <1>h, <2>1
      <4> QED BY ONLY <3>1, <3>2, <4>1, <4>2
    <3> QED BY <3>3, <3>4
  <2>4. ReadingFresh'
    BY DEF ReadingFresh
  <2> QED BY <2>2, <2>3, <2>4
<1>12. CASE UNCHANGED CL!vars
  BY <1>12
     DEF CL!vars, CL!time, CL!schedule, CL!object, CL!thread, CL!Sorted,
         CL!NoOversleep,
               ReadingFresh, CL!Now
<1> QED BY <1>1, <1>2, <1>3, <1>4, <1>5, <1>6, <1>7, <1>8, <1>9, <1>10, <1>11,
           <1>12 DEF CL!Next, CL!Clients, CL!Thread

(* Induction over the naturals, for a set: the least number outside of it  *)
(* does not exist.                                                         *)
LEMMA NatInd ==
  ASSUME NEW S, 0 \in S, \A n \in Nat : n \in S => n + 1 \in S
  PROVE  Nat \subseteq S
  <1> DEFINE T == Nat \ S
             R == OpToRel(<, Nat)
  <1>1. SUFFICES ASSUME T # {} PROVE FALSE
    OBVIOUS
  <1>2. IsWellFoundedOn(R, Nat)
    BY NatLessThanWellFounded
  <1>3. T \subseteq Nat
    OBVIOUS
  <1>4. PICK x \in T : \A y \in T : ~ (<<y, x>> \in R)
    <2> HIDE DEF T, R
    <2> QED BY <1>1, <1>2, <1>3, WFMin
  <1>5. x \in Nat /\ x # 0 /\ x - 1 \in Nat
    OBVIOUS
  <1>6. <<x - 1, x>> \in R
    BY <1>5 DEF OpToRel
  <1>7. x - 1 \in S
    BY <1>4, <1>5, <1>6
  <1> QED
    BY <1>5, <1>7

-----------------------------------------------------------------------------
(***************************************************************************)
(* Enumerators.  What an enumerator knows is of the present list as long as it*)
(* has the present version and no change is under way (ENKnows).           *)
(***************************************************************************)

ENEnum == [pc : {"idle", "version", "count", "fetch", "clone"}, position : Nat, count : Nat, version : Nat,
           cache : SUBSET en_Items, given : SUBSET (Nat \X en_Items), skipped : SUBSET Nat, want : Nat]

ENTypes ==
  /\ en_kind \in {"pins", "types"} /\ en_version \in Nat /\ en_changing \in BOOLEAN
  /\ en_list \in Seq(en_Items)
  /\ en_enum \in ENEnum

\* The versions tell: nothing has been changed since the enumerator read the version.
ENSame(e) == e.version = en_version /\ ~en_changing

\* What an enumerator of pins knows of the present list.
ENPins(e) ==
  /\ e.count = Len(en_list)
  /\ \A i \in 1 .. Len(en_list) : i <= e.position => i \in e.skipped \/ en_list[i] \in e.cache

ENTypesOf(e) ==
  /\ \A g \in e.given : g[1] \in 1 .. Len(en_list) /\ en_list[g[1]] = g[2]
  /\ \A i \in 1 .. Len(en_list) : i <= e.position => i \in e.skipped \/ <<i, en_list[i]>> \in e.given

ENKnows(e) ==
  /\ e.version <= en_version
  /\ en_kind = "types" => e.pc \notin {"version", "count"}
  /\ ENSame(e) /\ en_kind = "pins" /\ e.pc \notin {"version", "count"} => ENPins(e)
  /\ ENSame(e) /\ en_kind = "types" => ENTypesOf(e)

ENInv == ENTypes /\ ENKnows(en_enum)

LEMMA ENListsSeq == EN!Lists \subseteq Seq(en_Items)
  <1> SUFFICES ASSUME NEW l \in EN!Lists PROVE l \in Seq(en_Items)
    OBVIOUS
  <1>1. PICK n \in 0 .. Cardinality(en_Items) : l \in [1 .. n -> en_Items]
    BY DEF EN!Lists, EN!Cardinality, Cardinality
  <1>2. n \in Nat
    OBVIOUS
  <1> QED
    BY <1>1, <1>2

LEMMA ENStart == EN!Init => ENInv
  <1> SUFFICES ASSUME EN!Init PROVE ENInv
    OBVIOUS
  <1>1. en_list \in Seq(en_Items)
    BY ENListsSeq DEF EN!Init
  <1>2. /\ en_enum.pc = "idle" /\ en_enum.position = 0 /\ en_enum.count = Len(en_list)
        /\ en_enum.version = 0 /\ en_enum.given = {}
        /\ en_enum \in ENEnum
    BY <1>1 DEF EN!Init, EN!Fresh, ENEnum
  <1>3. ENTypes
    BY <1>1, <1>2 DEF EN!Init, ENTypes
  <1>4. ENKnows(en_enum)
    BY <1>1, <1>2 DEF EN!Init, ENKnows, ENPins, ENTypesOf
  <1> QED
    BY <1>3, <1>4 DEF ENInv

LEMMA ENOwner ==
  ASSUME ENInv, EN!ChangeList \/ EN!IncrementVersion
  PROVE  ENInv'
  <1>1. CASE EN!ChangeList
    <2>1. en_list' \in Seq(en_Items) /\ en_changing' = TRUE /\ en_enum' = en_enum
          /\ en_version' = en_version /\ en_kind' = en_kind
      BY <1>1, ENListsSeq DEF EN!ChangeList
    <2>2. ENTypes'
      BY <2>1 DEF ENInv, ENTypes
    <2>3. ENKnows(en_enum)'
      BY <2>1 DEF ENInv, ENKnows, ENSame
    <2> QED
      BY <2>2, <2>3 DEF ENInv
  <1>2. CASE EN!IncrementVersion
    <2>1. en_list' = en_list /\ en_changing' = FALSE /\ en_enum' = en_enum
          /\ en_version' = en_version + 1 /\ en_kind' = en_kind
      BY <1>2 DEF EN!IncrementVersion
    <2>3. en_version \in Nat /\ en_enum.version \in Nat
      BY DEF ENInv, ENTypes, ENEnum
    <2>2. ENTypes'
      <3>1. en_version' \in Nat
        BY <2>1, <2>3
      <3> QED
        BY <2>1, <3>1 DEF ENInv, ENTypes
    <2>4. ENKnows(en_enum)'
      BY <2>1, <2>3 DEF ENInv, ENKnows, ENSame
    <2> QED
      BY <2>2, <2>4 DEF ENInv
  <1> QED
    BY <1>1, <1>2

(* What a step of the enumerator has to keep.                               *)
LEMMA ENSets ==
  ASSUME ENInv, NEW r \in ENEnum, ENKnows(r), EN!Set(r)
  PROVE  ENInv'
  <1>1. en_enum' = r /\ en_kind' = en_kind /\ en_list' = en_list
        /\ en_version' = en_version /\ en_changing' = en_changing
    BY DEF EN!Set
  <1>2. ENTypes'
    BY <1>1 DEF ENInv, ENTypes
  <1>3. ENKnows(en_enum)'
    BY <1>1 DEF ENKnows, ENSame, ENPins, ENTypesOf
  <1> QED
    BY <1>2, <1>3 DEF ENInv

(* A step that changes none of what the enumerator knows.                   *)
LEMMA ENSameKnown ==
  ASSUME ENInv, NEW r \in ENEnum, r.version = en_enum.version, r.position = en_enum.position, r.count = en_enum.count,
         r.cache = en_enum.cache, r.given = en_enum.given, r.skipped = en_enum.skipped,
         r.pc \in {"version", "count"} => en_kind = "pins",
         en_enum.pc \in {"version", "count"} => r.pc \in {"version", "count"},
         EN!Set(r)
  PROVE  ENInv'
  <1>1. ENKnows(r)
    BY DEF ENInv, ENTypes, ENKnows, ENSame, ENPins, ENTypesOf
  <1> QED
    BY <1>1, ENSets

LEMMA ENEnumerates ==
  ASSUME ENInv, EN!Enumerate
  PROVE  ENInv'
  <1>0. ENTypes /\ en_enum \in ENEnum /\ en_list \in Seq(en_Items) /\ ENKnows(en_enum)
    BY DEF ENInv, ENTypes
  <1>1. ASSUME NEW n \in 1 .. en_Most, EN!NextPins(n) \/ EN!NextTypes(n) PROVE ENInv'
    <2>1. PICK pc \in {"version", "fetch"} : EN!Set([en_enum EXCEPT !.want = n, !.pc = pc])
          /\ (pc = "version" => en_kind = "pins")
      BY <1>1 DEF EN!NextPins, EN!NextTypes
    <2>6. n \in Nat
      OBVIOUS
    <2> DEFINE r == [en_enum EXCEPT !.want = n, !.pc = pc]
    <2>2. r \in ENEnum
      BY <1>0, <2>6 DEF ENEnum
    <2>3. /\ r.version = en_enum.version /\ r.position = en_enum.position
          /\ r.count = en_enum.count
          /\ r.cache = en_enum.cache /\ r.given = en_enum.given
          /\ r.skipped = en_enum.skipped /\ r.pc = pc
      BY <1>0 DEF ENEnum
    <2>4. en_enum.pc = "idle"
      BY <1>1 DEF EN!NextPins, EN!NextTypes, EN!Is
    <2>5. EN!Set(r)
      BY <2>1
    <2> HIDE DEF r
    <2> QED
      BY <2>1, <2>2, <2>3, <2>4, <2>5, ENSameKnown
  <1>2. ASSUME NEW n \in 1 .. en_Most, EN!Skip(n) PROVE ENInv'
    <2> DEFINE r == [en_enum EXCEPT !.position = @ + n,
                                    !.skipped = @ \cup (en_enum.position + 1) .. (en_enum.position + n)]
    <2>1. EN!Set(r) /\ en_enum.pc = "idle"
      BY <1>2 DEF EN!Skip, EN!Is
    <2>2. en_enum.position \in Nat /\ en_enum.skipped \in SUBSET Nat /\ n \in Nat
      BY <1>0 DEF ENEnum
    <2>3. /\ r.version = en_enum.version /\ r.position = en_enum.position + n
          /\ r.count = en_enum.count
          /\ r.cache = en_enum.cache /\ r.given = en_enum.given /\ r.pc = en_enum.pc
          /\ r.skipped = en_enum.skipped \cup (en_enum.position + 1) .. (en_enum.position + n)
      BY <1>0 DEF ENEnum
    <2>4. en_enum.position + n \in Nat
          /\ en_enum.skipped \cup (en_enum.position + 1) .. (en_enum.position + n) \in SUBSET Nat
      BY <2>2
    <2>5. r \in ENEnum
      BY <1>0, <2>4 DEF ENEnum
    <2> HIDE DEF r
    <2>6. \A i \in 1 .. Len(en_list) : i <= r.position => i <= en_enum.position \/ i \in r.skipped
      BY <1>0, <2>2, <2>3
    <2>7. ENKnows(r)
      BY <1>0, <2>1, <2>3, <2>6 DEF ENKnows, ENSame, ENPins, ENTypesOf
    <2> QED
      BY <2>1, <2>5, <2>7, ENSets
  <1>3. CASE EN!ResetPins
    <2> DEFINE r == [en_enum EXCEPT !.pc = "version"]
    <2>1. EN!Set(r) /\ en_kind = "pins"
      BY <1>3 DEF EN!ResetPins
    <2>2. /\ r \in ENEnum
          /\ r.version = en_enum.version /\ r.position = en_enum.position
          /\ r.count = en_enum.count
          /\ r.cache = en_enum.cache /\ r.given = en_enum.given
          /\ r.skipped = en_enum.skipped /\ r.pc = "version"
      BY <1>0 DEF ENEnum
    <2> HIDE DEF r
    <2> QED
      BY <2>1, <2>2, ENSameKnown
  <1>4. CASE EN!ReadVersion
    <2> DEFINE r == [en_enum EXCEPT !.version = en_version, !.pc = "count"]
    <2>1. EN!Set(r) /\ en_kind = "pins" /\ en_version \in Nat
      BY <1>0, <1>4 DEF EN!ReadVersion, EN!Is, ENKnows, ENTypes
    <2>2. r \in ENEnum /\ r.version = en_version /\ r.pc = "count"
      BY <1>0, <2>1 DEF ENEnum
    <2> HIDE DEF r
    <2>3. ENKnows(r)
      BY <2>1, <2>2 DEF ENKnows
    <2> QED
      BY <2>1, <2>2, <2>3, ENSets
  <1>5. CASE EN!ReadCount
    <2> DEFINE reset == en_enum.want = 0
               r == [en_enum EXCEPT !.count = Len(en_list), !.position = 0, !.skipped = {},
                                    !.cache = IF reset THEN {} ELSE @,
                                    !.pc = IF reset THEN "idle" ELSE "fetch"]
    <2>1. EN!Set(r) /\ en_kind = "pins" /\ Len(en_list) \in Nat
      BY <1>0, <1>5 DEF EN!ReadCount, EN!Is, ENKnows, ENTypes
    <2>2. r \in ENEnum /\ r.version = en_enum.version /\ r.count = Len(en_list)
          /\ r.position = 0
      BY <1>0, <2>1 DEF ENEnum
    <2> HIDE DEF r
    <2>3. ENKnows(r)
      BY <1>0, <2>1, <2>2 DEF ENKnows, ENPins
    <2> QED
      BY <2>1, <2>2, <2>3, ENSets
  <1>6. CASE EN!FetchPin
    <2> DEFINE i == en_enum.position + 1
    <2>1. /\ en_kind = "pins" /\ en_enum.pc = "fetch" /\ en_enum.position \in Nat
          /\ i \in Nat /\ en_enum.count \in Nat
          /\ en_enum.want \in Nat /\ DOMAIN en_list = 1 .. Len(en_list)
      BY <1>0, <1>6 DEF EN!FetchPin, EN!Is, ENEnum
    <2>2. PICK w \in Nat, p \in {en_enum.position, i}, c \in SUBSET en_Items, s \in {"idle", "fetch"} :
            /\ EN!Set([en_enum EXCEPT !.position = p, !.want = w, !.cache = c, !.pc = s])
            /\ en_enum.cache \subseteq c
            /\ p = i /\ i \in 1 .. Len(en_list) => en_list[i] \in c
      <3>1. CASE en_enum.want = 0 \/ en_enum.count <= en_enum.position
        <4>1. EN!Set(EN!Returns(en_enum))
          BY <1>6, <2>1, <3>1 DEF EN!FetchPin
        <4>0. PICK z \in Nat : z = 0
          OBVIOUS
        <4>2. EN!Returns(en_enum) = [en_enum EXCEPT !.position = en_enum.position, !.want = z, !.cache = en_enum.cache, !.pc = "idle"]
          BY <1>0, <4>0 DEF EN!Returns, ENEnum
        <4>3. en_enum.cache \in SUBSET en_Items /\ en_enum.position # i
          BY <1>0, <2>1 DEF ENEnum
        <4> QED
          BY <4>1, <4>2, <4>3
      <3>2. CASE ~(en_enum.want = 0 \/ en_enum.count <= en_enum.position)
        <4>1. CASE i \notin DOMAIN en_list
          <5>1. EN!Set(EN!Returns([en_enum EXCEPT !.position = i]))
            BY <1>6, <3>2, <4>1 DEF EN!FetchPin
          <5>0. PICK z \in Nat : z = 0
            OBVIOUS
          <5>2. EN!Returns([en_enum EXCEPT !.position = i]) =
                  [en_enum EXCEPT !.position = i, !.want = z, !.cache = en_enum.cache, !.pc = "idle"]
            BY <1>0, <5>0 DEF EN!Returns, ENEnum
          <5>3. en_enum.cache \in SUBSET en_Items
            BY <1>0 DEF ENEnum
          <5>4. i \notin 1 .. Len(en_list)
            BY <2>1, <4>1
          <5>5. i \in {en_enum.position, i} /\ "idle" \in {"idle", "fetch"}
            OBVIOUS
          <5> HIDE DEF i
          <5> QED
            BY <5>1, <5>2, <5>3, <5>4, <5>5
        <4>2. CASE i \in DOMAIN en_list /\ en_list[i] \in en_enum.cache
          <5>1. EN!Set([en_enum EXCEPT !.position = i])
            BY <1>6, <3>2, <4>2 DEF EN!FetchPin
          <5>2. [en_enum EXCEPT !.position = i] =
                  [en_enum EXCEPT !.position = i, !.want = en_enum.want, !.cache = en_enum.cache, !.pc = "fetch"]
            BY <1>0, <2>1 DEF ENEnum
          <5>3. en_enum.cache \in SUBSET en_Items
            BY <1>0 DEF ENEnum
          <5> QED
            BY <2>1, <4>2, <5>1, <5>2, <5>3
        <4>3. CASE i \in DOMAIN en_list /\ en_list[i] \notin en_enum.cache
          <5> DEFINE c == en_enum.cache \cup {en_list[i]}
          <5>1. EN!Set([en_enum EXCEPT !.position = i, !.want = @ - 1, !.cache = @ \cup {en_list[i]}])
            BY <1>6, <3>2, <4>3 DEF EN!FetchPin
          <5>2. [en_enum EXCEPT !.position = i, !.want = @ - 1, !.cache = @ \cup {en_list[i]}] =
                  [en_enum EXCEPT !.position = i, !.want = en_enum.want - 1, !.cache = c, !.pc = "fetch"]
            BY <1>0, <2>1 DEF ENEnum
          <5>3. c \in SUBSET en_Items /\ en_enum.cache \subseteq c /\ en_list[i] \in c
            BY <1>0, <2>1, <4>3 DEF ENEnum
          <5>4. en_enum.want - 1 \in Nat
            BY <2>1, <3>2
          <5> HIDE DEF c
          <5> QED
            BY <2>1, <4>3, <5>1, <5>2, <5>3, <5>4
        <4> QED
          BY <4>1, <4>2, <4>3
      <3> QED
        BY <3>1, <3>2
    <2> DEFINE r == [en_enum EXCEPT !.position = p, !.want = w, !.cache = c, !.pc = s]
    <2>3. /\ r \in ENEnum
          /\ r.version = en_enum.version /\ r.position = p /\ r.count = en_enum.count
          /\ r.cache = c
          /\ r.skipped = en_enum.skipped /\ r.pc = s
      BY <1>0, <2>1, <2>2 DEF ENEnum
    <2>4. EN!Set(r)
      BY <2>2
    <2> HIDE DEF r
    <2>5. \A j \in 1 .. Len(en_list) : j <= p => j <= en_enum.position \/ (p = i /\ j = i)
      BY <2>1, <2>2
    <2> HIDE DEF i
    <2>6. ENKnows(r)
      BY <1>0, <2>1, <2>2, <2>3, <2>5 DEF ENKnows, ENSame, ENPins
    <2> QED
      BY <2>3, <2>4, <2>6, ENSets
  <1>7. CASE EN!FetchType
    <2> DEFINE i == en_enum.position + 1
    <2>1. /\ en_kind = "types" /\ en_enum.pc = "fetch" /\ en_enum.position \in Nat
          /\ i \in Nat
          /\ en_enum.want \in Nat /\ DOMAIN en_list = 1 .. Len(en_list)
      BY <1>0, <1>7 DEF EN!FetchType, EN!Is, ENEnum
    <2>2. PICK w \in Nat, p \in {en_enum.position, i}, g \in SUBSET (Nat \X en_Items), s \in {"idle", "fetch"} :
            /\ EN!Set([en_enum EXCEPT !.position = p, !.want = w, !.given = g, !.pc = s])
            /\ \/ g = en_enum.given /\ (p = i => i \notin 1 .. Len(en_list))
               \/ g = en_enum.given \cup {<<i, en_list[i]>>} /\ i \in 1 .. Len(en_list)
      <3>0. en_enum.given \in SUBSET (Nat \X en_Items)
        BY <1>0 DEF ENEnum
      <3>1. CASE en_enum.want = 0
        <4>1. EN!Set(EN!Returns(en_enum))
          BY <1>7, <3>1 DEF EN!FetchType
        <4>0. PICK z \in Nat : z = 0
          OBVIOUS
        <4>2. EN!Returns(en_enum) = [en_enum EXCEPT !.position = en_enum.position, !.want = z, !.given = en_enum.given, !.pc = "idle"]
          BY <1>0, <4>0 DEF EN!Returns, ENEnum
        <4>3. en_enum.position # i
          BY <2>1
        <4> QED
          BY <3>0, <4>1, <4>2, <4>3
      <3>2. CASE en_enum.want # 0 /\ i \notin DOMAIN en_list
        <4>1. EN!Set(EN!Returns([en_enum EXCEPT !.position = i]))
          BY <1>7, <3>2 DEF EN!FetchType
        <4>0. PICK z \in Nat : z = 0
          OBVIOUS
        <4>2. EN!Returns([en_enum EXCEPT !.position = i]) =
                [en_enum EXCEPT !.position = i, !.want = z, !.given = en_enum.given, !.pc = "idle"]
          BY <1>0, <4>0 DEF EN!Returns, ENEnum
        <4> QED
          BY <2>1, <3>0, <3>2, <4>1, <4>2
      <3>3. CASE en_enum.want # 0 /\ i \in DOMAIN en_list
        <4> DEFINE g == en_enum.given \cup {<<i, en_list[i]>>}
        <4>1. EN!Set([en_enum EXCEPT !.position = i, !.want = @ - 1, !.given = @ \cup {<<i, en_list[i]>>}])
          BY <1>7, <3>3 DEF EN!FetchType
        <4>2. [en_enum EXCEPT !.position = i, !.want = @ - 1, !.given = @ \cup {<<i, en_list[i]>>}] =
                [en_enum EXCEPT !.position = i, !.want = en_enum.want - 1, !.given = g, !.pc = "fetch"]
          BY <1>0, <2>1 DEF ENEnum
        <4>3. g \in SUBSET (Nat \X en_Items)
          BY <1>0, <2>1, <3>0, <3>3
        <4>4. en_enum.want - 1 \in Nat
          BY <2>1, <3>3
        <4>5. g = en_enum.given \cup {<<i, en_list[i]>>}
          OBVIOUS
        <4> HIDE DEF g
        <4> QED
          BY <2>1, <3>3, <4>1, <4>2, <4>3, <4>4, <4>5
      <3> QED
        BY <3>1, <3>2, <3>3
    <2> DEFINE r == [en_enum EXCEPT !.position = p, !.want = w, !.given = g, !.pc = s]
    <2>3. /\ r \in ENEnum
          /\ r.version = en_enum.version /\ r.position = p /\ r.given = g
          /\ r.skipped = en_enum.skipped /\ r.pc = s
      BY <1>0, <2>1, <2>2 DEF ENEnum
    <2>4. EN!Set(r)
      BY <2>2
    <2> HIDE DEF r
    <2>5. \A j \in 1 .. Len(en_list) : j <= p => j <= en_enum.position \/ (p = i /\ j = i)
      BY <2>1, <2>2
    <2> HIDE DEF i
    <2>7. ENTypesOf(en_enum) => ENTypesOf(r)
      <3> SUFFICES ASSUME ENTypesOf(en_enum) PROVE ENTypesOf(r)
        OBVIOUS
      <3>1. \A x \in r.given : x[1] \in 1 .. Len(en_list) /\ en_list[x[1]] = x[2]
        BY <2>2, <2>3 DEF ENTypesOf
      <3>2. \A j \in 1 .. Len(en_list) : j <= r.position => j \in r.skipped \/ <<j, en_list[j]>> \in r.given
        BY <2>2, <2>3, <2>5 DEF ENTypesOf
      <3> QED
        BY <3>1, <3>2 DEF ENTypesOf
    <2>6. ENKnows(r)
      BY <1>0, <2>1, <2>2, <2>3, <2>7 DEF ENKnows, ENSame
    <2> QED
      BY <2>3, <2>4, <2>6, ENSets
  <1>8. CASE EN!ResetTypes
    <2> DEFINE r == [EN!Fresh EXCEPT !.version = en_version]
    <2>1. EN!Set(r) /\ en_kind = "types" /\ en_version \in Nat
      BY <1>0, <1>8 DEF EN!ResetTypes, ENTypes
    <2>2. r \in ENEnum /\ r.version = en_version /\ r.position = 0 /\ r.given = {}
          /\ r.pc = "idle"
      BY <2>1 DEF ENEnum, EN!Fresh
    <2> HIDE DEF r
    <2>3. ENKnows(r)
      BY <2>1, <2>2 DEF ENKnows, ENTypesOf
    <2> QED
      BY <2>1, <2>2, <2>3, ENSets
  <1>9. CASE EN!BeginClone \/ EN!EndClone
    <2>1. PICK pc \in {"clone", "idle"}, w \in Nat : EN!Set([en_enum EXCEPT !.pc = pc, !.want = w])
      <3>1. en_enum.want \in Nat
            /\ [en_enum EXCEPT !.pc = "clone"] = [en_enum EXCEPT !.pc = "clone", !.want = en_enum.want]
        BY <1>0 DEF ENEnum
      <3> QED
        BY <1>9, <3>1 DEF EN!BeginClone, EN!EndClone, EN!Returns
    <2> DEFINE r == [en_enum EXCEPT !.pc = pc, !.want = w]
    <2>2. /\ r \in ENEnum
          /\ r.version = en_enum.version /\ r.position = en_enum.position
          /\ r.count = en_enum.count
          /\ r.cache = en_enum.cache /\ r.given = en_enum.given
          /\ r.skipped = en_enum.skipped /\ r.pc = pc
      BY <1>0 DEF ENEnum
    <2>3. en_enum.pc \in {"idle", "clone"}
      BY <1>9 DEF EN!BeginClone, EN!EndClone, EN!Is
    <2>4. EN!Set(r)
      BY <2>1
    <2> HIDE DEF r
    <2> QED
      BY <2>2, <2>3, <2>4, ENSameKnown
  <1> QED
    BY <1>1, <1>2, <1>3, <1>4, <1>5, <1>6, <1>7, <1>8, <1>9 DEF EN!Enumerate

LEMMA ENStep ==
  ASSUME ENInv, [EN!Next]_(EN!vars)
  PROVE  ENInv'
  <1>1. CASE UNCHANGED EN!vars
    BY <1>1 DEF EN!vars, ENInv, ENTypes, ENKnows, ENSame, ENPins, ENTypesOf
  <1>2. CASE EN!Next
    BY <1>2, ENOwner, ENEnumerates DEF EN!Next
  <1> QED
    BY <1>1, <1>2

LEMMA ENSafe == ENInv => EN!EnumerationSound
  <1> SUFFICES ASSUME ENInv PROVE EN!EveryPinGiven /\ EN!TypesOfOneList
    BY DEF EN!EnumerationSound
  <1>1. ENTypes /\ en_enum.position \in Nat /\ en_list \in Seq(en_Items)
        /\ DOMAIN en_list = 1 .. Len(en_list) /\ Len(en_list) \in Nat
    BY DEF ENInv, ENTypes, ENEnum
  <1>2. EN!EveryPinGiven
    BY <1>1
       DEF EN!EveryPinGiven, EN!Settled, EN!Is, EN!OutOfSync, ENInv, ENKnows, ENSame,
           ENPins
  <1>3. EN!TypesOfOneList
    BY <1>1
       DEF EN!TypesOfOneList, EN!Settled, EN!Is, EN!OutOfSync, ENInv, ENKnows, ENSame,
           ENTypesOf
  <1> QED
    BY <1>2, <1>3

-----------------------------------------------------------------------------
(***************************************************************************)
(* Lists.  A heap is good when every node is in one chain or none: F has the*)
(* chains of the lists, C those of the caches, and O tells of each node where*)
(* it is (Good).  A method takes a node into the hand, puts it on a list or*)
(* lays it down, or replaces whole chains, and each keeps the heap good; what*)
(* the lists tell, View, changes as ListSpec says.  The loops that copy a list*)
(* are told by what they have copied (Copied).                             *)
(***************************************************************************)

(***************************************************************************)
(* Chains of nodes.                                                        *)
(***************************************************************************)
Ends == LI!Nodes \cup {LI!NULL}

In(x, s) == \E i \in 1 .. Len(s) : s[i] = x
Once(s) == \A i, j \in 1 .. Len(s) : s[i] = s[j] => i = j
Front(s) == IF Len(s) = 0 THEN LI!NULL ELSE s[1]
End(s) == IF Len(s) = 0 THEN LI!NULL ELSE s[Len(s)]
After(s, i) == IF i = Len(s) THEN LI!NULL ELSE s[i + 1]
Before(s, i) == IF i = 1 THEN LI!NULL ELSE s[i - 1]

LEMMA LINodes == li_N \in Nat /\ LI!Nodes = 1 .. li_N /\ LI!NULL = 0
/\ LI!NULL \notin LI!Nodes
  BY ListAssumption DEF LI!Nodes, LI!NULL

LEMMA LISeq ==
  ASSUME NEW A, NEW s \in Seq(A)
  PROVE  /\ Len(s) \in Nat /\ DOMAIN s = 1 .. Len(s)
         /\ \A i \in 1 .. Len(s) : s[i] \in A
         /\ s = [i \in 1 .. Len(s) |-> s[i]]
  OBVIOUS

LEMMA LIMake ==
  ASSUME NEW A, NEW n \in Nat, NEW f, f = [i \in 1 .. n |-> f[i]],
         \A i \in 1 .. n : f[i] \in A
  PROVE  f \in Seq(A) /\ Len(f) = n
  <1>1. f \in [1 .. n -> A]
    BY Zenon
  <1> QED
    BY <1>1

LEMMA LIEqual ==
  ASSUME NEW A, NEW s \in Seq(A), NEW t \in Seq(A), Len(s) = Len(t),
         \A i \in 1 .. Len(s) : s[i] = t[i]
  PROVE  s = t
  OBVIOUS

LEMMA LIInserted ==
  ASSUME NEW A, NEW s \in Seq(A), NEW x \in A, NEW i \in 1 .. Len(s) + 1,
         NEW t, t = LI!S!Inserted(s, i, x)
  PROVE  /\ t \in Seq(A) /\ Len(t) = Len(s) + 1
         /\ \A j \in 1 .. Len(t) : t[j] = IF j < i THEN s[j] ELSE IF j = i THEN x ELSE s[j - 1]
  <1>1. t = [j \in 1 .. Len(s) + 1 |-> IF j < i THEN s[j] ELSE IF j = i THEN x ELSE s[j - 1]]
    BY DEF LI!S!Inserted
  <1>2. Len(s) \in Nat /\ \A j \in 1 .. Len(s) : s[j] \in A
    OBVIOUS
  <1> DEFINE n == Len(s) + 1
  <1>3. n \in Nat /\ t = [j \in 1 .. n |-> t[j]]
    BY <1>1, <1>2
  <1>4. ASSUME NEW j \in 1 .. n PROVE t[j] \in A
    <2>1. CASE j < i
      BY <1>1, <1>2, <2>1
    <2>2. CASE j = i
      BY <1>1, <1>2, <2>2
    <2>3. CASE j > i
      <3>1. j - 1 \in 1 .. Len(s)
        BY <1>2, <2>3
      <3>2. t[j] = s[j - 1]
        BY <1>1, <1>2, <2>3
      <3> QED
        BY <1>2, <3>1, <3>2
    <2> QED
      BY <1>2, <2>1, <2>2, <2>3
  <1> HIDE DEF n
  <1>5. t \in Seq(A) /\ Len(t) = n
    BY <1>3, <1>4, LIMake
  <1> QED
    BY <1>1, <1>2, <1>5 DEF n

LEMMA LIWithout ==
  ASSUME NEW A, NEW s \in Seq(A), NEW i \in 1 .. Len(s), NEW t, t = LI!S!Without(s, i)
  PROVE  /\ t \in Seq(A) /\ Len(t) = Len(s) - 1
         /\ \A j \in 1 .. Len(t) : t[j] = IF j < i THEN s[j] ELSE s[j + 1]
  <1>1. t = [j \in 1 .. Len(s) - 1 |-> IF j < i THEN s[j] ELSE s[j + 1]]
    BY DEF LI!S!Without
  <1>2. Len(s) \in Nat /\ \A j \in 1 .. Len(s) : s[j] \in A
    OBVIOUS
  <1> DEFINE n == Len(s) - 1
  <1>3. n \in Nat /\ t = [j \in 1 .. n |-> t[j]]
    BY <1>1, <1>2
  <1>4. ASSUME NEW j \in 1 .. n PROVE t[j] \in A
    <2>1. j \in 1 .. Len(s) /\ j + 1 \in 1 .. Len(s)
      BY <1>2
    <2> QED
      BY <1>1, <1>2, <2>1
  <1> HIDE DEF n
  <1>5. t \in Seq(A) /\ Len(t) = n
    BY <1>3, <1>4, LIMake
  <1> QED
    BY <1>1, <1>2, <1>5 DEF n

LEMMA LIReversed ==
  ASSUME NEW A, NEW s \in Seq(A), NEW t, t = LI!S!Reversed(s)
  PROVE  /\ t \in Seq(A) /\ Len(t) = Len(s)
         /\ \A j \in 1 .. Len(t) : t[j] = s[Len(s) + 1 - j]
  <1>1. t = [j \in 1 .. Len(s) |-> s[Len(s) + 1 - j]]
    BY DEF LI!S!Reversed
  <1>2. Len(s) \in Nat /\ \A j \in 1 .. Len(s) : s[j] \in A
    OBVIOUS
  <1> DEFINE n == Len(s)
  <1>3. n \in Nat /\ t = [j \in 1 .. n |-> t[j]]
    BY <1>1, <1>2
  <1>4. ASSUME NEW j \in 1 .. n PROVE t[j] \in A
    <2>1. Len(s) + 1 - j \in 1 .. Len(s)
      BY <1>2
    <2> QED
      BY <1>1, <1>2, <2>1
  <1> HIDE DEF n
  <1>5. t \in Seq(A) /\ Len(t) = n
    BY <1>3, <1>4, LIMake
  <1> QED
    BY <1>1, <1>2, <1>5 DEF n

(* What is in such a sequence, and that it is there once.                  *)
LEMMA LIInsertedHas ==
  ASSUME NEW A, NEW s \in Seq(A), NEW n \in A, NEW i \in 1 .. Len(s) + 1,
         NEW t, t = LI!S!Inserted(s, i, n)
  PROVE  /\ \A x : In(x, t) <=> x = n \/ In(x, s)
         /\ Once(s) /\ ~In(n, s) => Once(t)
  <1>1. /\ t \in Seq(A) /\ Len(t) = Len(s) + 1
        /\ \A j \in 1 .. Len(t) : t[j] = IF j < i THEN s[j] ELSE IF j = i THEN n ELSE s[j - 1]
    BY LIInserted
  <1>2. Len(s) \in Nat
    OBVIOUS
  <1>3. ASSUME NEW x, In(x, t) PROVE x = n \/ In(x, s)
    <2>1. PICK j \in 1 .. Len(t) : t[j] = x
      BY <1>3 DEF In
    <2>2. CASE j < i
      <3>1. j \in 1 .. Len(s) /\ s[j] = x
        BY <1>1, <1>2, <2>1, <2>2
      <3> QED
        BY <3>1 DEF In
    <2>3. CASE j = i
      BY <1>1, <2>1, <2>3
    <2>4. CASE j > i
      <3>1. j - 1 \in 1 .. Len(s) /\ s[j - 1] = x
        BY <1>1, <1>2, <2>1, <2>4
      <3> QED
        BY <3>1 DEF In
    <2> QED
      BY <1>1, <1>2, <2>2, <2>3, <2>4
  <1>4. In(n, t)
    <2>1. i \in 1 .. Len(t) /\ t[i] = n
      BY <1>1, <1>2
    <2> QED
      BY <2>1 DEF In
  <1>5. ASSUME NEW x, In(x, s) PROVE In(x, t)
    <2>1. PICK j \in 1 .. Len(s) : s[j] = x
      BY <1>5 DEF In
    <2>2. CASE j < i
      <3>1. j \in 1 .. Len(t) /\ t[j] = x
        BY <1>1, <1>2, <2>1, <2>2
      <3> QED
        BY <3>1 DEF In
    <2>3. CASE j >= i
      <3>1. j + 1 \in 1 .. Len(t) /\ t[j + 1] = x
        BY <1>1, <1>2, <2>1, <2>3
      <3> QED
        BY <3>1 DEF In
    <2> QED
      BY <1>2, <2>2, <2>3
  <1>6. ASSUME Once(s), ~In(n, s) PROVE Once(t)
    <2>1. \A j \in 1 .. Len(s) : s[j] # n
      BY <1>6 DEF In
    <2>2. ASSUME NEW j \in 1 .. Len(t), NEW k \in 1 .. Len(t), j < k PROVE t[j] # t[k]
      <3>1. CASE k < i
        BY <1>1, <1>2, <1>6, <2>2, <3>1 DEF Once
      <3>2. CASE k = i
        BY <1>1, <1>2, <2>1, <2>2, <3>2
      <3>3. CASE k > i /\ j < i
        <4>1. t[j] = s[j] /\ t[k] = s[k - 1] /\ j \in 1 .. Len(s) /\ k - 1 \in 1 .. Len(s)
              /\ j # k - 1
          BY <1>1, <1>2, <2>2, <3>3
        <4> QED
          BY <1>6, <4>1 DEF Once
      <3>4. CASE k > i /\ j = i
        <4>1. t[k] = s[k - 1] /\ k - 1 \in 1 .. Len(s) /\ t[j] = n
          BY <1>1, <1>2, <2>2, <3>4
        <4> QED
          BY <2>1, <4>1
      <3>5. CASE k > i /\ j > i
        <4>1. t[j] = s[j - 1] /\ t[k] = s[k - 1] /\ j - 1 \in 1 .. Len(s)
              /\ k - 1 \in 1 .. Len(s)
              /\ j - 1 # k - 1
          BY <1>1, <1>2, <2>2, <3>5
        <4> QED
          BY <1>6, <4>1 DEF Once
      <3> QED
        BY <1>1, <1>2, <3>1, <3>2, <3>3, <3>4, <3>5
    <2>3. Len(t) \in Nat
      BY <1>1, <1>2
    <2> QED
      BY <2>2, <2>3 DEF Once
  <1> QED
    BY <1>3, <1>4, <1>5, <1>6

LEMMA LIWithoutHas ==
  ASSUME NEW A, NEW s \in Seq(A), NEW i \in 1 .. Len(s), Once(s),
         NEW t, t = LI!S!Without(s, i)
  PROVE  Once(t) /\ \A x : In(x, t) <=> x # s[i] /\ In(x, s)
  <1>1. /\ t \in Seq(A) /\ Len(t) = Len(s) - 1
        /\ \A j \in 1 .. Len(t) : t[j] = IF j < i THEN s[j] ELSE s[j + 1]
    BY LIWithout
  <1>2. Len(s) \in Nat
    OBVIOUS
  <1> DEFINE at(j) == IF j < i THEN j ELSE j + 1
  <1>3. \A j \in 1 .. Len(t) : at(j) \in 1 .. Len(s) /\ t[j] = s[at(j)] /\ at(j) # i
    BY <1>1, <1>2
  <1>4. \A j, k \in 1 .. Len(t) : at(j) = at(k) => j = k
    BY <1>1, <1>2
  <1>5. Once(t)
    <2> HIDE DEF at
    <2> QED
      BY <1>3, <1>4 DEF Once
  <1>6. ASSUME NEW x, In(x, t) PROVE x # s[i] /\ In(x, s)
    <2>1. PICK j \in 1 .. Len(t) : t[j] = x
      BY <1>6 DEF In
    <2> HIDE DEF at
    <2> QED
      BY <1>3, <2>1 DEF In, Once
  <1>7. ASSUME NEW x, In(x, s), x # s[i] PROVE In(x, t)
    <2>1. PICK j \in 1 .. Len(s) : s[j] = x
      BY <1>7 DEF In
    <2>2. CASE j < i
      <3>1. j \in 1 .. Len(t) /\ t[j] = x
        BY <1>1, <1>2, <2>1, <2>2
      <3> QED
        BY <3>1 DEF In
    <2>3. CASE j > i
      <3>1. j - 1 \in 1 .. Len(t) /\ t[j - 1] = x
        BY <1>1, <1>2, <2>1, <2>3
      <3> QED
        BY <3>1 DEF In
    <2> QED
      BY <1>2, <1>7, <2>1, <2>2, <2>3
  <1> QED
    BY <1>5, <1>6, <1>7

(* A chain: its nodes once each, every link leads to the next of them.     *)
Linked(link, s) == \A i \in 1 .. Len(s) : link[s[i]] = After(s, i)

LEMMA LILength ==
  ASSUME NEW s \in Seq(LI!Nodes), Once(s)
  PROVE  Len(s) \in Nat /\ Len(s) <= li_N
  <1> DEFINE D == 1 .. Len(s)
  <1>1. Len(s) \in Nat /\ DOMAIN s = D /\ \A i \in D : s[i] \in LI!Nodes
    OBVIOUS
  <1>2. IsFiniteSet(D) /\ Cardinality(D) = Len(s)
    <2> DEFINE n == Len(s)
    <2>1. n \in Nat
      OBVIOUS
    <2> HIDE DEF n
    <2>2. IsFiniteSet(1 .. n) /\ Cardinality(1 .. n) = n
      BY <2>1, FS_Interval
    <2> QED
      BY <2>2 DEF n
  <1>3. IsFiniteSet(LI!Nodes) /\ Cardinality(LI!Nodes) = li_N
    BY LINodes, FS_Interval
  <1>4. ASSUME Len(s) > li_N PROVE FALSE
    <2> DEFINE f == [i \in D |-> s[i]]
    <2>1. f \in [D -> LI!Nodes]
      BY <1>1
    <2>2. \E i, j \in D : i # j /\ f[i] = f[j]
      <3> HIDE DEF D, f
      <3> QED
        BY <1>2, <1>3, <1>4, <2>1, FS_PigeonHole
    <2> QED
      BY <2>2 DEF Once
  <1> QED
    BY <1>1, <1>4, LINodes

(* A walk along a chain gives the chain.                                   *)
LEMMA LIWalk ==
  ASSUME NEW link \in [LI!Nodes -> Ends], NEW s \in Seq(LI!Nodes), Once(s), Linked(link, s)
  PROVE  LI!Walk(link, Front(s)) = s
  <1>1. li_N \in Nat /\ LI!NULL \notin LI!Nodes /\ Len(s) \in Nat /\ Len(s) <= li_N
        /\ \A i \in 1 .. Len(s) : s[i] \in LI!Nodes
    BY LINodes, LILength
  <1> DEFINE start == Front(s)
             f == [k \in 1 .. (li_N + 1) |-> IF k <= Len(s) THEN s[k] ELSE LI!NULL]
             u == CHOOSE u : u = [k \in 1 .. (li_N + 1) |->
                    IF k = 1 THEN start
                    ELSE LET p == u[k - 1] IN IF p = LI!NULL THEN LI!NULL ELSE link[p]]
             end == CHOOSE n \in 0 .. (li_N + 1) : \A k \in 1 .. (li_N + 1) : u[k] # LI!NULL <=> k <= n
  <1>2. LI!Walk(link, start) = [k \in 1 .. end |-> u[k]]
    BY DEF LI!Walk
  <1>3. f = [k \in 1 .. (li_N + 1) |->
              IF k = 1 THEN start
              ELSE LET p == f[k - 1] IN IF p = LI!NULL THEN LI!NULL ELSE link[p]]
    <2>1. f[1] = start
      BY <1>1 DEF Front
    <2>2. ASSUME NEW k \in 2 .. (li_N + 1)
          PROVE  f[k] = IF f[k - 1] = LI!NULL THEN LI!NULL ELSE link[f[k - 1]]
      <3>1. CASE k <= Len(s)
        <4>1. k - 1 \in 1 .. Len(s) /\ f[k - 1] = s[k - 1] /\ s[k - 1] # LI!NULL
              /\ k - 1 # Len(s)
          BY <1>1, <3>1
        <4>2. link[s[k - 1]] = s[k]
          BY <4>1 DEF Linked, After
        <4> QED
          BY <1>1, <3>1, <4>1, <4>2
      <3>2. CASE k = Len(s) + 1
        <4>1. k - 1 \in 1 .. Len(s) /\ f[k - 1] = s[k - 1] /\ s[k - 1] # LI!NULL
              /\ k - 1 = Len(s)
          BY <1>1, <3>2
        <4>2. link[s[k - 1]] = LI!NULL
          BY <4>1 DEF Linked, After
        <4> QED
          BY <1>1, <3>2, <4>1, <4>2
      <3>3. CASE k > Len(s) + 1
        BY <1>1, <3>3
      <3> QED
        BY <1>1, <3>1, <3>2, <3>3
    <2>3. f = [k \in 1 .. (li_N + 1) |-> f[k]]
      OBVIOUS
    <2> HIDE DEF start, f
    <2>4. \A k \in 1 .. (li_N + 1) : f[k] = IF k = 1 THEN start ELSE
                                    IF f[k - 1] = LI!NULL THEN LI!NULL ELSE link[f[k - 1]]
      BY <1>1, <2>1, <2>2
    <2> QED
      BY <2>3, <2>4, Zenon
  <1>4. u = [k \in 1 .. (li_N + 1) |->
              IF k = 1 THEN start
              ELSE LET p == u[k - 1] IN IF p = LI!NULL THEN LI!NULL ELSE link[p]]
    <2> HIDE DEF f, start
    <2> QED
      BY <1>3, Zenon
  <1>5. \A k \in Nat : k \in 1 .. (li_N + 1) => u[k] = f[k]
    <2> DEFINE V == {k \in Nat : k \in 1 .. (li_N + 1) => u[k] = f[k]}
    <2> HIDE DEF u, f, start
    <2>1. 0 \in V
      BY <1>1
    <2>2. ASSUME NEW k \in Nat, k \in V PROVE k + 1 \in V
      BY <2>2, <1>1, <1>3, <1>4
    <2>3. Nat \subseteq V
      <3> HIDE DEF V
      <3> QED
        BY <2>1, <2>2, NatInd
    <2> QED
      BY <2>3
  <1>6. \A k \in 1 .. (li_N + 1) : u[k] # LI!NULL <=> k <= Len(s)
    <2> HIDE DEF u
    <2> QED
      BY <1>1, <1>5
  <1>7. end = Len(s)
    <2> HIDE DEF u
    <2>1. Len(s) \in 0 .. (li_N + 1)
      BY <1>1
    <2>2. end \in 0 .. (li_N + 1) /\ \A k \in 1 .. (li_N + 1) : u[k] # LI!NULL <=> k <= end
      BY <1>6, <2>1
    <2> HIDE DEF end
    <2>3. CASE end < Len(s)
      <3>1. end + 1 \in 1 .. (li_N + 1)
        BY <1>1, <2>2, <2>3
      <3> QED
        BY <1>1, <1>6, <2>2, <2>3, <3>1
    <2>4. CASE end > Len(s)
      <3>1. Len(s) + 1 \in 1 .. (li_N + 1)
        BY <1>1, <2>2, <2>4
      <3> QED
        BY <1>1, <1>6, <2>2, <2>4, <3>1
    <2> QED
      BY <1>1, <2>2, <2>3, <2>4
  <1> HIDE DEF end, u, start
  <1>8. \A k \in 1 .. Len(s) : u[k] = s[k]
    BY <1>1, <1>5
  <1>9. [k \in 1 .. end |-> u[k]] = [k \in 1 .. Len(s) |-> s[k]]
    <2> HIDE DEF f
    <2> QED BY <1>7, <1>8
  <1>10. s = [k \in 1 .. Len(s) |-> s[k]]
    BY LISeq
  <1> QED
    BY <1>2, <1>9, <1>10 DEF start

LinkedBack(link, s) == \A i \in 1 .. Len(s) : link[s[i]] = Before(s, i)

(* The nodes before and after the place i of a chain.                      *)
Left(s, i) == IF i = 1 THEN LI!NULL ELSE s[i - 1]
Right(s, i) == IF i = Len(s) + 1 THEN LI!NULL ELSE s[i]

LEMMA LIPutNext ==
  ASSUME NEW s \in Seq(LI!Nodes), Once(s), NEW n \in LI!Nodes, ~In(n, s), NEW i \in 1 .. Len(s) + 1,
         NEW was, NEW new, Linked(was, s),
         new[n] = Right(s, i), Left(s, i) # LI!NULL => new[Left(s, i)] = n,
         \A x \in LI!Nodes : x # n /\ x # Left(s, i) => new[x] = was[x],
         NEW t, t = LI!S!Inserted(s, i, n)
  PROVE  Linked(new, t) /\ Front(t) = IF Left(s, i) = LI!NULL THEN n ELSE Front(s)
  <1>1. /\ t \in Seq(LI!Nodes) /\ Len(t) = Len(s) + 1
        /\ \A j \in 1 .. Len(t) : t[j] = IF j < i THEN s[j] ELSE IF j = i THEN n ELSE s[j - 1]
    BY LIInserted
  <1>2. /\ Len(s) \in Nat
        /\ \A j \in 1 .. Len(s) : s[j] \in LI!Nodes /\ s[j] # n /\ s[j] # LI!NULL
        /\ \A j, k \in 1 .. Len(s) : s[j] = s[k] => j = k
    BY LINodes DEF In, Once
  <1>0. Len(s) \in Nat /\ Len(t) = Len(s) + 1 /\ i \in Nat /\ i <= Len(s) + 1
    BY <1>1
  <1>3. ASSUME NEW j \in 1 .. Len(t) PROVE new[t[j]] = After(t, j)
    <2>1. CASE j = i
      BY <1>1, <1>2, <2>1 DEF Right, After
    <2>2. CASE j = i - 1
      <3>1. t[j] = s[i - 1] /\ Left(s, i) = s[i - 1] /\ Left(s, i) # LI!NULL
        BY <1>1, <1>2, <2>2 DEF Left
      <3>2. After(t, j) = n
        BY <1>1, <1>2, <2>2 DEF After
      <3> QED
        BY <3>1, <3>2
    <2>3. CASE j < i - 1
      <3>1. t[j] = s[j] /\ j \in 1 .. Len(s) /\ s[j] # Left(s, i) /\ j # Len(s)
        BY <1>1, <1>2, <2>3 DEF Left
      <3>2. j + 1 \in 1 .. Len(t) /\ j + 1 < i /\ j # Len(t) /\ j # Len(s)
        BY <1>0, <2>3
      <3>3. After(t, j) = s[j + 1] /\ After(s, j) = s[j + 1]
        BY <1>1, <3>2 DEF After
      <3> QED
        BY <1>2, <3>1, <3>3 DEF Linked
    <2>4. CASE j > i
      <3>1. t[j] = s[j - 1] /\ j - 1 \in 1 .. Len(s) /\ s[j - 1] # Left(s, i)
        BY <1>1, <1>2, <2>4 DEF Left
      <3>2. After(t, j) = After(s, j - 1)
        <4>1. CASE j = Len(t)
          BY <1>1, <1>2, <2>4, <4>1 DEF After
        <4>2. CASE j # Len(t)
          <5>1. After(t, j) = s[j] /\ j - 1 + 1 = j /\ j - 1 # Len(s)
            BY <1>1, <1>2, <2>4, <4>2 DEF After
          <5> QED
            BY <5>1 DEF After
        <4> QED
          BY <4>1, <4>2
      <3> QED
        BY <1>2, <3>1, <3>2 DEF Linked
    <2> QED
      BY <1>1, <1>2, <2>1, <2>2, <2>3, <2>4
  <1>4. Front(t) = IF Left(s, i) = LI!NULL THEN n ELSE Front(s)
    BY <1>1, <1>2 DEF Front, Left
  <1> QED
    BY <1>3, <1>4 DEF Linked

LEMMA LIPutPrev ==
  ASSUME NEW s \in Seq(LI!Nodes), Once(s), NEW n \in LI!Nodes, ~In(n, s), NEW i \in 1 .. Len(s) + 1,
         NEW was, NEW new, LinkedBack(was, s),
         new[n] = Left(s, i), Right(s, i) # LI!NULL => new[Right(s, i)] = n,
         \A x \in LI!Nodes : x # n /\ x # Right(s, i) => new[x] = was[x],
         NEW t, t = LI!S!Inserted(s, i, n)
  PROVE  LinkedBack(new, t) /\ End(t) = IF Right(s, i) = LI!NULL THEN n ELSE End(s)
  <1>1. /\ t \in Seq(LI!Nodes) /\ Len(t) = Len(s) + 1
        /\ \A j \in 1 .. Len(t) : t[j] = IF j < i THEN s[j] ELSE IF j = i THEN n ELSE s[j - 1]
    BY LIInserted
  <1>2. /\ Len(s) \in Nat
        /\ \A j \in 1 .. Len(s) : s[j] \in LI!Nodes /\ s[j] # n /\ s[j] # LI!NULL
        /\ \A j, k \in 1 .. Len(s) : s[j] = s[k] => j = k
    BY LINodes DEF In, Once
  <1>0. Len(s) \in Nat /\ Len(t) = Len(s) + 1 /\ i \in Nat /\ i <= Len(s) + 1
    BY <1>1
  <1>3. ASSUME NEW j \in 1 .. Len(t) PROVE new[t[j]] = Before(t, j)
    <2>1. CASE j = i
      BY <1>1, <1>2, <2>1 DEF Left, Before
    <2>2. CASE j = i + 1
      <3>1. t[j] = s[i] /\ Right(s, i) = s[i] /\ Right(s, i) # LI!NULL
        BY <1>1, <1>2, <2>2 DEF Right
      <3>2. Before(t, j) = n
        BY <1>1, <1>2, <2>2 DEF Before
      <3> QED
        BY <3>1, <3>2
    <2>3. CASE j < i
      <3>1. t[j] = s[j] /\ j \in 1 .. Len(s) /\ s[j] # Right(s, i)
        BY <1>1, <1>2, <2>3 DEF Right
      <3>2. j # 1 => j - 1 \in 1 .. Len(t) /\ j - 1 < i
        BY <1>0, <2>3
      <3>3. Before(t, j) = Before(s, j)
        BY <1>1, <3>2 DEF Before
      <3> QED
        BY <1>2, <3>1, <3>3 DEF LinkedBack
    <2>4. CASE j > i + 1
      <3>1. t[j] = s[j - 1] /\ j - 1 \in 1 .. Len(s) /\ s[j - 1] # Right(s, i) /\ j - 1 # 1
        BY <1>1, <1>2, <2>4 DEF Right
      <3>2. PICK b : b = j - 1
        OBVIOUS
      <3>3. j # 1 /\ b \in 1 .. Len(t) /\ i < b
        BY <1>0, <2>4, <3>2
      <3>4. t[b] = s[b - 1]
        BY <1>1, <3>3
      <3>5. Before(t, j) = s[b - 1] /\ Before(s, b) = s[b - 1]
        BY <3>1, <3>2, <3>3, <3>4 DEF Before
      <3> QED
        BY <1>2, <3>1, <3>2, <3>5 DEF LinkedBack
    <2> QED
      BY <1>1, <1>2, <2>1, <2>2, <2>3, <2>4
  <1>4. End(t) = IF Right(s, i) = LI!NULL THEN n ELSE End(s)
    BY <1>1, <1>2 DEF End, Right
  <1> QED
    BY <1>3, <1>4 DEF LinkedBack

LEMMA LIOutNext ==
  ASSUME NEW s \in Seq(LI!Nodes), Once(s), NEW i \in 1 .. Len(s),
         NEW was, NEW new, Linked(was, s),
         Before(s, i) # LI!NULL => new[Before(s, i)] = After(s, i),
         \A x \in LI!Nodes : x # s[i] /\ x # Before(s, i) => new[x] = was[x],
         NEW t, t = LI!S!Without(s, i)
  PROVE  Linked(new, t)
         /\ Front(t) = IF Before(s, i) = LI!NULL THEN After(s, i) ELSE Front(s)
  <1>1. /\ t \in Seq(LI!Nodes) /\ Len(t) = Len(s) - 1
        /\ \A j \in 1 .. Len(t) : t[j] = IF j < i THEN s[j] ELSE s[j + 1]
    BY LIWithout
  <1>2. /\ Len(s) \in Nat /\ \A j \in 1 .. Len(s) : s[j] \in LI!Nodes /\ s[j] # LI!NULL
        /\ \A j, k \in 1 .. Len(s) : s[j] = s[k] => j = k
    BY LINodes DEF Once
  <1>3. ASSUME NEW j \in 1 .. Len(t) PROVE new[t[j]] = After(t, j)
    <2>1. CASE j = i - 1
      <3>1. t[j] = s[i - 1] /\ Before(s, i) = s[i - 1] /\ Before(s, i) # LI!NULL
        BY <1>1, <1>2, <2>1 DEF Before
      <3>2. Len(s) \in Nat /\ Len(t) = Len(s) - 1
        BY <1>1
      <3>3. j # Len(t) => j + 1 \in 1 .. Len(t) /\ j + 1 = i
        BY <2>1, <3>2
      <3>4. j = Len(t) <=> i = Len(s)
        BY <2>1, <3>2
      <3>5. j # Len(t) => t[j + 1] = s[i + 1]
        BY <1>1, <3>3
      <3>6. After(t, j) = After(s, i)
        BY <3>4, <3>5 DEF After
      <3> QED
        BY <3>1, <3>6
    <2>2. CASE j < i - 1
      <3>1. t[j] = s[j] /\ j \in 1 .. Len(s) /\ s[j] # Before(s, i) /\ s[j] # s[i]
        BY <1>1, <1>2, <2>2 DEF Before
      <3>2. After(t, j) = s[j + 1] /\ After(s, j) = s[j + 1]
        BY <1>1, <1>2, <2>2 DEF After
      <3> QED
        BY <1>2, <3>1, <3>2 DEF Linked
    <2>3. CASE j >= i
      <3>1. t[j] = s[j + 1] /\ j + 1 \in 1 .. Len(s) /\ s[j + 1] # Before(s, i)
            /\ s[j + 1] # s[i]
        BY <1>1, <1>2, <2>3 DEF Before
      <3>2. After(t, j) = After(s, j + 1)
        BY <1>1, <1>2, <2>3 DEF After
      <3> QED
        BY <1>2, <3>1, <3>2 DEF Linked
    <2> QED
      BY <1>1, <1>2, <2>1, <2>2, <2>3
  <1>4. Front(t) = IF Before(s, i) = LI!NULL THEN After(s, i) ELSE Front(s)
    BY <1>1, <1>2 DEF Front, Before, After
  <1> QED
    BY <1>3, <1>4 DEF Linked

LEMMA LIOutPrev ==
  ASSUME NEW s \in Seq(LI!Nodes), Once(s), NEW i \in 1 .. Len(s),
         NEW was, NEW new, LinkedBack(was, s),
         After(s, i) # LI!NULL => new[After(s, i)] = Before(s, i),
         \A x \in LI!Nodes : x # s[i] /\ x # After(s, i) => new[x] = was[x],
         NEW t, t = LI!S!Without(s, i)
  PROVE  LinkedBack(new, t)
         /\ End(t) = IF After(s, i) = LI!NULL THEN Before(s, i) ELSE End(s)
  <1>1. /\ t \in Seq(LI!Nodes) /\ Len(t) = Len(s) - 1
        /\ \A j \in 1 .. Len(t) : t[j] = IF j < i THEN s[j] ELSE s[j + 1]
    BY LIWithout
  <1>2. /\ Len(s) \in Nat /\ \A j \in 1 .. Len(s) : s[j] \in LI!Nodes /\ s[j] # LI!NULL
        /\ \A j, k \in 1 .. Len(s) : s[j] = s[k] => j = k
    BY LINodes DEF Once
  <1>3. ASSUME NEW j \in 1 .. Len(t) PROVE new[t[j]] = Before(t, j)
    <2>1. CASE j = i
      <3>1. t[j] = s[i + 1] /\ After(s, i) = s[i + 1] /\ After(s, i) # LI!NULL
        BY <1>1, <1>2, <2>1 DEF After
      <3>2. Before(t, j) = Before(s, i)
        BY <1>1, <1>2, <2>1 DEF Before
      <3> QED
        BY <3>1, <3>2
    <2>2. CASE j < i
      <3>0. t[j] = s[j] /\ j \in 1 .. Len(s) /\ s[j] # s[i]
        BY <1>1, <1>2, <2>2
      <3>1. t[j] = s[j] /\ j \in 1 .. Len(s) /\ s[j] # After(s, i) /\ s[j] # s[i]
        <4>1. CASE i = Len(s)
          BY <1>2, <3>0, <4>1 DEF After
        <4>2. CASE i # Len(s)
          <5>1. i + 1 \in 1 .. Len(s) /\ i + 1 # j
            BY <1>2, <2>2, <4>2
          <5> QED
            BY <1>2, <3>0, <4>2, <5>1 DEF After
        <4> QED
          BY <4>1, <4>2
      <3>2. Before(t, j) = Before(s, j)
        BY <1>1, <1>2, <2>2 DEF Before
      <3> QED
        BY <1>2, <3>1, <3>2 DEF LinkedBack
    <2>3. CASE j > i
      <3>1. t[j] = s[j + 1] /\ j + 1 \in 1 .. Len(s) /\ s[j + 1] # After(s, i)
            /\ s[j + 1] # s[i]
        <4>1. t[j] = s[j + 1] /\ j + 1 \in 1 .. Len(s) /\ i + 1 \in 1 .. Len(s)
              /\ j + 1 # i /\ j + 1 # i + 1
          BY <1>1, <1>2, <2>3
        <4>2. After(s, i) = s[i + 1]
          BY <1>2, <4>1 DEF After
        <4> QED
          BY <1>2, <4>1, <4>2
      <3>2. Before(t, j) = s[j] /\ Before(s, j + 1) = s[j]
        BY <1>1, <1>2, <2>3 DEF Before
      <3> QED
        BY <1>2, <3>1, <3>2 DEF LinkedBack
    <2> QED
      BY <1>1, <1>2, <2>1, <2>2, <2>3
  <1>4. End(t) = IF After(s, i) = LI!NULL THEN Before(s, i) ELSE End(s)
    BY <1>1, <1>2 DEF End, Before, After
  <1> QED
    BY <1>3, <1>4 DEF LinkedBack

(***************************************************************************)
(* A heap, the chains of its lists F and of its caches C, and for each     *)
(* node where it is, O.                                                    *)
(***************************************************************************)
LIHeap ==
  [next: [LI!Nodes -> Ends], prev: [LI!Nodes -> Ends], data: [LI!Nodes -> li_Objects \cup {LI!None}],
   live: SUBSET LI!Nodes, first: [li_Lists -> Ends], last: [li_Lists -> Ends], count: [li_Lists -> Int],
   head: [li_Lists -> Ends], used: [li_Lists -> Int]]

OnList(l) == <<"list", l>>
InCache(l) == <<"cache", l>>
Held == <<"held", LI!None>>
Free == <<"free", LI!None>>

LISpots == {OnList(l) : l \in li_Lists} \cup {InCache(l) : l \in li_Lists} \cup {Held, Free}

LIKnown(O) == DOMAIN O = LI!Nodes /\ \A x \in LI!Nodes : O[x] \in LISpots

LEMMA LIPlacesOf ==
  Held \in LISpots /\ Free \in LISpots
  /\ \A l \in li_Lists : OnList(l) \in LISpots /\ InCache(l) \in LISpots
  BY DEF LISpots

LEMMA LIApart ==
  /\ \A l, m : OnList(l) # InCache(m) /\ OnList(l) # Held /\ OnList(l) # Free
               /\ InCache(l) # Held /\ InCache(l) # Free /\ Held # Free
  /\ \A l, m : (OnList(l) = OnList(m) => l = m) /\ (InCache(l) = InCache(m) => l = m)
  BY DEF OnList, InCache, Held, Free

GoodList(g, l, s) ==
  /\ Once(s) /\ Linked(g.next, s) /\ LinkedBack(g.prev, s)
  /\ g.first[l] = Front(s) /\ g.last[l] = End(s) /\ g.count[l] = Len(s)

GoodCache(g, l, s) ==
  /\ Once(s) /\ Linked(g.next, s)
  /\ g.head[l] = Front(s) /\ g.used[l] = Len(s) /\ Len(s) <= li_CacheSize

Placed(g, F, C, O) ==
  /\ \A l \in li_Lists : /\ GoodList(g, l, F[l])
                         /\ GoodCache(g, l, C[l])
                         /\ \A x \in LI!Nodes : /\ In(x, F[l]) <=> O[x] = OnList(l)
                                                /\ In(x, C[l]) <=> O[x] = InCache(l)
  /\ \A x \in LI!Nodes : x \in g.live <=> O[x] # Free

Chains == [li_Lists -> Seq(LI!Nodes)]

Good(g, F, C, O) ==
  /\ g \in LIHeap /\ F \in Chains /\ C \in Chains /\ LIKnown(O)
  /\ O = [x \in LI!Nodes |-> O[x]]
  /\ Placed(g, F, C, O)

NoneHeld(O) == \A x \in LI!Nodes : O[x] # Held

LIInv == \E F, C, O : Good(li_h, F, C, O) /\ NoneHeld(O)

LEMMA LIHeapTypes ==
  ASSUME NEW g \in LIHeap
  PROVE  /\ g.next \in [LI!Nodes -> Ends] /\ g.prev \in [LI!Nodes -> Ends]
         /\ g.data \in [LI!Nodes -> li_Objects \cup {LI!None}] /\ g.live \subseteq LI!Nodes
         /\ g.first \in [li_Lists -> Ends] /\ g.last \in [li_Lists -> Ends]
         /\ g.count \in [li_Lists -> Int]
         /\ g.head \in [li_Lists -> Ends] /\ g.used \in [li_Lists -> Int]
         /\ g = [next |-> g.next, prev |-> g.prev, data |-> g.data, live |-> g.live,
                 first |-> g.first, last |-> g.last, count |-> g.count,
                 head |-> g.head, used |-> g.used]
  BY DEF LIHeap

(* A heap of these fields.                                                 *)
HeapOf(next, prev, data, live, first, last, count, head, used) ==
  [next |-> next, prev |-> prev, data |-> data, live |-> live,
   first |-> first, last |-> last, count |-> count, head |-> head, used |-> used]

LEMMA LIHeapMade ==
  ASSUME NEW next \in [LI!Nodes -> Ends], NEW prev \in [LI!Nodes -> Ends],
         NEW data \in [LI!Nodes -> li_Objects \cup {LI!None}], NEW live, live \subseteq LI!Nodes,
         NEW first \in [li_Lists -> Ends], NEW last \in [li_Lists -> Ends], NEW count \in [li_Lists -> Int],
         NEW head \in [li_Lists -> Ends], NEW used \in [li_Lists -> Int],
         NEW g, g = HeapOf(next, prev, data, live, first, last, count, head, used)
  PROVE  /\ g \in LIHeap
         /\ g.next = next /\ g.prev = prev /\ g.data = data /\ g.live = live
         /\ g.first = first /\ g.last = last /\ g.count = count
         /\ g.head = head /\ g.used = used
  BY DEF LIHeap, HeapOf

LEMMA LIChain ==
  ASSUME NEW F \in Chains, NEW l \in li_Lists, NEW s, s = F[l]
  PROVE  s \in Seq(LI!Nodes) /\ Len(s) \in Nat /\ \A i \in 1 .. Len(s) : s[i] \in LI!Nodes
  BY DEF Chains

Put(F, l, t) == [F EXCEPT ![l] = t]

LEMMA LIChange ==
  ASSUME NEW F \in Chains, NEW l \in li_Lists, NEW t \in Seq(LI!Nodes), NEW G, G = Put(F, l, t)
  PROVE  G \in Chains /\ G[l] = t /\ \A k \in li_Lists : k # l => G[k] = F[k]
  BY DEF Chains, Put

(* What is not touched stays good.                                         *)
LEMMA LIListFrame ==
  ASSUME NEW g, NEW m, NEW l, NEW s \in Seq(LI!Nodes), GoodList(g, l, s),
         \A i \in 1 .. Len(s) : m.next[s[i]] = g.next[s[i]] /\ m.prev[s[i]] = g.prev[s[i]],
         m.first[l] = g.first[l], m.last[l] = g.last[l], m.count[l] = g.count[l]
  PROVE  GoodList(m, l, s)
  BY DEF GoodList, Linked, LinkedBack

LEMMA LICacheFrame ==
  ASSUME NEW g, NEW m, NEW l, NEW s \in Seq(LI!Nodes), GoodCache(g, l, s),
         \A i \in 1 .. Len(s) : m.next[s[i]] = g.next[s[i]],
         m.head[l] = g.head[l], m.used[l] = g.used[l]
  PROVE  GoodCache(m, l, s)
  BY DEF GoodCache, Linked

LEMMA LIPlace ==
  ASSUME NEW g, NEW F, NEW C, NEW O, Good(g, F, C, O), NEW l \in li_Lists
  PROVE  /\ F[l] \in Seq(LI!Nodes) /\ C[l] \in Seq(LI!Nodes)
         /\ \A i \in 1 .. Len(F[l]) : F[l][i] \in LI!Nodes /\ O[F[l][i]] = OnList(l)
         /\ \A i \in 1 .. Len(C[l]) : C[l][i] \in LI!Nodes /\ O[C[l][i]] = InCache(l)
  <1>1. F[l] \in Seq(LI!Nodes) /\ C[l] \in Seq(LI!Nodes)
    BY DEF Good, Chains
  <1>2. /\ \A i \in 1 .. Len(F[l]) : F[l][i] \in LI!Nodes /\ In(F[l][i], F[l])
        /\ \A i \in 1 .. Len(C[l]) : C[l][i] \in LI!Nodes /\ In(C[l][i], C[l])
    BY <1>1, LISeq DEF In
  <1> QED
    BY <1>1, <1>2 DEF Good, Placed

LEMMA LIPlaces ==
  ASSUME NEW g, NEW F, NEW C, NEW O, Good(g, F, C, O)
  PROVE  /\ \A k \in li_Lists : \A j \in 1 .. Len(F[k]) : F[k][j] \in LI!Nodes /\ O[F[k][j]] = OnList(k)
         /\ \A k \in li_Lists : \A j \in 1 .. Len(C[k]) : C[k][j] \in LI!Nodes /\ O[C[k][j]] = InCache(k)
  BY LIPlace

(* A chain read from its end.                                              *)
LEMMA LIBackwards ==
  ASSUME NEW s \in Seq(LI!Nodes), NEW f, NEW p, Once(s), LinkedBack(p, s),
         NEW t, t = LI!S!Reversed(s)
  PROVE  /\ t \in Seq(LI!Nodes) /\ Len(t) = Len(s) /\ Once(t) /\ Linked(p, t)
         /\ Linked(f, s) => LinkedBack(f, t)
         /\ Front(t) = End(s) /\ End(t) = Front(s)
         /\ \A x : In(x, t) <=> In(x, s)
  <1>1. /\ t \in Seq(LI!Nodes) /\ Len(t) = Len(s) /\ Len(s) \in Nat
        /\ \A j \in 1 .. Len(t) : t[j] = s[Len(s) + 1 - j]
    BY LIReversed
  <1>2. \A j \in 1 .. Len(s) : /\ Len(s) + 1 - j \in 1 .. Len(s)
                               /\ Len(s) + 1 - (Len(s) + 1 - j) = j
    BY <1>1
  <1>3. Once(t)
    <2> SUFFICES ASSUME NEW i \in 1 .. Len(t), NEW j \in 1 .. Len(t), t[i] = t[j] PROVE i = j
      BY DEF Once
    <2>1. PICK a, b : a = Len(s) + 1 - i /\ b = Len(s) + 1 - j
      OBVIOUS
    <2>2. a \in 1 .. Len(s) /\ b \in 1 .. Len(s) /\ s[a] = s[b]
      BY <1>1, <1>2, <2>1
    <2>3. a = b
      BY <2>2 DEF Once
    <2> QED
      BY <1>1, <2>1, <2>3
  <1>4. Front(t) = End(s) /\ End(t) = Front(s)
    <2>1. CASE Len(s) = 0
      BY <1>1, <2>1 DEF Front, End
    <2>2. CASE Len(s) # 0
      <3>1. /\ 1 \in 1 .. Len(t) /\ Len(s) + 1 - 1 = Len(s)
            /\ Len(s) \in 1 .. Len(t) /\ Len(s) + 1 - Len(s) = 1
        BY <1>1, <2>2
      <3>2. t[1] = s[Len(s)] /\ t[Len(s)] = s[1]
        BY <1>1, <3>1
      <3> QED
        BY <1>1, <2>2, <3>2 DEF Front, End
    <2> QED
      BY <2>1, <2>2
  <1>5. ASSUME NEW j \in 1 .. Len(t) PROVE p[t[j]] = After(t, j)
    <2>1. PICK k : k = Len(s) + 1 - j
      OBVIOUS
    <2>2. k \in 1 .. Len(s) /\ t[j] = s[k] /\ (k = 1 <=> j = Len(t))
      BY <1>1, <2>1
    <2>3. p[t[j]] = Before(s, k)
      BY <2>2 DEF LinkedBack
    <2>4. CASE j = Len(t)
      BY <2>2, <2>3, <2>4 DEF Before, After
    <2>5. CASE j # Len(t)
      <3>1. j + 1 \in 1 .. Len(t) /\ Len(s) + 1 - (j + 1) = k - 1
        BY <1>1, <2>1, <2>5
      <3>2. t[j + 1] = s[k - 1]
        BY <1>1, <3>1
      <3> QED
        BY <2>2, <2>3, <2>5, <3>2 DEF Before, After
    <2> QED
      BY <2>4, <2>5
  <1>6. ASSUME Linked(f, s), NEW j \in 1 .. Len(t) PROVE f[t[j]] = Before(t, j)
    <2>1. PICK k : k = Len(s) + 1 - j
      OBVIOUS
    <2>2. k \in 1 .. Len(s) /\ t[j] = s[k] /\ (k = Len(s) <=> j = 1)
      BY <1>1, <2>1
    <2>3. f[t[j]] = After(s, k)
      BY <1>6, <2>2 DEF Linked
    <2>4. CASE j = 1
      BY <2>2, <2>3, <2>4 DEF Before, After
    <2>5. CASE j # 1
      <3>1. j - 1 \in 1 .. Len(t) /\ Len(s) + 1 - (j - 1) = k + 1
        BY <1>1, <2>1, <2>5
      <3>2. t[j - 1] = s[k + 1]
        BY <1>1, <3>1
      <3> QED
        BY <2>2, <2>3, <2>5, <3>2 DEF Before, After
    <2> QED
      BY <2>4, <2>5
  <1>7. \A x : In(x, t) <=> In(x, s)
    <2> TAKE x
    <2>1. ASSUME In(x, t) PROVE In(x, s)
      BY <1>1, <1>2, <2>1 DEF In
    <2>2. ASSUME In(x, s) PROVE In(x, t)
      <3>1. PICK j \in 1 .. Len(s) : s[j] = x
        BY <2>2 DEF In
      <3>2. PICK k : k = Len(s) + 1 - j
        OBVIOUS
      <3>3. k \in 1 .. Len(t) /\ Len(s) + 1 - k = j
        BY <1>1, <3>2
      <3>4. t[k] = x
        BY <1>1, <3>1, <3>3
      <3> QED
        BY <3>3, <3>4 DEF In
    <2> QED
      BY <2>1, <2>2
  <1> QED
    BY <1>1, <1>3, <1>4, <1>5, <1>6, <1>7 DEF Linked, LinkedBack

(* A walk over the heap finds the chains.                                  *)
LEMMA LIWalks ==
  ASSUME NEW g, NEW F, NEW C, NEW O, Good(g, F, C, O), NEW l \in li_Lists
  PROVE  /\ LI!Forward(g, l) = F[l] /\ LI!Cached(g, l) = C[l]
         /\ LI!Backward(g, l) = LI!S!Reversed(F[l])
  <1>1. g.next \in [LI!Nodes -> Ends] /\ g.prev \in [LI!Nodes -> Ends]
    BY LIHeapTypes DEF Good
  <1>2. F[l] \in Seq(LI!Nodes) /\ C[l] \in Seq(LI!Nodes) /\ GoodList(g, l, F[l])
        /\ GoodCache(g, l, C[l])
    BY DEF Good, Placed, Chains
  <1>3. LI!Forward(g, l) = F[l]
    BY <1>1, <1>2, LIWalk DEF LI!Forward, GoodList
  <1>4. LI!Cached(g, l) = C[l]
    BY <1>1, <1>2, LIWalk DEF LI!Cached, GoodCache
  <1> DEFINE s == F[l]
  <1> HIDE DEF s
  <1>s. s \in Seq(LI!Nodes) /\ Once(s) /\ LinkedBack(g.prev, s) /\ g.last[l] = End(s)
    BY <1>2 DEF s, GoodList
  <1>5. PICK t : t = LI!S!Reversed(s)
    OBVIOUS
  <1>6. /\ t \in Seq(LI!Nodes) /\ Len(t) = Len(s) /\ Len(s) \in Nat
        /\ \A j \in 1 .. Len(t) : t[j] = s[Len(s) + 1 - j]
    BY <1>5, <1>s, LIReversed
  <1>7. Once(t) /\ Linked(g.prev, t) /\ Front(t) = End(s)
    <2>1. Linked(g.next, s)
      BY <1>2 DEF s, GoodList
    <2> QED
      BY <1>s, <1>5, <2>1, LIBackwards
  <1>10. LI!Backward(g, l) = t
    BY <1>1, <1>s, <1>6, <1>7, LIWalk DEF LI!Backward
  <1> QED
    BY <1>3, <1>4, <1>5, <1>10 DEF s

(***************************************************************************)
(* What the methods do, each as a relation of two heaps.  A node is taken  *)
(* from the cache or made.                                                 *)
(***************************************************************************)
LISame(g, m) == m.first = g.first /\ m.last = g.last /\ m.count = g.count

Takes(g, m, l, n, o) ==
  /\ m \in LIHeap /\ LISame(g, m) /\ m.next = g.next /\ m.prev = g.prev
  /\ m.data = [g.data EXCEPT ![n] = o]
  /\ IF g.head[l] # LI!NULL
       THEN /\ n = g.head[l] /\ m.live = g.live
            /\ m.head = [g.head EXCEPT ![l] = g.next[n]]
            /\ m.used = [g.used EXCEPT ![l] = @ - 1]
       ELSE /\ n \in LI!Nodes \ g.live /\ m.live = g.live \cup {n}
            /\ m.head = g.head /\ m.used = g.used

LEMMA LILeast ==
  ASSUME NEW A, A \subseteq Nat, A # {}
  PROVE  \E n \in A : \A m \in A : n <= m
  <1>1. SUFFICES ASSUME \A n \in A : \E m \in A : m < n PROVE FALSE
    OBVIOUS
  <1> DEFINE D == {k \in Nat : \A n \in A : k <= n}
  <1>2. 0 \in D
    OBVIOUS
  <1>3. ASSUME NEW k \in Nat, k \in D PROVE k + 1 \in D
    BY <1>1, <1>3
  <1>4. Nat \subseteq D
    <2> HIDE DEF D
    <2> QED
      BY <1>2, <1>3, NatInd
  <1>5. PICK n \in A : TRUE
    OBVIOUS
  <1>6. n + 1 \in D
    BY <1>4, <1>5
  <1> QED
    BY <1>5, <1>6

LEMMA LIMadeTakes ==
  ASSUME NEW g \in LIHeap, NEW l \in li_Lists, NEW o \in li_Objects \cup {LI!None}, LI!CanMake(g, l),
         NEW n, n = LI!NewNode(g, l), NEW m, m = LI!Made(g, l, o)
  PROVE  n \in LI!Nodes /\ Takes(g, m, l, n, o)
  <1>1. /\ g.next \in [LI!Nodes -> Ends] /\ g.prev \in [LI!Nodes -> Ends]
        /\ g.data \in [LI!Nodes -> li_Objects \cup {LI!None}] /\ g.live \subseteq LI!Nodes
        /\ g.first \in [li_Lists -> Ends] /\ g.last \in [li_Lists -> Ends]
        /\ g.count \in [li_Lists -> Int]
        /\ g.head \in [li_Lists -> Ends] /\ g.used \in [li_Lists -> Int]
        /\ g = [next |-> g.next, prev |-> g.prev, data |-> g.data, live |-> g.live,
                first |-> g.first, last |-> g.last, count |-> g.count,
                head |-> g.head, used |-> g.used]
    BY LIHeapTypes
  <1>2. CASE g.head[l] # LI!NULL
    <2>1. n = g.head[l] /\ n \in LI!Nodes
      BY <1>1, <1>2 DEF LI!NewNode, Ends
    <2> DEFINE data == [g.data EXCEPT ![n] = o]
               head == [g.head EXCEPT ![l] = g.next[n]]
               used == [g.used EXCEPT ![l] = @ - 1]
    <2>2. m = [g EXCEPT !.head[l] = g.next[n], !.used[l] = @ - 1, !.data[n] = o]
      BY <1>2, <2>1 DEF LI!Made, LI!NewNode
    <2>3. m = [next |-> g.next, prev |-> g.prev, data |-> data, live |-> g.live,
               first |-> g.first, last |-> g.last, count |-> g.count,
               head |-> head, used |-> used]
      BY <1>1, <2>2
    <2>4. data \in [LI!Nodes -> li_Objects \cup {LI!None}]
      BY <1>1
    <2>5. head \in [li_Lists -> Ends]
      BY <1>1, <2>1
    <2>6. used \in [li_Lists -> Int]
      BY <1>1
    <2> HIDE DEF data, head, used
    <2>7. m \in LIHeap
      BY <1>1, <2>3, <2>4, <2>5, <2>6 DEF LIHeap
    <2>8. /\ m.next = g.next /\ m.prev = g.prev /\ m.data = data /\ m.live = g.live
          /\ m.first = g.first /\ m.last = g.last /\ m.count = g.count
          /\ m.head = head /\ m.used = used
      BY <2>3
    <2> QED
      BY <1>2, <2>1, <2>7, <2>8 DEF Takes, LISame, data, head, used
  <1>3. CASE g.head[l] = LI!NULL
    <2> DEFINE A == LI!Nodes \ g.live
    <2>1. \E k \in A : \A i \in A : k <= i
      <3>1. A # {} /\ A \subseteq Nat
        BY <1>3, LINodes DEF LI!CanMake
      <3> HIDE DEF A
      <3> QED
        BY <3>1, LILeast
    <2>2. n = CHOOSE k \in A : \A i \in A : k <= i
      BY <1>3 DEF LI!NewNode
    <2>3. n \in A
      BY <2>1, <2>2
    <2> DEFINE data == [g.data EXCEPT ![n] = o]
               live == g.live \cup {n}
    <2>4. m = [g EXCEPT !.live = @ \cup {n}, !.data[n] = o]
      BY <1>3 DEF LI!Made
    <2>5. m = [next |-> g.next, prev |-> g.prev, data |-> data, live |-> live,
               first |-> g.first, last |-> g.last, count |-> g.count,
               head |-> g.head, used |-> g.used]
      BY <1>1, <2>4
    <2>6. data \in [LI!Nodes -> li_Objects \cup {LI!None}]
      BY <1>1
    <2>7. live \subseteq LI!Nodes
      BY <1>1, <2>3
    <2> HIDE DEF data, live
    <2>8. m \in LIHeap
      BY <1>1, <2>5, <2>6, <2>7 DEF LIHeap
    <2>9. /\ m.next = g.next /\ m.prev = g.prev /\ m.data = data /\ m.live = live
          /\ m.first = g.first /\ m.last = g.last /\ m.count = g.count
          /\ m.head = g.head /\ m.used = g.used
      BY <2>5
    <2> QED
      BY <1>3, <2>3, <2>8, <2>9 DEF Takes, LISame, data, live
  <1> QED
    BY <1>2, <1>3

(* Node n is in no chain, and only n has moved.                            *)
LIInHand(m, F, O, n) ==
  \E c, w : /\ Good(m, F, c, w) /\ w[n] = Held
            /\ \A x \in LI!Nodes : x # n => w[x] = O[x]

LEMMA LITaken ==
  ASSUME NEW g, NEW F, NEW C, NEW O, Good(g, F, C, O), NEW m, NEW l \in li_Lists, NEW n \in LI!Nodes, NEW o,
         Takes(g, m, l, n, o)
  PROVE  /\ \A k \in li_Lists : O[n] # OnList(k)
         /\ LIInHand(m, F, O, n)
  <1> DEFINE w == [O EXCEPT ![n] = Held]
  <1>0. /\ LIKnown(w) /\ w = [x \in LI!Nodes |-> w[x]] /\ w[n] = Held
        /\ \A x \in LI!Nodes : x # n => w[x] = O[x]
    BY LIPlacesOf DEF Good, LIKnown
  <1> HIDE DEF w
  <1>1. /\ g \in LIHeap /\ F \in Chains /\ C \in Chains /\ Placed(g, F, C, O)
        /\ m \in LIHeap /\ m.next = g.next /\ m.prev = g.prev /\ LISame(g, m)
    BY DEF Good, Takes
  <1>2. \A k \in li_Lists : GoodList(m, k, F[k])
    <2> TAKE k \in li_Lists
    <2>1. F[k] \in Seq(LI!Nodes) /\ GoodList(g, k, F[k])
      BY <1>1, Zenon DEF Chains, Placed
    <2> QED
      BY <1>1, <2>1, LIListFrame DEF LISame
  <1>3. CASE g.head[l] # LI!NULL
    <2> DEFINE s == C[l]
    <2>1. s \in Seq(LI!Nodes) /\ GoodCache(g, l, s)
          /\ \A i \in 1 .. Len(s) : O[s[i]] = InCache(l)
      BY <1>1, LIPlace DEF Chains, Placed
    <2>2. /\ m.head = [g.head EXCEPT ![l] = g.next[n]]
          /\ m.used = [g.used EXCEPT ![l] = @ - 1]
          /\ n = g.head[l] /\ m.live = g.live
      BY <1>3 DEF Takes
    <2> HIDE DEF s
    <2>3. Len(s) \in Nat /\ Len(s) # 0 /\ n = s[1] /\ 1 \in 1 .. Len(s)
      BY <1>3, <2>1, <2>2 DEF GoodCache, Front
    <2>4. O[n] = InCache(l)
      BY <2>1, <2>3
    <2>5. PICK t : t = LI!S!Without(s, 1)
      OBVIOUS
    <2>6. t \in Seq(LI!Nodes) /\ Len(t) = Len(s) - 1 /\ Once(t) /\ \A x : In(x, t) <=> x # n /\ In(x, s)
      BY <2>1, <2>3, <2>5, LIWithout, LIWithoutHas DEF GoodCache
    <2>7. Before(s, 1) = LI!NULL
      BY DEF Before
    <2>8. Linked(g.next, t) /\ Front(t) = After(s, 1)
      BY <2>1, <2>3, <2>5, <2>7, LIOutNext DEF GoodCache
    <2>9. g.next[n] = After(s, 1)
      BY <2>1, <2>3 DEF GoodCache, Linked
    <2>10. m.head[l] = Front(t) /\ m.used[l] = Len(t) /\ Len(t) <= li_CacheSize
      <3>1. g.head \in [li_Lists -> Ends] /\ g.used \in [li_Lists -> Int]
        BY <1>1, LIHeapTypes
      <3>2. m.head[l] = Front(t)
        BY <2>2, <2>8, <2>9, <3>1
      <3>3. m.used[l] = Len(t) /\ Len(t) <= li_CacheSize
        BY <2>1, <2>2, <2>3, <2>6, <3>1, ListAssumption DEF GoodCache
      <3> QED
        BY <3>2, <3>3
    <2>11. \A k \in li_Lists : k # l => m.head[k] = g.head[k] /\ m.used[k] = g.used[k]
      <3>1. g.head \in [li_Lists -> Ends] /\ g.used \in [li_Lists -> Int]
        BY <1>1, LIHeapTypes
      <3> QED
        BY <2>2, <3>1
    <2>12. GoodCache(m, l, t)
      BY <1>1, <2>6, <2>8, <2>10 DEF GoodCache
    <2>13. PICK c : c = Put(C, l, t)
      OBVIOUS
    <2>14. c \in Chains /\ c[l] = t /\ \A k \in li_Lists : k # l => c[k] = C[k]
      <3>1. t \in Seq(LI!Nodes)
        BY <2>6
      <3> QED
        BY <1>1, <2>13, <3>1, LIChange
    <2>15. \A k \in li_Lists : GoodCache(m, k, c[k])
      <3> SUFFICES ASSUME NEW k \in li_Lists, k # l PROVE GoodCache(m, k, c[k])
        BY <2>12, <2>14, Zenon
      <3>1. C[k] \in Seq(LI!Nodes) /\ GoodCache(g, k, C[k])
        BY <1>1 DEF Chains, Placed
      <3>2. GoodCache(m, k, C[k])
        BY <1>1, <2>11, <3>1, LICacheFrame
      <3> QED
        BY <2>14, <3>2
    <2>16. \A k \in li_Lists, x \in LI!Nodes : (In(x, F[k]) <=> w[x] = OnList(k)) /\ (In(x, c[k]) <=> w[x] = InCache(k))
      <3> SUFFICES ASSUME NEW k \in li_Lists, NEW x \in LI!Nodes
                   PROVE  (In(x, F[k]) <=> w[x] = OnList(k)) /\ (In(x, c[k]) <=> w[x] = InCache(k))
        OBVIOUS
      <3>1. (In(x, F[k]) <=> O[x] = OnList(k)) /\ (In(x, C[k]) <=> O[x] = InCache(k))
        BY <1>1 DEF Placed
      <3>2. In(x, c[k]) <=> x # n /\ In(x, C[k])
        <4>1. CASE k = l
          BY <2>6, <2>14, <4>1 DEF s
        <4>2. CASE k # l
          BY <2>4, <2>14, <3>1, <4>2, LIApart
        <4> QED
          BY <4>1, <4>2
      <3>3. CASE x = n
        BY <1>0, <2>4, <3>1, <3>2, <3>3, LIApart
      <3>4. CASE x # n
        BY <1>0, <3>1, <3>2, <3>4
      <3> QED
        BY <3>3, <3>4
    <2>17. \A x \in LI!Nodes : x \in m.live <=> w[x] # Free
      <3>1. \A x \in LI!Nodes : x \in g.live <=> O[x] # Free
        BY <1>1 DEF Placed
      <3> QED
        BY <1>0, <2>2, <2>4, <3>1, LIApart
    <2>18. Good(m, F, c, w)
      BY <1>0, <1>1, <1>2, <2>14, <2>15, <2>16, <2>17 DEF Good, Placed
    <2> QED
      BY <1>0, <2>4, <2>18, LIApart DEF LIInHand
  <1>4. CASE g.head[l] = LI!NULL
    <2>1. n \notin g.live /\ m.live = g.live \cup {n} /\ m.head = g.head /\ m.used = g.used
      BY <1>4 DEF Takes
    <2>2. O[n] = Free
      BY <1>1, <2>1 DEF Placed
    <2>3. \A k \in li_Lists : GoodCache(m, k, C[k])
      <3> TAKE k \in li_Lists
      <3>1. C[k] \in Seq(LI!Nodes) /\ GoodCache(g, k, C[k])
        BY <1>1, Zenon DEF Chains, Placed
      <3> QED
        BY <1>1, <2>1, <3>1, LICacheFrame
    <2>4. \A k \in li_Lists, x \in LI!Nodes : (In(x, F[k]) <=> w[x] = OnList(k)) /\ (In(x, C[k]) <=> w[x] = InCache(k))
      <3> SUFFICES ASSUME NEW k \in li_Lists, NEW x \in LI!Nodes
                   PROVE  (In(x, F[k]) <=> w[x] = OnList(k)) /\ (In(x, C[k]) <=> w[x] = InCache(k))
        OBVIOUS
      <3>1. (In(x, F[k]) <=> O[x] = OnList(k)) /\ (In(x, C[k]) <=> O[x] = InCache(k))
        BY <1>1 DEF Placed
      <3> QED
        BY <1>0, <2>2, <3>1, LIApart
    <2>5. \A x \in LI!Nodes : x \in m.live <=> w[x] # Free
      <3>1. \A x \in LI!Nodes : x \in g.live <=> O[x] # Free
        BY <1>1 DEF Placed
      <3> QED
        BY <1>0, <2>1, <3>1, LIApart
    <2>6. Good(m, F, C, w)
      BY <1>0, <1>1, <1>2, <2>3, <2>4, <2>5 DEF Good, Placed
    <2> QED
      BY <1>0, <2>2, <2>6, LIApart DEF LIInHand
  <1> QED
    BY <1>3, <1>4

(* A node is linked between p and q, either of them NULL at an end.        *)
PutIn(g, m, l, n, p, q) ==
  /\ m \in LIHeap /\ m.data = g.data /\ m.live = g.live /\ m.head = g.head
  /\ m.used = g.used
  /\ m.next[n] = q /\ (p # LI!NULL => m.next[p] = n)
  /\ m.prev[n] = p /\ (q # LI!NULL => m.prev[q] = n)
  /\ \A x \in LI!Nodes : /\ x # n /\ x # p => m.next[x] = g.next[x]
                         /\ x # n /\ x # q => m.prev[x] = g.prev[x]
  /\ m.first[l] = (IF p = LI!NULL THEN n ELSE g.first[l])
  /\ m.last[l] = (IF q = LI!NULL THEN n ELSE g.last[l])
  /\ m.count[l] = g.count[l] + 1
  /\ \A k \in li_Lists : k # l => /\ m.first[k] = g.first[k] /\ m.last[k] = g.last[k]
                                  /\ m.count[k] = g.count[k]

LEMMA LIPutOwner ==
  ASSUME NEW O, LIKnown(O), O = [x \in LI!Nodes |-> O[x]], NEW n \in LI!Nodes, NEW a \in LISpots,
         NEW w, w = Put(O, n, a)
  PROVE  /\ LIKnown(w) /\ w = [x \in LI!Nodes |-> w[x]] /\ w[n] = a
         /\ \A x \in LI!Nodes : x # n => w[x] = O[x]
  BY DEF Put, LIKnown

LEMMA LIPutList ==
  ASSUME NEW g, NEW m, NEW l \in li_Lists, NEW s \in Seq(LI!Nodes), GoodList(g, l, s),
         NEW n \in LI!Nodes, ~In(n, s), NEW i \in 1 .. Len(s) + 1,
         PutIn(g, m, l, n, Left(s, i), Right(s, i)), NEW t, t = LI!S!Inserted(s, i, n)
  PROVE  GoodList(m, l, t)
  <1>1. Once(s) /\ Linked(g.next, s) /\ LinkedBack(g.prev, s)
    BY DEF GoodList
  <1>2. Once(t) /\ Len(t) = Len(s) + 1
    BY <1>1, LIInserted, LIInsertedHas
  <1> DEFINE p == Left(s, i)
             q == Right(s, i)
             next == m.next
             prev == m.prev
  <1>3. /\ next[n] = q /\ (p # LI!NULL => next[p] = n)
        /\ prev[n] = p /\ (q # LI!NULL => prev[q] = n)
        /\ \A x \in LI!Nodes : x # n /\ x # p => next[x] = g.next[x]
        /\ \A x \in LI!Nodes : x # n /\ x # q => prev[x] = g.prev[x]
        /\ m.first[l] = (IF p = LI!NULL THEN n ELSE g.first[l])
        /\ m.last[l] = (IF q = LI!NULL THEN n ELSE g.last[l])
        /\ m.count[l] = g.count[l] + 1
    BY DEF PutIn
  <1> HIDE DEF next, prev
  <1>4. Linked(next, t) /\ Front(t) = IF p = LI!NULL THEN n ELSE Front(s)
    BY <1>1, <1>3, LIPutNext
  <1>5. LinkedBack(prev, t) /\ End(t) = IF q = LI!NULL THEN n ELSE End(s)
    BY <1>1, <1>3, LIPutPrev, SMTT(40)
  <1> HIDE DEF p, q
  <1> QED
    BY <1>2, <1>3, <1>4, <1>5 DEF GoodList, next, prev

LEMMA LIPut ==
  ASSUME NEW g, NEW F, NEW C, NEW O, Good(g, F, C, O), NEW m, NEW l \in li_Lists,
         NEW n \in LI!Nodes, O[n] = Held, NEW s, s = F[l], NEW i \in 1 .. Len(s) + 1,
         PutIn(g, m, l, n, Left(s, i), Right(s, i)),
         NEW t, t = LI!S!Inserted(s, i, n), NEW G, G = Put(F, l, t),
         NEW w, w = Put(O, n, OnList(l))
  PROVE  Good(m, G, C, w)
  <1>0. \A k \in li_Lists : \A j \in 1 .. Len(F[k]) : F[k][j] \in LI!Nodes /\ O[F[k][j]] = OnList(k)
    BY LIPlaces
  <1>1. /\ g \in LIHeap /\ F \in Chains /\ C \in Chains /\ Placed(g, F, C, O)
        /\ m \in LIHeap /\ m.live = g.live /\ m.head = g.head /\ m.used = g.used
        /\ LIKnown(O) /\ O = [x \in LI!Nodes |-> O[x]]
    BY DEF Good, PutIn
  <1>2. /\ LIKnown(w) /\ w = [x \in LI!Nodes |-> w[x]] /\ w[n] = OnList(l)
        /\ \A x \in LI!Nodes : x # n => w[x] = O[x]
    BY <1>1, LIPutOwner, LIPlacesOf
  <1>3. s \in Seq(LI!Nodes) /\ GoodList(g, l, s)
        /\ \A j \in 1 .. Len(s) : O[s[j]] = OnList(l)
    BY <1>1, LIPlace DEF Chains, Placed
  <1>4. ~In(n, s)
    BY <1>3, LIApart DEF In
  <1>5. /\ t \in Seq(LI!Nodes) /\ Len(t) = Len(s) + 1 /\ Len(s) \in Nat
        /\ Once(t) /\ \A x : In(x, t) <=> x = n \/ In(x, s)
    BY <1>3, <1>4, LIInserted, LIInsertedHas DEF GoodList
  <1>6. G \in Chains /\ G[l] = t /\ \A k \in li_Lists : k # l => G[k] = F[k]
    <2>1. t \in Seq(LI!Nodes)
      BY <1>5
    <2> QED
      BY <1>1, <2>1, LIChange
  <1> DEFINE p == Left(s, i)
             q == Right(s, i)
  <1>7. (p # LI!NULL => p \in LI!Nodes /\ O[p] = OnList(l)) /\ (q # LI!NULL => q \in LI!Nodes /\ O[q] = OnList(l))
    <2>1. CASE i = 1
      BY <1>3, <1>5, <2>1 DEF Left, Right
    <2>2. CASE i = Len(s) + 1
      BY <1>3, <1>5, <2>2 DEF Left, Right
    <2>3. CASE i # 1 /\ i # Len(s) + 1
      <3>1. i - 1 \in 1 .. Len(s) /\ i \in 1 .. Len(s)
        BY <1>5, <2>3
      <3> QED
        BY <1>3, <3>1 DEF Left, Right
    <2> QED
      BY <2>1, <2>2, <2>3
  <1> HIDE DEF p, q
  <1>8. PutIn(g, m, l, n, p, q)
    BY DEF p, q
  <1>9. GoodList(m, l, t)
    BY <1>3, <1>4, LIPutList
  <1>10. ASSUME NEW x \in LI!Nodes, O[x] # OnList(l), O[x] # Held
         PROVE  m.next[x] = g.next[x] /\ m.prev[x] = g.prev[x]
    BY <1>7, <1>8, <1>10, LINodes DEF PutIn
  <1>11. \A k \in li_Lists : GoodList(m, k, G[k])
    <2> SUFFICES ASSUME NEW k \in li_Lists, k # l PROVE GoodList(m, k, F[k])
      BY <1>6, <1>9, Zenon
    <2>1. F[k] \in Seq(LI!Nodes) /\ GoodList(g, k, F[k])
      BY <1>1 DEF Chains, Placed
    <2>2. \A j \in 1 .. Len(F[k]) : F[k][j] \in LI!Nodes /\ O[F[k][j]] = OnList(k)
      BY <1>0
    <2>3. OnList(k) # OnList(l) /\ OnList(k) # Held
      BY LIApart
    <2>4. m.first[k] = g.first[k] /\ m.last[k] = g.last[k] /\ m.count[k] = g.count[k]
      BY <1>8 DEF PutIn
    <2> QED
      BY <1>10, <2>1, <2>2, <2>3, <2>4, LIListFrame
  <1>12. \A k \in li_Lists : GoodCache(m, k, C[k])
    <2> TAKE k \in li_Lists
    <2>1. C[k] \in Seq(LI!Nodes) /\ GoodCache(g, k, C[k])
      BY <1>1, Zenon DEF Chains, Placed
    <2>2. \A j \in 1 .. Len(C[k]) : C[k][j] \in LI!Nodes /\ O[C[k][j]] = InCache(k)
      BY LIPlace
    <2>3. InCache(k) # OnList(l) /\ InCache(k) # Held
      BY LIApart
    <2> QED
      BY <1>1, <1>10, <2>1, <2>2, <2>3, LICacheFrame
  <1>13. \A k \in li_Lists, x \in LI!Nodes : (In(x, G[k]) <=> w[x] = OnList(k)) /\ (In(x, C[k]) <=> w[x] = InCache(k))
    <2> SUFFICES ASSUME NEW k \in li_Lists, NEW x \in LI!Nodes
                 PROVE  (In(x, G[k]) <=> w[x] = OnList(k)) /\ (In(x, C[k]) <=> w[x] = InCache(k))
      OBVIOUS
    <2>1. (In(x, F[k]) <=> O[x] = OnList(k)) /\ (In(x, C[k]) <=> O[x] = InCache(k))
      BY <1>1 DEF Placed
    <2>2. In(x, G[k]) <=> In(x, F[k]) \/ (x = n /\ k = l)
      BY <1>5, <1>6
    <2>3. CASE x = n
      BY <1>2, <2>1, <2>2, <2>3, LIApart
    <2>4. CASE x # n
      BY <1>2, <2>1, <2>2, <2>4
    <2> QED
      BY <2>3, <2>4
  <1>14. \A x \in LI!Nodes : x \in m.live <=> w[x] # Free
    <2>1. \A x \in LI!Nodes : x \in g.live <=> O[x] # Free
      BY <1>1 DEF Placed
    <2> QED
      BY <1>1, <1>2, <2>1, LIApart
  <1> QED
    BY <1>1, <1>2, <1>6, <1>11, <1>12, <1>13, <1>14 DEF Good, Placed

(* A node is taken out from between p and q.                               *)
PutOut(g, m, l, n, p, q) ==
  /\ m \in LIHeap /\ m.data = g.data /\ m.live = g.live /\ m.head = g.head
  /\ m.used = g.used
  /\ (p # LI!NULL => m.next[p] = q) /\ (q # LI!NULL => m.prev[q] = p)
  /\ \A x \in LI!Nodes : /\ x # n /\ x # p => m.next[x] = g.next[x]
                         /\ x # n /\ x # q => m.prev[x] = g.prev[x]
  /\ m.first[l] = (IF p = LI!NULL THEN q ELSE g.first[l])
  /\ m.last[l] = (IF q = LI!NULL THEN p ELSE g.last[l])
  /\ m.count[l] = g.count[l] - 1
  /\ \A k \in li_Lists : k # l => /\ m.first[k] = g.first[k] /\ m.last[k] = g.last[k]
                                  /\ m.count[k] = g.count[k]

LEMMA LIOutList ==
  ASSUME NEW g, NEW m, NEW l \in li_Lists, NEW s \in Seq(LI!Nodes), GoodList(g, l, s),
         NEW i \in 1 .. Len(s), PutOut(g, m, l, s[i], Before(s, i), After(s, i)),
         NEW t, t = LI!S!Without(s, i)
  PROVE  GoodList(m, l, t)
  <1>1. Once(s) /\ Linked(g.next, s) /\ LinkedBack(g.prev, s)
    BY DEF GoodList
  <1>2. Once(t) /\ Len(t) = Len(s) - 1
    BY <1>1, LIWithout, LIWithoutHas
  <1> DEFINE p == Before(s, i)
             q == After(s, i)
             next == m.next
             prev == m.prev
  <1>3. /\ (p # LI!NULL => next[p] = q) /\ (q # LI!NULL => prev[q] = p)
        /\ \A x \in LI!Nodes : x # s[i] /\ x # p => next[x] = g.next[x]
        /\ \A x \in LI!Nodes : x # s[i] /\ x # q => prev[x] = g.prev[x]
        /\ m.first[l] = (IF p = LI!NULL THEN q ELSE g.first[l])
        /\ m.last[l] = (IF q = LI!NULL THEN p ELSE g.last[l])
        /\ m.count[l] = g.count[l] - 1
    BY DEF PutOut
  <1> HIDE DEF next, prev
  <1>4. Linked(next, t) /\ Front(t) = IF p = LI!NULL THEN q ELSE Front(s)
    BY <1>1, <1>3, LIOutNext
  <1>5. LinkedBack(prev, t) /\ End(t) = IF q = LI!NULL THEN p ELSE End(s)
    BY <1>1, <1>3, LIOutPrev
  <1> HIDE DEF p, q
  <1> QED
    BY <1>2, <1>3, <1>4, <1>5 DEF GoodList, next, prev

LEMMA LIOut ==
  ASSUME NEW g, NEW F, NEW C, NEW O, Good(g, F, C, O), NEW m, NEW l \in li_Lists,
         NEW s, s = F[l], NEW i \in 1 .. Len(s), NEW n, n = s[i],
         PutOut(g, m, l, n, Before(s, i), After(s, i)),
         NEW t, t = LI!S!Without(s, i), NEW G, G = Put(F, l, t),
         NEW w, w = Put(O, n, Held)
  PROVE  Good(m, G, C, w)
  <1>0. \A k \in li_Lists : \A j \in 1 .. Len(F[k]) : F[k][j] \in LI!Nodes /\ O[F[k][j]] = OnList(k)
    BY LIPlaces
  <1>1. /\ g \in LIHeap /\ F \in Chains /\ C \in Chains /\ Placed(g, F, C, O)
        /\ m \in LIHeap /\ m.live = g.live /\ m.head = g.head /\ m.used = g.used
        /\ LIKnown(O) /\ O = [x \in LI!Nodes |-> O[x]]
    BY DEF Good, PutOut
  <1>3. s \in Seq(LI!Nodes) /\ GoodList(g, l, s)
        /\ \A j \in 1 .. Len(s) : O[s[j]] = OnList(l)
    BY <1>1, LIPlace DEF Chains, Placed
  <1>n. n \in LI!Nodes /\ O[n] = OnList(l)
    BY <1>3
  <1>2. /\ LIKnown(w) /\ w = [x \in LI!Nodes |-> w[x]] /\ w[n] = Held
        /\ \A x \in LI!Nodes : x # n => w[x] = O[x]
    BY <1>1, <1>n, LIPutOwner, LIPlacesOf
  <1>5. /\ t \in Seq(LI!Nodes) /\ Len(t) = Len(s) - 1 /\ Len(s) \in Nat
        /\ Once(t) /\ \A x : In(x, t) <=> x # n /\ In(x, s)
    <2>1. Once(s)
      BY <1>3 DEF GoodList
    <2> QED
      BY <1>3, <2>1, LIWithout, LIWithoutHas
  <1>6. G \in Chains /\ G[l] = t /\ \A k \in li_Lists : k # l => G[k] = F[k]
    <2>1. t \in Seq(LI!Nodes)
      BY <1>5
    <2> QED
      BY <1>1, <2>1, LIChange
  <1> DEFINE p == Before(s, i)
             q == After(s, i)
  <1>7. (p # LI!NULL => p \in LI!Nodes /\ O[p] = OnList(l)) /\ (q # LI!NULL => q \in LI!Nodes /\ O[q] = OnList(l))
    <2>1. i # 1 => p = s[i - 1] /\ i - 1 \in 1 .. Len(s)
      BY <1>5 DEF Before
    <2>2. i # Len(s) => q = s[i + 1] /\ i + 1 \in 1 .. Len(s)
      BY <1>5 DEF After
    <2>3. (i = 1 => p = LI!NULL) /\ (i = Len(s) => q = LI!NULL)
      BY DEF Before, After
    <2> HIDE DEF p, q
    <2> QED
      BY <1>3, <2>1, <2>2, <2>3
  <1> HIDE DEF p, q
  <1>8. PutOut(g, m, l, n, p, q)
    BY DEF p, q
  <1>9. GoodList(m, l, t)
    BY <1>3, LIOutList
  <1>10. ASSUME NEW x \in LI!Nodes, O[x] # OnList(l)
         PROVE  m.next[x] = g.next[x] /\ m.prev[x] = g.prev[x]
    BY <1>n, <1>7, <1>8, <1>10, LINodes DEF PutOut
  <1>11. \A k \in li_Lists : GoodList(m, k, G[k])
    <2> SUFFICES ASSUME NEW k \in li_Lists, k # l PROVE GoodList(m, k, F[k])
      BY <1>6, <1>9, Zenon
    <2>1. F[k] \in Seq(LI!Nodes) /\ GoodList(g, k, F[k])
      BY <1>1 DEF Chains, Placed
    <2>2. \A j \in 1 .. Len(F[k]) : F[k][j] \in LI!Nodes /\ O[F[k][j]] = OnList(k)
      BY <1>0
    <2>3. OnList(k) # OnList(l)
      BY LIApart
    <2>4. m.first[k] = g.first[k] /\ m.last[k] = g.last[k] /\ m.count[k] = g.count[k]
      BY <1>8 DEF PutOut
    <2> QED
      BY <1>10, <2>1, <2>2, <2>3, <2>4, LIListFrame
  <1>12. \A k \in li_Lists : GoodCache(m, k, C[k])
    <2> TAKE k \in li_Lists
    <2>1. C[k] \in Seq(LI!Nodes) /\ GoodCache(g, k, C[k])
      BY <1>1, Zenon DEF Chains, Placed
    <2>2. \A j \in 1 .. Len(C[k]) : C[k][j] \in LI!Nodes /\ O[C[k][j]] = InCache(k)
      BY LIPlace
    <2>3. InCache(k) # OnList(l)
      BY LIApart
    <2> QED
      BY <1>1, <1>10, <2>1, <2>2, <2>3, LICacheFrame
  <1>13. \A k \in li_Lists, x \in LI!Nodes : (In(x, G[k]) <=> w[x] = OnList(k)) /\ (In(x, C[k]) <=> w[x] = InCache(k))
    <2> SUFFICES ASSUME NEW k \in li_Lists, NEW x \in LI!Nodes
                 PROVE  (In(x, G[k]) <=> w[x] = OnList(k)) /\ (In(x, C[k]) <=> w[x] = InCache(k))
      OBVIOUS
    <2>1. (In(x, F[k]) <=> O[x] = OnList(k)) /\ (In(x, C[k]) <=> O[x] = InCache(k))
      BY <1>1 DEF Placed
    <2>2. In(x, G[k]) <=> In(x, F[k]) /\ ~(x = n /\ k = l)
      BY <1>5, <1>6
    <2>3. CASE x = n
      BY <1>n, <1>2, <2>1, <2>2, <2>3, LIApart
    <2>4. CASE x # n
      BY <1>2, <2>1, <2>2, <2>4
    <2> QED
      BY <2>3, <2>4
  <1>14. \A x \in LI!Nodes : x \in m.live <=> w[x] # Free
    <2>1. \A x \in LI!Nodes : x \in g.live <=> O[x] # Free
      BY <1>1 DEF Placed
    <2> QED
      BY <1>n, <1>1, <1>2, <2>1, LIApart
  <1> QED
    BY <1>1, <1>2, <1>6, <1>11, <1>12, <1>13, <1>14 DEF Good, Placed

(* A node goes to the cache, if there is room, or is deleted.              *)
Casts(g, m, l, n) ==
  /\ m \in LIHeap /\ LISame(g, m)
  /\ \A x \in LI!Nodes : x # n => /\ m.next[x] = g.next[x] /\ m.prev[x] = g.prev[x]
                                  /\ m.data[x] = g.data[x]
  /\ \A k \in li_Lists : k # l => m.head[k] = g.head[k] /\ m.used[k] = g.used[k]
  /\ IF g.used[l] < li_CacheSize
       THEN /\ m.next[n] = g.head[l] /\ m.head[l] = n /\ m.used[l] = g.used[l] + 1
            /\ m.live = g.live
       ELSE m.live = g.live \ {n} /\ m.head[l] = g.head[l] /\ m.used[l] = g.used[l]

(* Node n is where it belongs, and only n has moved.                       *)
Away(m, F, O, n) ==
  \E c, w : /\ Good(m, F, c, w) /\ w[n] # Held
            /\ \A x \in LI!Nodes : x # n => w[x] = O[x]

LEMMA LICast ==
  ASSUME NEW g, NEW F, NEW C, NEW O, Good(g, F, C, O), NEW m, NEW l \in li_Lists,
         NEW n \in LI!Nodes, O[n] = Held, Casts(g, m, l, n)
  PROVE  Away(m, F, O, n)
  <1>1. /\ g \in LIHeap /\ F \in Chains /\ C \in Chains /\ Placed(g, F, C, O)
        /\ m \in LIHeap /\ LISame(g, m) /\ LIKnown(O) /\ O = [x \in LI!Nodes |-> O[x]]
        /\ \A x \in LI!Nodes : x # n => m.next[x] = g.next[x] /\ m.prev[x] = g.prev[x]
        /\ \A k \in li_Lists : k # l => m.head[k] = g.head[k] /\ m.used[k] = g.used[k]
    BY DEF Good, Casts
  <1>2. /\ \A k \in li_Lists : \A j \in 1 .. Len(F[k]) : F[k][j] \in LI!Nodes /\ F[k][j] # n
        /\ \A k \in li_Lists : \A j \in 1 .. Len(C[k]) : C[k][j] \in LI!Nodes /\ C[k][j] # n
    BY LIPlaces, LIApart
  <1>3. \A k \in li_Lists : GoodList(m, k, F[k])
    <2> TAKE k \in li_Lists
    <2>1. F[k] \in Seq(LI!Nodes) /\ GoodList(g, k, F[k])
      BY <1>1, Zenon DEF Chains, Placed
    <2> QED
      BY <1>1, <1>2, <2>1, LIListFrame DEF LISame
  <1>4. ASSUME NEW k \in li_Lists, m.head[k] = g.head[k], m.used[k] = g.used[k]
        PROVE  GoodCache(m, k, C[k])
    <2>1. C[k] \in Seq(LI!Nodes) /\ GoodCache(g, k, C[k])
      BY <1>1 DEF Chains, Placed
    <2> QED
      BY <1>1, <1>2, <1>4, <2>1, LICacheFrame
  <1>5. CASE g.used[l] < li_CacheSize
    <2> DEFINE s == C[l]
    <2>1. s \in Seq(LI!Nodes) /\ GoodCache(g, l, s)
          /\ \A j \in 1 .. Len(s) : s[j] \in LI!Nodes /\ s[j] # n
      BY <1>1, <1>2 DEF Chains, Placed
    <2> HIDE DEF s
    <2>2. Len(s) \in Nat /\ 1 \in 1 .. Len(s) + 1 /\ ~In(n, s)
      BY <2>1 DEF In
    <2>3. PICK t : t = LI!S!Inserted(s, 1, n)
      OBVIOUS
    <2>4. /\ t \in Seq(LI!Nodes) /\ Len(t) = Len(s) + 1
          /\ Once(t) /\ \A x : In(x, t) <=> x = n \/ In(x, s)
      BY <2>1, <2>2, <2>3, LIInserted, LIInsertedHas DEF GoodCache
    <2>5. m.next[n] = g.head[l] /\ m.head[l] = n /\ m.used[l] = g.used[l] + 1
          /\ m.live = g.live
      BY <1>5 DEF Casts
    <2>6. Left(s, 1) = LI!NULL /\ Right(s, 1) = Front(s)
      BY <2>2 DEF Left, Right, Front
    <2>7. Linked(m.next, t) /\ Front(t) = n
      <3> DEFINE next == m.next
      <3>1. /\ next[n] = Right(s, 1) /\ (Left(s, 1) # LI!NULL => next[Left(s, 1)] = n)
            /\ \A x \in LI!Nodes : x # n /\ x # Left(s, 1) => next[x] = g.next[x]
        BY <1>1, <2>1, <2>5, <2>6 DEF GoodCache
      <3>2. Once(s) /\ Linked(g.next, s)
        BY <2>1 DEF GoodCache
      <3> HIDE DEF next
      <3>3. Linked(next, t) /\ Front(t) = IF Left(s, 1) = LI!NULL THEN n ELSE Front(s)
        BY <2>1, <2>2, <2>3, <3>1, <3>2, LIPutNext
      <3> QED
        BY <2>6, <3>3 DEF next
    <2>8. GoodCache(m, l, t)
      BY <1>5, <2>1, <2>2, <2>4, <2>5, <2>7, ListAssumption DEF GoodCache
    <2>9. PICK c : c = Put(C, l, t)
      OBVIOUS
    <2>10. c \in Chains /\ c[l] = t /\ \A k \in li_Lists : k # l => c[k] = C[k]
      <3>1. t \in Seq(LI!Nodes)
        BY <2>4
      <3> QED
        BY <1>1, <2>9, <3>1, LIChange
    <2>11. \A k \in li_Lists : GoodCache(m, k, c[k])
      BY <1>1, <1>4, <2>8, <2>10, Zenon
    <2>12. PICK w : w = Put(O, n, InCache(l))
      OBVIOUS
    <2>13. /\ LIKnown(w) /\ w = [x \in LI!Nodes |-> w[x]] /\ w[n] = InCache(l)
           /\ \A x \in LI!Nodes : x # n => w[x] = O[x]
      BY <1>1, <2>12, LIPutOwner, LIPlacesOf
    <2>14. \A k \in li_Lists, x \in LI!Nodes : (In(x, F[k]) <=> w[x] = OnList(k)) /\ (In(x, c[k]) <=> w[x] = InCache(k))
      <3> SUFFICES ASSUME NEW k \in li_Lists, NEW x \in LI!Nodes
                   PROVE  (In(x, F[k]) <=> w[x] = OnList(k)) /\ (In(x, c[k]) <=> w[x] = InCache(k))
        OBVIOUS
      <3>1. (In(x, F[k]) <=> O[x] = OnList(k)) /\ (In(x, C[k]) <=> O[x] = InCache(k))
        BY <1>1 DEF Placed
      <3>2. In(x, c[k]) <=> In(x, C[k]) \/ (x = n /\ k = l)
        BY <2>4, <2>10 DEF s
      <3>3. CASE x = n
        BY <2>13, <3>1, <3>2, <3>3, LIApart
      <3>4. CASE x # n
        BY <2>13, <3>1, <3>2, <3>4
      <3> QED
        BY <3>3, <3>4
    <2>15. \A x \in LI!Nodes : x \in m.live <=> w[x] # Free
      <3>1. \A x \in LI!Nodes : x \in g.live <=> O[x] # Free
        BY <1>1 DEF Placed
      <3> QED
        BY <2>5, <2>13, <3>1, LIApart
    <2>16. Good(m, F, c, w)
      BY <1>1, <1>3, <2>10, <2>11, <2>13, <2>14, <2>15 DEF Good, Placed
    <2> QED
      BY <2>13, <2>16, LIApart DEF Away
  <1>6. CASE ~(g.used[l] < li_CacheSize)
    <2>1. m.live = g.live \ {n} /\ m.head[l] = g.head[l] /\ m.used[l] = g.used[l]
      BY <1>6 DEF Casts
    <2>2. \A k \in li_Lists : GoodCache(m, k, C[k])
      BY <1>1, <1>4, <2>1, Zenon
    <2>3. PICK w : w = Put(O, n, Free)
      OBVIOUS
    <2>4. /\ LIKnown(w) /\ w = [x \in LI!Nodes |-> w[x]] /\ w[n] = Free
          /\ \A x \in LI!Nodes : x # n => w[x] = O[x]
      BY <1>1, <2>3, LIPutOwner, LIPlacesOf
    <2>5. \A k \in li_Lists, x \in LI!Nodes : (In(x, F[k]) <=> w[x] = OnList(k)) /\ (In(x, C[k]) <=> w[x] = InCache(k))
      <3> SUFFICES ASSUME NEW k \in li_Lists, NEW x \in LI!Nodes
                   PROVE  (In(x, F[k]) <=> w[x] = OnList(k)) /\ (In(x, C[k]) <=> w[x] = InCache(k))
        OBVIOUS
      <3>1. (In(x, F[k]) <=> O[x] = OnList(k)) /\ (In(x, C[k]) <=> O[x] = InCache(k))
        BY <1>1 DEF Placed
      <3>2. CASE x = n
        BY <2>4, <3>1, <3>2, LIApart
      <3>3. CASE x # n
        BY <2>4, <3>1, <3>3
      <3> QED
        BY <3>2, <3>3
    <2>6. \A x \in LI!Nodes : x \in m.live <=> w[x] # Free
      <3>1. \A x \in LI!Nodes : x \in g.live <=> O[x] # Free
        BY <1>1 DEF Placed
      <3> QED
        BY <2>1, <2>4, <3>1
    <2>7. Good(m, F, C, w)
      BY <1>1, <1>3, <2>2, <2>4, <2>5, <2>6 DEF Good, Placed
    <2> QED
      BY <2>4, <2>7, LIApart DEF Away
  <1> QED
    BY <1>5, <1>6

(***************************************************************************)
(* The methods.  Each is one of these relations, or two of them in a row.  *)
(***************************************************************************)
LITailed(c, l, n, p) ==
  LET a == [c EXCEPT !.next[n] = LI!NULL, !.prev[n] = p, !.last[l] = n, !.count[l] = @ + 1]
  IN  IF p = LI!NULL THEN [a EXCEPT !.first[l] = n] ELSE [a EXCEPT !.next[p] = n]

LEMMA LIAddTailPuts ==
  ASSUME NEW c \in LIHeap, NEW l \in li_Lists, NEW n \in LI!Nodes, NEW p \in Ends, p # n,
         NEW m, m = LITailed(c, l, n, p)
  PROVE  PutIn(c, m, l, n, p, LI!NULL)
  <1>1. /\ c.next \in [LI!Nodes -> Ends] /\ c.prev \in [LI!Nodes -> Ends]
        /\ c.data \in [LI!Nodes -> li_Objects \cup {LI!None}] /\ c.live \subseteq LI!Nodes
        /\ c.first \in [li_Lists -> Ends] /\ c.last \in [li_Lists -> Ends]
        /\ c.count \in [li_Lists -> Int]
        /\ c.head \in [li_Lists -> Ends] /\ c.used \in [li_Lists -> Int]
        /\ c = [next |-> c.next, prev |-> c.prev, data |-> c.data, live |-> c.live,
                first |-> c.first, last |-> c.last, count |-> c.count,
                head |-> c.head, used |-> c.used]
    BY LIHeapTypes
  <1>n. LI!NULL \in Ends /\ n \in Ends /\ LI!NULL # n
    BY LINodes DEF Ends
  <1>a. PICK a : a = [c EXCEPT !.next[n] = LI!NULL, !.prev[n] = p, !.last[l] = n, !.count[l] = @ + 1]
    OBVIOUS
  <1>b. m = IF p = LI!NULL THEN [a EXCEPT !.first[l] = n] ELSE [a EXCEPT !.next[p] = n]
    BY <1>a DEF LITailed
  <1> DEFINE next == IF p = LI!NULL THEN [c.next EXCEPT ![n] = LI!NULL]
                                    ELSE [c.next EXCEPT ![n] = LI!NULL, ![p] = n]
             prev == [c.prev EXCEPT ![n] = p]
             first == IF p = LI!NULL THEN [c.first EXCEPT ![l] = n] ELSE c.first
             last == [c.last EXCEPT ![l] = n]
             count == [c.count EXCEPT ![l] = @ + 1]
  <1>2. m = HeapOf(next, prev, c.data, c.live, first, last, count, c.head, c.used)
    <2>1. a = [next |-> [c.next EXCEPT ![n] = LI!NULL], prev |-> prev, data |-> c.data, live |-> c.live,
               first |-> c.first, last |-> last, count |-> count,
               head |-> c.head, used |-> c.used]
      BY <1>1, <1>a
    <2> QED
      BY <1>b, <2>1 DEF HeapOf
  <1>3. /\ next \in [LI!Nodes -> Ends] /\ prev \in [LI!Nodes -> Ends]
        /\ next[n] = LI!NULL /\ prev[n] = p /\ (p # LI!NULL => next[p] = n)
        /\ \A x \in LI!Nodes : /\ x # n /\ x # p => next[x] = c.next[x]
                               /\ x # n => prev[x] = c.prev[x]
    BY <1>1, <1>n DEF Ends
  <1>4. /\ first \in [li_Lists -> Ends] /\ last \in [li_Lists -> Ends]
        /\ first[l] = (IF p = LI!NULL THEN n ELSE c.first[l]) /\ last[l] = n
        /\ \A k \in li_Lists : k # l => first[k] = c.first[k] /\ last[k] = c.last[k]
    BY <1>1, <1>n
  <1>5. /\ count \in [li_Lists -> Int] /\ count[l] = c.count[l] + 1
        /\ \A k \in li_Lists : k # l => count[k] = c.count[k]
    BY <1>1
  <1> HIDE DEF next, prev, first, last, count
  <1>7. /\ m \in LIHeap
        /\ m.next = next /\ m.prev = prev /\ m.data = c.data /\ m.live = c.live
        /\ m.first = first /\ m.last = last /\ m.count = count
        /\ m.head = c.head /\ m.used = c.used
    <2>1. /\ next \in [LI!Nodes -> Ends] /\ prev \in [LI!Nodes -> Ends]
          /\ first \in [li_Lists -> Ends] /\ last \in [li_Lists -> Ends]
          /\ count \in [li_Lists -> Int]
      BY <1>3, <1>4, <1>5
    <2> QED
      <3>1. PICK k : k = HeapOf(next, prev, c.data, c.live, first, last, count, c.head, c.used)
        OBVIOUS
      <3>2. /\ k \in LIHeap
            /\ k.next = next /\ k.prev = prev /\ k.data = c.data /\ k.live = c.live
            /\ k.first = first /\ k.last = last /\ k.count = count
            /\ k.head = c.head /\ k.used = c.used
        BY <1>1, <2>1, <3>1, LIHeapMade
      <3>3. m = k
        BY <1>2, <3>1
      <3> QED
        BY <3>2, <3>3
  <1> QED
    BY <1>3, <1>4, <1>5, <1>7 DEF PutIn

LIHeaded(c, l, n, q) ==
  LET a == [c EXCEPT !.prev[n] = LI!NULL, !.next[n] = q, !.first[l] = n, !.count[l] = @ + 1]
  IN  IF q = LI!NULL THEN [a EXCEPT !.last[l] = n] ELSE [a EXCEPT !.prev[q] = n]

LEMMA LIAddHeadPuts ==
  ASSUME NEW c \in LIHeap, NEW l \in li_Lists, NEW n \in LI!Nodes, NEW q \in Ends, q # n,
         NEW m, m = LIHeaded(c, l, n, q)
  PROVE  PutIn(c, m, l, n, LI!NULL, q)
  <1>1. /\ c.next \in [LI!Nodes -> Ends] /\ c.prev \in [LI!Nodes -> Ends]
        /\ c.data \in [LI!Nodes -> li_Objects \cup {LI!None}] /\ c.live \subseteq LI!Nodes
        /\ c.first \in [li_Lists -> Ends] /\ c.last \in [li_Lists -> Ends]
        /\ c.count \in [li_Lists -> Int]
        /\ c.head \in [li_Lists -> Ends] /\ c.used \in [li_Lists -> Int]
        /\ c = [next |-> c.next, prev |-> c.prev, data |-> c.data, live |-> c.live,
                first |-> c.first, last |-> c.last, count |-> c.count,
                head |-> c.head, used |-> c.used]
    BY LIHeapTypes
  <1>n. LI!NULL \in Ends /\ n \in Ends /\ LI!NULL # n
    BY LINodes DEF Ends
  <1>a. PICK a : a = [c EXCEPT !.prev[n] = LI!NULL, !.next[n] = q, !.first[l] = n, !.count[l] = @ + 1]
    OBVIOUS
  <1>b. m = IF q = LI!NULL THEN [a EXCEPT !.last[l] = n] ELSE [a EXCEPT !.prev[q] = n]
    BY <1>a DEF LIHeaded
  <1> DEFINE prev == IF q = LI!NULL THEN [c.prev EXCEPT ![n] = LI!NULL]
                                    ELSE [c.prev EXCEPT ![n] = LI!NULL, ![q] = n]
             next == [c.next EXCEPT ![n] = q]
             last == IF q = LI!NULL THEN [c.last EXCEPT ![l] = n] ELSE c.last
             first == [c.first EXCEPT ![l] = n]
             count == [c.count EXCEPT ![l] = @ + 1]
  <1>2. m = HeapOf(next, prev, c.data, c.live, first, last, count, c.head, c.used)
    <2>1. a = [next |-> next, prev |-> [c.prev EXCEPT ![n] = LI!NULL], data |-> c.data, live |-> c.live,
               first |-> first, last |-> c.last, count |-> count,
               head |-> c.head, used |-> c.used]
      BY <1>1, <1>a
    <2> QED
      BY <1>b, <2>1 DEF HeapOf
  <1>3. /\ next \in [LI!Nodes -> Ends] /\ prev \in [LI!Nodes -> Ends]
        /\ prev[n] = LI!NULL /\ next[n] = q /\ (q # LI!NULL => prev[q] = n)
        /\ \A x \in LI!Nodes : /\ x # n /\ x # q => prev[x] = c.prev[x]
                               /\ x # n => next[x] = c.next[x]
    BY <1>1, <1>n DEF Ends
  <1>4. /\ first \in [li_Lists -> Ends] /\ last \in [li_Lists -> Ends]
        /\ last[l] = (IF q = LI!NULL THEN n ELSE c.last[l]) /\ first[l] = n
        /\ \A k \in li_Lists : k # l => first[k] = c.first[k] /\ last[k] = c.last[k]
    BY <1>1, <1>n
  <1>5. /\ count \in [li_Lists -> Int] /\ count[l] = c.count[l] + 1
        /\ \A k \in li_Lists : k # l => count[k] = c.count[k]
    BY <1>1
  <1> HIDE DEF next, prev, first, last, count
  <1>7. /\ m \in LIHeap
        /\ m.next = next /\ m.prev = prev /\ m.data = c.data /\ m.live = c.live
        /\ m.first = first /\ m.last = last /\ m.count = count
        /\ m.head = c.head /\ m.used = c.used
    <2>1. /\ next \in [LI!Nodes -> Ends] /\ prev \in [LI!Nodes -> Ends]
          /\ first \in [li_Lists -> Ends] /\ last \in [li_Lists -> Ends]
          /\ count \in [li_Lists -> Int]
      BY <1>3, <1>4, <1>5
    <2> QED
      <3>1. PICK k : k = HeapOf(next, prev, c.data, c.live, first, last, count, c.head, c.used)
        OBVIOUS
      <3>2. /\ k \in LIHeap
            /\ k.next = next /\ k.prev = prev /\ k.data = c.data /\ k.live = c.live
            /\ k.first = first /\ k.last = last /\ k.count = count
            /\ k.head = c.head /\ k.used = c.used
        BY <1>1, <2>1, <3>1, LIHeapMade
      <3>3. m = k
        BY <1>2, <3>1
      <3> QED
        BY <3>2, <3>3
  <1> QED
    BY <1>3, <1>4, <1>5, <1>7 DEF PutIn

LEMMA LIBetweenPuts ==
  ASSUME NEW c \in LIHeap, NEW l \in li_Lists, NEW n \in LI!Nodes, NEW p \in LI!Nodes, NEW q \in LI!Nodes,
         p # n, q # n,
         NEW m, m = [c EXCEPT !.prev[n] = p, !.next[n] = q, !.prev[q] = n,
                              !.next[p] = n, !.count[l] = @ + 1]
  PROVE  PutIn(c, m, l, n, p, q)
  <1>1. /\ c.next \in [LI!Nodes -> Ends] /\ c.prev \in [LI!Nodes -> Ends]
        /\ c.data \in [LI!Nodes -> li_Objects \cup {LI!None}] /\ c.live \subseteq LI!Nodes
        /\ c.first \in [li_Lists -> Ends] /\ c.last \in [li_Lists -> Ends]
        /\ c.count \in [li_Lists -> Int]
        /\ c.head \in [li_Lists -> Ends] /\ c.used \in [li_Lists -> Int]
        /\ c = [next |-> c.next, prev |-> c.prev, data |-> c.data, live |-> c.live,
                first |-> c.first, last |-> c.last, count |-> c.count,
                head |-> c.head, used |-> c.used]
    BY LIHeapTypes
  <1>n. p \in Ends /\ q \in Ends /\ n \in Ends /\ LI!NULL # p /\ LI!NULL # q
    BY LINodes DEF Ends
  <1> DEFINE prev == [c.prev EXCEPT ![n] = p, ![q] = n]
             next == [c.next EXCEPT ![n] = q, ![p] = n]
             count == [c.count EXCEPT ![l] = @ + 1]
  <1>2. m = HeapOf(next, prev, c.data, c.live, c.first, c.last, count, c.head, c.used)
    BY <1>1 DEF HeapOf
  <1>3. /\ next \in [LI!Nodes -> Ends] /\ prev \in [LI!Nodes -> Ends]
        /\ next[n] = q /\ next[p] = n /\ prev[n] = p /\ prev[q] = n
        /\ \A x \in LI!Nodes : /\ x # n /\ x # q => prev[x] = c.prev[x]
                               /\ x # n /\ x # p => next[x] = c.next[x]
    BY <1>1, <1>n
  <1>5. /\ count \in [li_Lists -> Int] /\ count[l] = c.count[l] + 1
        /\ \A k \in li_Lists : k # l => count[k] = c.count[k]
    BY <1>1
  <1> HIDE DEF next, prev, count
  <1>7. /\ m \in LIHeap
        /\ m.next = next /\ m.prev = prev /\ m.data = c.data /\ m.live = c.live
        /\ m.first = c.first /\ m.last = c.last /\ m.count = count
        /\ m.head = c.head /\ m.used = c.used
    BY <1>1, <1>2, <1>3, <1>5, LIHeapMade
  <1> QED
    BY <1>n, <1>3, <1>5, <1>7 DEF PutIn

(* The lists, told of the objects alone.                                   *)
View(g, F) == [l \in li_Lists |-> [i \in 1 .. Len(F[l]) |-> g.data[F[l][i]]]]

Element(s, i) == s[i]

LIData == li_Objects \cup {LI!None}

LEMMA LIView ==
  ASSUME NEW g, g.data \in [LI!Nodes -> LIData], NEW F \in Chains, NEW l \in li_Lists
  PROVE  /\ Len(View(g, F)[l]) = Len(F[l]) /\ View(g, F)[l] \in Seq(LIData)
         /\ \A i \in 1 .. Len(F[l]) : View(g, F)[l][i] = g.data[F[l][i]]
  <1> DEFINE n == Len(F[l])
             v == [i \in 1 .. n |-> g.data[F[l][i]]]
  <1>1. n \in Nat /\ \A i \in 1 .. n : F[l][i] \in LI!Nodes
    BY LIChain
  <1>2. View(g, F)[l] = v
    BY DEF View
  <1>3. \A i \in 1 .. n : v[i] \in LIData /\ v[i] = g.data[F[l][i]]
    BY <1>1
  <1>4. v = [i \in 1 .. n |-> v[i]]
    OBVIOUS
  <1> HIDE DEF v, n
  <1>5. v \in Seq(LIData) /\ Len(v) = n
    BY <1>1, <1>3, <1>4, LIMake
  <1> QED
    BY <1>2, <1>3, <1>5 DEF n

LEMMA LIViewEqual ==
  ASSUME NEW g, NEW F \in Chains, NEW m, NEW G \in Chains, NEW l \in li_Lists, Len(F[l]) = Len(G[l]),
         \A i \in 1 .. Len(F[l]) : g.data[F[l][i]] = m.data[G[l][i]]
  PROVE  View(g, F)[l] = View(m, G)[l]
  BY DEF View

LEMMA LIPutIs ==
  ASSUME NEW V, NEW W, NEW l \in li_Lists, NEW v,
         V = [k \in li_Lists |-> V[k]], W = [k \in li_Lists |-> W[k]],
         W[l] = v, \A k \in li_Lists : k # l => W[k] = V[k]
  PROVE  W = Put(V, l, v)
  <1>1. ASSUME NEW k \in li_Lists PROVE W[k] = IF k = l THEN v ELSE V[k]
    OBVIOUS
  <1>2. W = [k \in li_Lists |-> IF k = l THEN v ELSE V[k]]
    BY <1>1, Zenon
  <1>3. Put(V, l, v) = [k \in li_Lists |-> IF k = l THEN v ELSE V[k]]
    BY Zenon DEF Put
  <1> QED
    BY <1>2, <1>3

LEMMA LIViewIs ==
  ASSUME NEW g, NEW F, NEW m, NEW G, NEW l \in li_Lists, NEW v,
         View(m, G)[l] = v, \A k \in li_Lists : k # l => View(m, G)[k] = View(g, F)[k],
         NEW V, V = View(g, F), NEW W, W = View(m, G)
  PROVE  W = Put(V, l, v)
  <1>1. /\ V = [k \in li_Lists |-> V[k]] /\ W = [k \in li_Lists |-> W[k]]
    BY DEF View
  <1>2. W[l] = v /\ \A k \in li_Lists : k # l => W[k] = V[k]
    OBVIOUS
  <1> QED
    BY <1>1, <1>2, LIPutIs

(* What adding an object at place i does to chains and objects.            *)
Adds(g, m, F, l, i, o) ==
  \E G, c, w : /\ Good(m, G, c, w) /\ NoneHeld(w)
               /\ G = Put(F, l, LI!S!Inserted(F[l], i, LI!NewNode(g, l)))
               /\ View(m, G) = Put(View(g, F), l, LI!S!Inserted(View(g, F)[l], i, o))

LEMMA LINew ==
  ASSUME NEW g, NEW F, NEW C, NEW O, Good(g, F, C, O), NEW l \in li_Lists, NEW o \in li_Objects \cup {LI!None},
         LI!CanMake(g, l), NEW n, n = LI!NewNode(g, l), NEW c, c = LI!Made(g, l, o)
  PROVE  /\ n \in LI!Nodes /\ Takes(g, c, l, n, o) /\ c \in LIHeap
         /\ \A k \in li_Lists : ~In(n, F[k])
  <1>1. g \in LIHeap
    BY DEF Good
  <1>2. n \in LI!Nodes /\ Takes(g, c, l, n, o)
    BY <1>1, LIMadeTakes
  <1>3. \A k \in li_Lists : O[n] # OnList(k)
    BY <1>2, LITaken
  <1>4. \A k \in li_Lists : ~In(n, F[k])
    BY <1>2, <1>3, Zenon DEF Good, Placed
  <1> QED
    BY <1>2, <1>4 DEF Takes

LEMMA LIInsertedView ==
  ASSUME NEW g, NEW F \in Chains, NEW m, NEW l \in li_Lists, NEW n \in LI!Nodes, NEW o,
         g.data \in [LI!Nodes -> LIData], o \in LIData,
         m.data = Put(g.data, n, o), \A k \in li_Lists : ~In(n, F[k]),
         NEW i \in 1 .. Len(F[l]) + 1, NEW t, t = LI!S!Inserted(F[l], i, n), NEW G, G = Put(F, l, t)
  PROVE  View(m, G) = Put(View(g, F), l, LI!S!Inserted(View(g, F)[l], i, o))
  <1>1. PICK s : s = F[l]
    OBVIOUS
  <1>2. s \in Seq(LI!Nodes) /\ Len(s) \in Nat /\ \A j \in 1 .. Len(s) : s[j] \in LI!Nodes
    BY <1>1, LIChain
  <1>3. /\ t \in Seq(LI!Nodes) /\ Len(t) = Len(s) + 1
        /\ \A j \in 1 .. Len(t) : t[j] = IF j < i THEN s[j] ELSE IF j = i THEN n ELSE s[j - 1]
    BY <1>1, <1>2, LIInserted
  <1>4. G \in Chains /\ G[l] = t /\ \A k \in li_Lists : k # l => G[k] = F[k]
    <2>1. t \in Seq(LI!Nodes)
      BY <1>3
    <2> QED
      BY <2>1, LIChange
  <1>5. \A x \in LI!Nodes : x # n => m.data[x] = g.data[x]
    BY DEF Put
  <1>6. m.data[n] = o /\ m.data \in [LI!Nodes -> LIData]
    BY DEF Put
  <1>7. \A k \in li_Lists : \A j \in 1 .. Len(F[k]) : F[k][j] \in LI!Nodes /\ F[k][j] # n
    BY LIChain DEF In
  <1>8. \A k \in li_Lists : k # l => View(m, G)[k] = View(g, F)[k]
    <2> SUFFICES ASSUME NEW k \in li_Lists, k # l PROVE View(m, G)[k] = View(g, F)[k]
      OBVIOUS
    <2>1. G[k] = F[k] /\ \A j \in 1 .. Len(F[k]) : g.data[F[k][j]] = m.data[F[k][j]]
      BY <1>4, <1>5, <1>7
    <2> QED
      BY <1>4, <2>1 DEF View
  <1> DEFINE v == View(g, F)[l]
  <1>9. v \in Seq(LIData) /\ Len(v) = Len(s) /\ \A j \in 1 .. Len(s) : v[j] = g.data[s[j]]
    BY <1>1, LIView
  <1>11. PICK u : u = LI!S!Inserted(v, i, o)
    OBVIOUS
  <1> HIDE DEF v
  <1>12. /\ u \in Seq(LIData) /\ Len(u) = Len(v) + 1
         /\ \A j \in 1 .. Len(u) : u[j] = IF j < i THEN v[j] ELSE IF j = i THEN o ELSE v[j - 1]
    BY <1>1, <1>9, <1>11, LIInserted
  <1>13. u = View(m, G)[l]
    <2>1. PICK y : y = View(m, G)[l]
      OBVIOUS
    <2>2. Len(y) = Len(t) /\ y \in Seq(LIData) /\ \A j \in 1 .. Len(t) : y[j] = m.data[t[j]]
      BY <1>4, <1>6, <2>1, LIView
    <2>3. \A j \in 1 .. Len(t) : y[j] = u[j]
      <3> SUFFICES ASSUME NEW j \in 1 .. Len(t) PROVE m.data[t[j]] = u[j]
        BY <2>2
      <3>1. CASE j < i
        <4>1. j \in 1 .. Len(s) /\ j \in 1 .. Len(u)
          BY <1>1, <1>2, <1>3, <1>9, <1>12, <3>1
        <4>2. t[j] = s[j] /\ u[j] = v[j] /\ v[j] = g.data[s[j]]
          BY <1>3, <1>9, <1>12, <3>1, <4>1
        <4>3. s[j] \in LI!Nodes /\ s[j] # n
          BY <1>1, <1>7, <4>1
        <4> QED
          BY <1>5, <4>2, <4>3
      <3>2. CASE j = i
        <4>1. ~(j < i) /\ j \in 1 .. Len(u)
          <5>1. Len(u) = Len(s) + 1 /\ Len(t) = Len(s) + 1
            BY <1>3, <1>9, <1>12
          <5> QED
            BY <1>1, <1>2, <3>2, <5>1
        <4>2. t[j] = n
          BY <1>3, <3>2, <4>1
        <4>3. u[j] = o
          BY <1>12, <3>2, <4>1
        <4> QED
          BY <1>6, <4>2, <4>3
      <3>3. CASE j > i
        <4>1. j - 1 \in 1 .. Len(s)
          BY <1>1, <1>2, <1>3, <3>3
        <4>2. t[j] = s[j - 1] /\ u[j] = v[j - 1]
          BY <1>1, <1>3, <1>9, <1>12, <3>3, <4>1
        <4>3. v[j - 1] = g.data[s[j - 1]] /\ s[j - 1] \in LI!Nodes /\ s[j - 1] # n
          BY <1>1, <1>7, <1>9, <4>1
        <4> QED
          BY <1>5, <4>2, <4>3
      <3> QED
        BY <1>1, <1>2, <1>3, <3>1, <3>2, <3>3
    <2>4. y = [j \in 1 .. Len(t) |-> y[j]] /\ u = [j \in 1 .. Len(t) |-> u[j]]
      BY <1>3, <1>9, <1>12, <2>2
    <2> QED
      BY <2>1, <2>3, <2>4
  <1> QED
    BY <1>8, <1>11, <1>13, LIViewIs DEF v

LEMMA LIAddAt ==
  ASSUME NEW g, NEW F, NEW C, NEW O, Good(g, F, C, O), NoneHeld(O), NEW l \in li_Lists,
         NEW o \in li_Objects \cup {LI!None}, LI!CanMake(g, l), NEW s, s = F[l], NEW i \in 1 .. Len(s) + 1,
         NEW n, n = LI!NewNode(g, l), NEW c, c = LI!Made(g, l, o),
         NEW m, PutIn(c, m, l, n, Left(s, i), Right(s, i))
  PROVE  Adds(g, m, F, l, i, o)
  <1>1. n \in LI!Nodes /\ Takes(g, c, l, n, o) /\ \A k \in li_Lists : ~In(n, F[k])
    BY LINew
  <1>2. PICK d, w : Good(c, F, d, w) /\ w[n] = Held /\ \A x \in LI!Nodes : x # n => w[x] = O[x]
    <2>1. LIInHand(c, F, O, n)
      BY <1>1, LITaken
    <2> QED
      BY <2>1 DEF LIInHand
  <1>3. PICK t : t = LI!S!Inserted(s, i, n)
    OBVIOUS
  <1>4. PICK G : G = Put(F, l, t)
    OBVIOUS
  <1>5. PICK z : z = Put(w, n, OnList(l))
    OBVIOUS
  <1>6. Good(m, G, d, z)
    BY <1>1, <1>2, <1>3, <1>4, <1>5, LIPut
  <1>7. NoneHeld(z)
    <2>1. z[n] = OnList(l) /\ \A x \in LI!Nodes : x # n => z[x] = w[x]
      BY <1>1, <1>2, <1>5, LIPutOwner, LIPlacesOf DEF Good
    <2> QED
      BY <1>2, <2>1, LIApart DEF NoneHeld
  <1>8. View(m, G) = Put(View(g, F), l, LI!S!Inserted(View(g, F)[l], i, o))
    <2>1. m.data = Put(g.data, n, o)
      BY <1>1 DEF PutIn, Takes, Put
    <2>2. F \in Chains /\ g.data \in [LI!Nodes -> LIData] /\ o \in LIData
      BY LIHeapTypes DEF Good, LIData
    <2> QED
      BY <1>1, <1>3, <1>4, <2>1, <2>2, LIInsertedView
  <1> QED
    BY <1>3, <1>4, <1>6, <1>7, <1>8 DEF Adds

LEMMA LIEnds ==
  ASSUME NEW g, NEW F, NEW C, NEW O, Good(g, F, C, O), NEW l \in li_Lists, NEW s, s = F[l],
         NEW n \in LI!Nodes, ~In(n, s)
  PROVE  /\ s \in Seq(LI!Nodes) /\ Len(s) \in Nat
         /\ g.last[l] = Left(s, Len(s) + 1) /\ Right(s, Len(s) + 1) = LI!NULL
         /\ g.first[l] = Right(s, 1) /\ Left(s, 1) = LI!NULL
         /\ g.last[l] \in Ends /\ g.last[l] # n /\ g.first[l] \in Ends /\ g.first[l] # n
         /\ \A i \in 1 .. Len(s) : s[i] \in LI!Nodes /\ s[i] # n
  <1>1. s \in Seq(LI!Nodes) /\ GoodList(g, l, s)
    BY DEF Good, Placed, Chains
  <1>2. Len(s) \in Nat /\ \A i \in 1 .. Len(s) : s[i] \in LI!Nodes /\ s[i] # n
    BY <1>1 DEF In
  <1>3. g.last[l] = Left(s, Len(s) + 1) /\ Right(s, Len(s) + 1) = LI!NULL
    BY <1>1, <1>2 DEF GoodList, End, Left, Right
  <1>4. g.first[l] = Right(s, 1) /\ Left(s, 1) = LI!NULL
    BY <1>1, <1>2 DEF GoodList, Front, Left, Right
  <1>5. g.last[l] \in Ends /\ g.last[l] # n /\ g.first[l] \in Ends /\ g.first[l] # n
    BY <1>1, <1>2, LINodes DEF GoodList, Front, End, Ends
  <1> QED
    BY <1>1, <1>2, <1>3, <1>4, <1>5

LEMMA LIAddTail ==
  ASSUME NEW g, NEW F, NEW C, NEW O, Good(g, F, C, O), NoneHeld(O), NEW l \in li_Lists,
         NEW o \in li_Objects \cup {LI!None}, LI!CanMake(g, l)
  PROVE  Adds(g, LI!AddTail(g, l, o), F, l, Len(F[l]) + 1, o)
  <1>1. PICK s, n, c, m : s = F[l] /\ n = LI!NewNode(g, l) /\ c = LI!Made(g, l, o)
        /\ m = LI!AddTail(g, l, o)
    OBVIOUS
  <1>2. n \in LI!Nodes /\ Takes(g, c, l, n, o) /\ c \in LIHeap /\ ~In(n, s)
    BY <1>1, LINew
  <1>3. /\ s \in Seq(LI!Nodes) /\ Len(s) \in Nat
        /\ g.last[l] = Left(s, Len(s) + 1) /\ Right(s, Len(s) + 1) = LI!NULL
        /\ g.last[l] \in Ends /\ g.last[l] # n
    BY <1>1, <1>2, LIEnds
  <1>4. PICK p : p = g.last[l]
    OBVIOUS
  <1>6. m = LITailed(c, l, n, p)
    BY <1>1, <1>4 DEF LI!AddTail, LITailed
  <1>7. PutIn(c, m, l, n, p, LI!NULL)
    BY <1>2, <1>3, <1>4, <1>6, LIAddTailPuts
  <1>8. PutIn(c, m, l, n, Left(s, Len(s) + 1), Right(s, Len(s) + 1))
        /\ Len(s) + 1 \in 1 .. Len(s) + 1
    BY <1>3, <1>4, <1>7
  <1> QED
    BY <1>1, <1>8, LIAddAt

LEMMA LIAddHead ==
  ASSUME NEW g, NEW F, NEW C, NEW O, Good(g, F, C, O), NoneHeld(O), NEW l \in li_Lists,
         NEW o \in li_Objects \cup {LI!None}, LI!CanMake(g, l)
  PROVE  Adds(g, LI!AddHead(g, l, o), F, l, 1, o)
  <1>1. PICK s, n, c, m : s = F[l] /\ n = LI!NewNode(g, l) /\ c = LI!Made(g, l, o)
        /\ m = LI!AddHead(g, l, o)
    OBVIOUS
  <1>2. n \in LI!Nodes /\ Takes(g, c, l, n, o) /\ c \in LIHeap /\ ~In(n, s)
    BY <1>1, LINew
  <1>3. /\ s \in Seq(LI!Nodes) /\ Len(s) \in Nat
        /\ g.first[l] = Right(s, 1) /\ Left(s, 1) = LI!NULL
        /\ g.first[l] \in Ends /\ g.first[l] # n
    BY <1>1, <1>2, LIEnds
  <1>4. PICK q : q = g.first[l]
    OBVIOUS
  <1>6. m = LIHeaded(c, l, n, q)
    BY <1>1, <1>4 DEF LI!AddHead, LIHeaded
  <1>7. PutIn(c, m, l, n, LI!NULL, q)
    BY <1>2, <1>3, <1>4, <1>6, LIAddHeadPuts
  <1>8. PutIn(c, m, l, n, Left(s, 1), Right(s, 1)) /\ 1 \in 1 .. Len(s) + 1
    BY <1>3, <1>4, <1>7
  <1> QED
    BY <1>1, <1>8, LIAddAt

LEMMA LIBetween ==
  ASSUME NEW g, NEW F, NEW C, NEW O, Good(g, F, C, O), NoneHeld(O), NEW l \in li_Lists,
         NEW o \in li_Objects \cup {LI!None}, LI!CanMake(g, l), NEW i \in 2 .. Len(F[l])
  PROVE  Adds(g, LI!Between(g, l, F[l][i - 1], F[l][i], o), F, l, i, o)
  <1>1. PICK s, n, c : s = F[l] /\ n = LI!NewNode(g, l) /\ c = LI!Made(g, l, o)
    OBVIOUS
  <1>2. n \in LI!Nodes /\ Takes(g, c, l, n, o) /\ c \in LIHeap /\ ~In(n, s)
    BY <1>1, LINew
  <1>3. /\ s \in Seq(LI!Nodes) /\ Len(s) \in Nat
        /\ \A j \in 1 .. Len(s) : s[j] \in LI!Nodes /\ s[j] # n
    BY <1>1, <1>2, LIEnds
  <1>4. PICK p, q, m : p = s[i - 1] /\ q = s[i] /\ m = LI!Between(g, l, p, q, o)
    OBVIOUS
  <1>5. i \in 1 .. Len(s) + 1 /\ i - 1 \in 1 .. Len(s) /\ i \in 1 .. Len(s)
    BY <1>1, <1>3
  <1>6. m = [c EXCEPT !.prev[n] = p, !.next[n] = q, !.prev[q] = n, !.next[p] = n, !.count[l] = @ + 1]
    BY <1>1, <1>4 DEF LI!Between
  <1>7. p \in LI!Nodes /\ q \in LI!Nodes /\ p # n /\ q # n
    BY <1>3, <1>4, <1>5
  <1>8. PutIn(c, m, l, n, p, q)
    BY <1>2, <1>6, <1>7, LIBetweenPuts, Zenon
  <1>9. p = Left(s, i) /\ q = Right(s, i)
    BY <1>1, <1>3, <1>4, <1>5 DEF Left, Right
  <1>10. PutIn(c, m, l, n, Left(s, i), Right(s, i))
    BY <1>8, <1>9
  <1> QED
    BY <1>1, <1>4, <1>5, <1>10, LIAddAt

LEMMA LIAddAfter ==
  ASSUME NEW g, NEW F, NEW C, NEW O, Good(g, F, C, O), NoneHeld(O), NEW l \in li_Lists,
         NEW o \in li_Objects \cup {LI!None}, LI!CanMake(g, l), NEW i \in 1 .. Len(F[l])
  PROVE  Adds(g, LI!AddAfter(g, l, F[l][i], o), F, l, i + 1, o)
  <1>1. PICK s, p : s = F[l] /\ p = s[i]
    OBVIOUS
  <1>2. s \in Seq(LI!Nodes) /\ GoodList(g, l, s) /\ Len(s) \in Nat /\ Len(s) # 0
        /\ p \in LI!Nodes /\ p # LI!NULL
    BY <1>1, LINodes DEF Good, Placed, Chains
  <1>3. CASE i = Len(s)
    <2>1. p = g.last[l]
      BY <1>1, <1>2, <1>3 DEF GoodList, End
    <2>2. LI!AddAfter(g, l, p, o) = LI!AddTail(g, l, o)
      BY <1>2, <2>1 DEF LI!AddAfter
    <2> QED
      BY <1>1, <1>3, <2>2, LIAddTail
  <1>4. CASE i # Len(s)
    <2>1. i + 1 \in 2 .. Len(s) /\ i + 1 - 1 = i /\ g.next[p] = s[i + 1]
      BY <1>1, <1>2, <1>4 DEF GoodList, Linked, After
    <2>2. p # g.last[l]
      BY <1>1, <1>2, <1>4 DEF GoodList, End, Once
    <2>3. LI!AddAfter(g, l, p, o) = LI!Between(g, l, p, s[i + 1], o)
      BY <1>2, <2>1, <2>2 DEF LI!AddAfter
    <2>4. PICK k : k = i + 1
      OBVIOUS
    <2>5. k \in 2 .. Len(F[l]) /\ F[l][k - 1] = p /\ F[l][k] = s[i + 1]
      BY <1>1, <2>1, <2>4
    <2>6. Adds(g, LI!Between(g, l, F[l][k - 1], F[l][k], o), F, l, k, o)
      BY <2>5, LIBetween
    <2> QED
      BY <1>1, <2>3, <2>4, <2>5, <2>6
  <1> QED
    BY <1>3, <1>4

LEMMA LIAddBefore ==
  ASSUME NEW g, NEW F, NEW C, NEW O, Good(g, F, C, O), NoneHeld(O), NEW l \in li_Lists,
         NEW o \in li_Objects \cup {LI!None}, LI!CanMake(g, l), NEW i \in 1 .. Len(F[l])
  PROVE  Adds(g, LI!AddBefore(g, l, F[l][i], o), F, l, i, o)
  <1>1. PICK s, p : s = F[l] /\ p = s[i]
    OBVIOUS
  <1>2. s \in Seq(LI!Nodes) /\ GoodList(g, l, s) /\ Len(s) \in Nat /\ Len(s) # 0
        /\ p \in LI!Nodes /\ p # LI!NULL
    BY <1>1, LINodes DEF Good, Placed, Chains
  <1>3. CASE i = 1
    <2>1. p = g.first[l]
      BY <1>1, <1>2, <1>3 DEF GoodList, Front
    <2>2. LI!AddBefore(g, l, p, o) = LI!AddHead(g, l, o)
      BY <1>2, <2>1 DEF LI!AddBefore
    <2> QED
      BY <1>1, <1>3, <2>2, LIAddHead
  <1>4. CASE i # 1
    <2>1. i \in 2 .. Len(s) /\ g.prev[p] = s[i - 1]
      BY <1>1, <1>2, <1>4 DEF GoodList, LinkedBack, Before
    <2>2. p # g.first[l]
      BY <1>1, <1>2, <1>4 DEF GoodList, Front, Once
    <2>3. LI!AddBefore(g, l, p, o) = LI!Between(g, l, s[i - 1], p, o)
      BY <1>2, <2>1, <2>2 DEF LI!AddBefore
    <2> QED
      BY <1>1, <2>1, <2>3, LIBetween
  <1> QED
    BY <1>3, <1>4

LICut(g, l, p, q) ==
  LET a == IF p = LI!NULL THEN [g EXCEPT !.first[l] = q] ELSE [g EXCEPT !.next[p] = q]
  IN  IF q = LI!NULL THEN [a EXCEPT !.last[l] = p] ELSE [a EXCEPT !.prev[q] = p]

LEMMA LICutFields ==
  ASSUME NEW g \in LIHeap, NEW l \in li_Lists, NEW p \in Ends, NEW q \in Ends,
         NEW b, b = LICut(g, l, p, q)
  PROVE  /\ b \in LIHeap /\ b.data = g.data /\ b.live = g.live /\ b.head = g.head
         /\ b.used = g.used
         /\ (p # LI!NULL => b.next[p] = q) /\ (q # LI!NULL => b.prev[q] = p)
         /\ \A x \in LI!Nodes : /\ x # p => b.next[x] = g.next[x]
                                /\ x # q => b.prev[x] = g.prev[x]
         /\ b.first[l] = (IF p = LI!NULL THEN q ELSE g.first[l])
         /\ b.last[l] = (IF q = LI!NULL THEN p ELSE g.last[l])
         /\ b.count = g.count
         /\ \A k \in li_Lists : k # l => b.first[k] = g.first[k] /\ b.last[k] = g.last[k]
  <1>1. /\ g.next \in [LI!Nodes -> Ends] /\ g.prev \in [LI!Nodes -> Ends]
        /\ g.data \in [LI!Nodes -> li_Objects \cup {LI!None}] /\ g.live \subseteq LI!Nodes
        /\ g.first \in [li_Lists -> Ends] /\ g.last \in [li_Lists -> Ends]
        /\ g.count \in [li_Lists -> Int]
        /\ g.head \in [li_Lists -> Ends] /\ g.used \in [li_Lists -> Int]
        /\ g = [next |-> g.next, prev |-> g.prev, data |-> g.data, live |-> g.live,
                first |-> g.first, last |-> g.last, count |-> g.count,
                head |-> g.head, used |-> g.used]
    BY LIHeapTypes
  <1> DEFINE next == IF p = LI!NULL THEN g.next ELSE [g.next EXCEPT ![p] = q]
             prev == IF q = LI!NULL THEN g.prev ELSE [g.prev EXCEPT ![q] = p]
             first == IF p = LI!NULL THEN [g.first EXCEPT ![l] = q] ELSE g.first
             last == IF q = LI!NULL THEN [g.last EXCEPT ![l] = p] ELSE g.last
  <1>2. b = HeapOf(next, prev, g.data, g.live, first, last, g.count, g.head, g.used)
    <2>1. PICK a : a = IF p = LI!NULL THEN [g EXCEPT !.first[l] = q] ELSE [g EXCEPT !.next[p] = q]
      OBVIOUS
    <2>2. a = [next |-> next, prev |-> g.prev, data |-> g.data, live |-> g.live,
               first |-> first, last |-> g.last, count |-> g.count,
               head |-> g.head, used |-> g.used]
      BY <1>1, <2>1
    <2>3. b = IF q = LI!NULL THEN [a EXCEPT !.last[l] = p] ELSE [a EXCEPT !.prev[q] = p]
      BY <2>1 DEF LICut
    <2> QED
      BY <2>2, <2>3 DEF HeapOf
  <1>3. /\ next \in [LI!Nodes -> Ends] /\ prev \in [LI!Nodes -> Ends]
        /\ (p # LI!NULL => next[p] = q) /\ (q # LI!NULL => prev[q] = p)
        /\ \A x \in LI!Nodes : /\ x # p => next[x] = g.next[x]
                               /\ x # q => prev[x] = g.prev[x]
    BY <1>1 DEF Ends
  <1>4. /\ first \in [li_Lists -> Ends] /\ last \in [li_Lists -> Ends]
        /\ first[l] = (IF p = LI!NULL THEN q ELSE g.first[l])
        /\ last[l] = (IF q = LI!NULL THEN p ELSE g.last[l])
        /\ \A k \in li_Lists : k # l => first[k] = g.first[k] /\ last[k] = g.last[k]
    BY <1>1
  <1> HIDE DEF next, prev, first, last
  <1>5. /\ b \in LIHeap
        /\ b.next = next /\ b.prev = prev /\ b.data = g.data /\ b.live = g.live
        /\ b.first = first /\ b.last = last /\ b.count = g.count
        /\ b.head = g.head /\ b.used = g.used
    BY <1>1, <1>2, <1>3, <1>4, LIHeapMade
  <1> QED
    BY <1>3, <1>4, <1>5

LICounted(b, l) == [b EXCEPT !.count[l] = @ - 1]

LEMMA LICountedFields ==
  ASSUME NEW b \in LIHeap, NEW l \in li_Lists, NEW c, c = LICounted(b, l)
  PROVE  /\ c \in LIHeap /\ c.data = b.data /\ c.live = b.live /\ c.head = b.head
         /\ c.used = b.used
         /\ c.next = b.next /\ c.prev = b.prev /\ c.first = b.first /\ c.last = b.last
         /\ c.count[l] = b.count[l] - 1 /\ \A k \in li_Lists : k # l => c.count[k] = b.count[k]
  <1>1. /\ b.next \in [LI!Nodes -> Ends] /\ b.prev \in [LI!Nodes -> Ends]
        /\ b.data \in [LI!Nodes -> li_Objects \cup {LI!None}] /\ b.live \subseteq LI!Nodes
        /\ b.first \in [li_Lists -> Ends] /\ b.last \in [li_Lists -> Ends]
        /\ b.count \in [li_Lists -> Int]
        /\ b.head \in [li_Lists -> Ends] /\ b.used \in [li_Lists -> Int]
        /\ b = [next |-> b.next, prev |-> b.prev, data |-> b.data, live |-> b.live,
                first |-> b.first, last |-> b.last, count |-> b.count,
                head |-> b.head, used |-> b.used]
    BY LIHeapTypes
  <1> DEFINE count == [b.count EXCEPT ![l] = @ - 1]
  <1>2. c = HeapOf(b.next, b.prev, b.data, b.live, b.first, b.last, count, b.head, b.used)
    BY <1>1 DEF LICounted, HeapOf
  <1>3. count \in [li_Lists -> Int] /\ count[l] = b.count[l] - 1 /\ \A k \in li_Lists : k # l => count[k] = b.count[k]
    BY <1>1
  <1> HIDE DEF count
  <1>4. /\ c \in LIHeap
        /\ c.next = b.next /\ c.prev = b.prev /\ c.data = b.data /\ c.live = b.live
        /\ c.first = b.first /\ c.last = b.last /\ c.count = count
        /\ c.head = b.head /\ c.used = b.used
    BY <1>1, <1>2, <1>3, LIHeapMade
  <1> QED
    BY <1>3, <1>4

LEMMA LICacheFields ==
  ASSUME NEW b \in LIHeap, NEW l \in li_Lists, NEW n \in LI!Nodes, NEW m, m = LI!AddToCache(b, l, n)
  PROVE  Casts(b, m, l, n)
  <1>1. /\ b.next \in [LI!Nodes -> Ends] /\ b.prev \in [LI!Nodes -> Ends]
        /\ b.data \in [LI!Nodes -> li_Objects \cup {LI!None}] /\ b.live \subseteq LI!Nodes
        /\ b.first \in [li_Lists -> Ends] /\ b.last \in [li_Lists -> Ends]
        /\ b.count \in [li_Lists -> Int]
        /\ b.head \in [li_Lists -> Ends] /\ b.used \in [li_Lists -> Int]
        /\ b = [next |-> b.next, prev |-> b.prev, data |-> b.data, live |-> b.live,
                first |-> b.first, last |-> b.last, count |-> b.count,
                head |-> b.head, used |-> b.used]
    BY LIHeapTypes
  <1>n. LI!NULL \in Ends /\ n \in Ends
    BY LINodes DEF Ends
  <1> DEFINE room == b.used[l] < li_CacheSize
             prev == [b.prev EXCEPT ![n] = LI!NULL]
             data == [b.data EXCEPT ![n] = LI!None]
             next == [b.next EXCEPT ![n] = IF room THEN b.head[l] ELSE LI!NULL]
             head == IF room THEN [b.head EXCEPT ![l] = n] ELSE b.head
             used == IF room THEN [b.used EXCEPT ![l] = @ + 1] ELSE b.used
             live == IF room THEN b.live ELSE b.live \ {n}
  <1>2. m = HeapOf(next, prev, data, live, b.first, b.last, b.count, head, used)
    <2>1. PICK c : c = [b EXCEPT !.prev[n] = LI!NULL, !.data[n] = LI!None]
      OBVIOUS
    <2>2. c = [next |-> b.next, prev |-> prev, data |-> data, live |-> b.live,
               first |-> b.first, last |-> b.last, count |-> b.count,
               head |-> b.head, used |-> b.used]
      BY <1>1, <2>1
    <2>3. m = IF room THEN [c EXCEPT !.next[n] = b.head[l], !.head[l] = n, !.used[l] = @ + 1]
                      ELSE [c EXCEPT !.next[n] = LI!NULL, !.live = @ \ {n}]
      BY <2>1 DEF LI!AddToCache
    <2> HIDE DEF prev, data
    <2>4. CASE room
      BY <2>2, <2>3, <2>4 DEF HeapOf
    <2>5. CASE ~room
      BY <2>2, <2>3, <2>5 DEF HeapOf
    <2> QED
      BY <2>4, <2>5
  <1>3. /\ next \in [LI!Nodes -> Ends] /\ prev \in [LI!Nodes -> Ends]
        /\ data \in [LI!Nodes -> li_Objects \cup {LI!None}]
        /\ \A x \in LI!Nodes : x # n => next[x] = b.next[x] /\ prev[x] = b.prev[x] /\ data[x] = b.data[x]
        /\ room => next[n] = b.head[l]
    <2> HIDE DEF room
    <2> QED
      BY <1>1, <1>n
  <1>4. head \in [li_Lists -> Ends]
        /\ (room => head[l] = n) /\ (~room => head[l] = b.head[l])
        /\ \A k \in li_Lists : k # l => head[k] = b.head[k]
    <2> HIDE DEF room
    <2> QED
      BY <1>1, <1>n
  <1>5. used \in [li_Lists -> Int]
        /\ (room => used[l] = b.used[l] + 1) /\ (~room => used[l] = b.used[l])
        /\ \A k \in li_Lists : k # l => used[k] = b.used[k]
    <2> HIDE DEF room
    <2> QED
      BY <1>1, <1>n
  <1>6. live \subseteq LI!Nodes /\ (room => live = b.live) /\ (~room => live = b.live \ {n})
    BY <1>1
  <1> HIDE DEF next, prev, data, head, used, live, room
  <1>7. /\ m \in LIHeap
        /\ m.next = next /\ m.prev = prev /\ m.data = data /\ m.live = live
        /\ m.first = b.first /\ m.last = b.last /\ m.count = b.count
        /\ m.head = head /\ m.used = used
    BY <1>1, <1>2, <1>3, <1>4, <1>5, <1>6, LIHeapMade
  <1> QED
    BY <1>3, <1>4, <1>5, <1>6, <1>7 DEF Casts, LISame, room

(* The heaps m and g tell the same of what F holds but list l, and of that v. *)
Becomes(g, m, F, l, v) ==
  \E G, c, w : /\ Good(m, G, c, w) /\ NoneHeld(w)
               /\ View(m, G) = Put(View(g, F), l, v)

(* Only what node n of list l points to has changed.                       *)
Told(g, m, F, l, n) ==
  /\ g.data \in [LI!Nodes -> LIData] /\ m.data \in [LI!Nodes -> LIData]
  /\ \A x \in LI!Nodes : x # n => m.data[x] = g.data[x]
  /\ \A k \in li_Lists : k # l => ~In(n, F[k])

TellsWithout(g, F, m, l, i) ==
  View(m, Put(F, l, LI!S!Without(F[l], i))) = Put(View(g, F), l, LI!S!Without(View(g, F)[l], i))

LEMMA LIWithoutView ==
  ASSUME NEW g, NEW F \in Chains, NEW m, NEW l \in li_Lists, NEW i \in 1 .. Len(F[l]),
         Once(F[l]), Told(g, m, F, l, F[l][i])
  PROVE  TellsWithout(g, F, m, l, i)
  <1>t. PICK t, G : t = LI!S!Without(F[l], i) /\ G = Put(F, l, t)
    OBVIOUS
  <1>1. PICK s, n : s = F[l] /\ n = s[i]
    OBVIOUS
  <1>0. /\ g.data \in [LI!Nodes -> LIData] /\ m.data \in [LI!Nodes -> LIData]
        /\ \A x \in LI!Nodes : x # n => m.data[x] = g.data[x]
        /\ \A k \in li_Lists : k # l => ~In(n, F[k])
    BY <1>1 DEF Told
  <1>2. s \in Seq(LI!Nodes) /\ Len(s) \in Nat /\ \A j \in 1 .. Len(s) : s[j] \in LI!Nodes
    BY <1>1, LIChain
  <1>3. /\ t \in Seq(LI!Nodes) /\ Len(t) = Len(s) - 1
        /\ \A j \in 1 .. Len(t) : t[j] = IF j < i THEN s[j] ELSE s[j + 1]
    <2>1. i \in 1 .. Len(s) /\ t = LI!S!Without(s, i)
      BY <1>1, <1>t
    <2> QED
      BY <1>2, <2>1, LIWithout
  <1>4. G \in Chains /\ G[l] = t /\ \A k \in li_Lists : k # l => G[k] = F[k]
    <2>1. t \in Seq(LI!Nodes)
      BY <1>3
    <2> QED
      BY <1>t, <2>1, LIChange
  <1>7. \A k \in li_Lists : k # l => \A j \in 1 .. Len(F[k]) : F[k][j] \in LI!Nodes /\ F[k][j] # n
    BY <1>0, LIChain DEF In
  <1>8. \A k \in li_Lists : k # l => View(m, G)[k] = View(g, F)[k]
    <2> SUFFICES ASSUME NEW k \in li_Lists, k # l PROVE View(m, G)[k] = View(g, F)[k]
      OBVIOUS
    <2>1. G[k] = F[k] /\ \A j \in 1 .. Len(F[k]) : g.data[F[k][j]] = m.data[F[k][j]]
      BY <1>0, <1>4, <1>7
    <2> QED
      BY <1>4, <2>1 DEF View
  <1> DEFINE v == View(g, F)[l]
  <1>9. v \in Seq(LIData) /\ Len(v) = Len(s) /\ \A j \in 1 .. Len(s) : v[j] = g.data[s[j]]
    BY <1>0, <1>1, LIView
  <1>11. PICK u : u = LI!S!Without(v, i)
    OBVIOUS
  <1> HIDE DEF v
  <1>12. /\ u \in Seq(LIData) /\ Len(u) = Len(v) - 1
         /\ \A j \in 1 .. Len(u) : u[j] = IF j < i THEN v[j] ELSE v[j + 1]
    <2>1. i \in 1 .. Len(v)
      BY <1>1, <1>9
    <2> QED
      BY <1>9, <1>11, <2>1, LIWithout
  <1>13. u = View(m, G)[l]
    <2>1. PICK y : y = View(m, G)[l]
      OBVIOUS
    <2>2. Len(y) = Len(t) /\ y \in Seq(LIData) /\ \A j \in 1 .. Len(t) : y[j] = m.data[t[j]]
      BY <1>0, <1>4, <2>1, LIView
    <2>3. \A j \in 1 .. Len(t) : y[j] = u[j]
      <3> SUFFICES ASSUME NEW j \in 1 .. Len(t) PROVE m.data[t[j]] = u[j]
        BY <2>2
      <3> DEFINE k == IF j < i THEN j ELSE j + 1
      <3>1. k \in 1 .. Len(s) /\ k # i
        BY <1>1, <1>2, <1>3
      <3>2. t[j] = s[k] /\ u[j] = v[k]
        BY <1>2, <1>3, <1>9, <1>12
      <3> HIDE DEF k
      <3>3. s[k] # n /\ s[k] \in LI!Nodes
        BY <1>1, <1>2, <3>1 DEF Once
      <3> QED
        BY <1>0, <1>9, <3>1, <3>2, <3>3
    <2>4. y = [j \in 1 .. Len(t) |-> y[j]] /\ u = [j \in 1 .. Len(t) |-> u[j]]
      BY <1>3, <1>9, <1>12, <2>2
    <2> QED
      BY <2>1, <2>3, <2>4
  <1> QED
    BY <1>t, <1>8, <1>11, <1>13, LIViewIs DEF v, TellsWithout

LEMMA LIRemoveNode ==
  ASSUME NEW g, NEW F, NEW C, NEW O, Good(g, F, C, O), NoneHeld(O), NEW l \in li_Lists,
         NEW i \in 1 .. Len(F[l])
  PROVE  Becomes(g, LI!RemoveNode(g, l, F[l][i]), F, l, LI!S!Without(View(g, F)[l], i))
  <1>1. PICK s, n, m : s = F[l] /\ n = s[i] /\ m = LI!RemoveNode(g, l, n)
    OBVIOUS
  <1>2. g \in LIHeap /\ F \in Chains /\ s \in Seq(LI!Nodes) /\ GoodList(g, l, s)
        /\ n \in LI!Nodes /\ O[n] = OnList(l)
    <2>1. g \in LIHeap /\ F \in Chains /\ s \in Seq(LI!Nodes) /\ GoodList(g, l, s)
      BY <1>1 DEF Good, Placed, Chains
    <2>2. n \in LI!Nodes /\ O[n] = OnList(l)
      BY <1>1, LIPlaces
    <2> QED
      BY <2>1, <2>2
  <1>3. PICK p, q : p = g.prev[n] /\ q = g.next[n]
    OBVIOUS
  <1>4. p = Before(s, i) /\ q = After(s, i) /\ p \in Ends /\ q \in Ends
    BY <1>1, <1>2, <1>3, LIHeapTypes DEF GoodList, Linked, LinkedBack
  <1>5. PICK b, c, d : b = LICut(g, l, p, q) /\ c = LICounted(b, l)
        /\ d = LI!AddToCache(b, l, n)
    OBVIOUS
  <1>6. m = LICounted(d, l)
    <2>1. m = LICounted(LI!AddToCache(LICut(g, l, g.prev[n], g.next[n]), l, n), l)
      BY <1>1, Zenon DEF LI!RemoveNode, LICounted, LICut
    <2> QED
      BY <1>3, <1>5, <2>1
  <1>7. /\ b \in LIHeap /\ b.data = g.data /\ b.live = g.live /\ b.head = g.head
        /\ b.used = g.used
        /\ (p # LI!NULL => b.next[p] = q) /\ (q # LI!NULL => b.prev[q] = p)
        /\ \A x \in LI!Nodes : /\ x # p => b.next[x] = g.next[x]
                               /\ x # q => b.prev[x] = g.prev[x]
        /\ b.first[l] = (IF p = LI!NULL THEN q ELSE g.first[l])
        /\ b.last[l] = (IF q = LI!NULL THEN p ELSE g.last[l])
        /\ b.count = g.count
        /\ \A k \in li_Lists : k # l => b.first[k] = g.first[k] /\ b.last[k] = g.last[k]
    BY <1>2, <1>4, <1>5, LICutFields, SMTT(40)
  <1>8. /\ c \in LIHeap /\ c.data = b.data /\ c.live = b.live /\ c.head = b.head
        /\ c.used = b.used
        /\ c.next = b.next /\ c.prev = b.prev /\ c.first = b.first /\ c.last = b.last
        /\ c.count[l] = b.count[l] - 1 /\ \A k \in li_Lists : k # l => c.count[k] = b.count[k]
    BY <1>5, <1>7, LICountedFields
  <1>9. PutOut(g, c, l, n, p, q)
    BY <1>7, <1>8 DEF PutOut
  <1>10. Casts(b, d, l, n)
    BY <1>2, <1>5, <1>7, LICacheFields
  <1>11. /\ m \in LIHeap /\ m.data = d.data /\ m.live = d.live /\ m.head = d.head
         /\ m.used = d.used
         /\ m.next = d.next /\ m.prev = d.prev /\ m.first = d.first /\ m.last = d.last
         /\ m.count[l] = d.count[l] - 1 /\ \A k \in li_Lists : k # l => m.count[k] = d.count[k]
    BY <1>6, <1>10, LICountedFields DEF Casts
  <1>12. m.count = c.count
    <2>1. m.count \in [li_Lists -> Int] /\ c.count \in [li_Lists -> Int]
      BY <1>8, <1>11, LIHeapTypes
    <2>2. d.count = b.count
      BY <1>10 DEF Casts, LISame
    <2> QED
      BY <1>8, <1>11, <2>1, <2>2
  <1>13. Casts(c, m, l, n)
    BY <1>8, <1>10, <1>11, <1>12 DEF Casts, LISame
  <1>14. PICK t, G, w : t = LI!S!Without(s, i) /\ G = Put(F, l, t) /\ w = Put(O, n, Held)
    OBVIOUS
  <1>15. Good(c, G, C, w)
    <2>1. PutOut(g, c, l, n, Before(s, i), After(s, i))
      BY <1>4, <1>9
    <2> QED
      BY <1>1, <1>14, <2>1, LIOut
  <1>16. w[n] = Held /\ \A x \in LI!Nodes : x # n => w[x] = O[x]
    BY <1>2, <1>14, LIPutOwner, LIPlacesOf DEF Good
  <1>17. Away(m, G, w, n)
    BY <1>2, <1>13, <1>15, <1>16, LICast
  <1>18. PICK e, z : /\ Good(m, G, e, z) /\ z[n] # Held
                     /\ \A x \in LI!Nodes : x # n => z[x] = w[x]
    BY <1>17 DEF Away
  <1>19. NoneHeld(z)
    BY <1>16, <1>18 DEF NoneHeld
  <1>20. View(m, G) = Put(View(g, F), l, LI!S!Without(View(g, F)[l], i))
    <2>1. g.data \in [LI!Nodes -> LIData] /\ m.data \in [LI!Nodes -> LIData]
      BY <1>2, <1>11, LIHeapTypes DEF LIData
    <2>2. \A x \in LI!Nodes : x # n => m.data[x] = g.data[x]
      BY <1>7, <1>10, <1>11 DEF Casts
    <2>3. \A k \in li_Lists : k # l => ~In(n, F[k])
      BY <1>2, LIApart DEF Good, Placed
    <2>4. Once(F[l])
      BY <1>1, <1>2 DEF GoodList
    <2>5. Told(g, m, F, l, F[l][i])
      BY <1>1, <2>1, <2>2, <2>3 DEF Told
    <2>6. TellsWithout(g, F, m, l, i)
      <3>1. F \in Chains /\ i \in 1 .. Len(F[l])
        BY <1>2
      <3> QED
        BY <2>4, <2>5, <3>1, LIWithoutView
    <2> QED
      BY <1>1, <1>14, <2>6 DEF TellsWithout
  <1> QED
    BY <1>1, <1>18, <1>19, <1>20 DEF Becomes

(* The lists of D get the chains that G says; the nodes of no other moves. *)
Links(g, m, O, D) ==
  \A x \in LI!Nodes : (\A k \in D : O[x] # OnList(k)) => m.next[x] = g.next[x] /\ m.prev[x] = g.prev[x]

Listed(g, m, F, G, D) ==
  /\ \A k \in D : GoodList(m, k, G[k])
  /\ \A k \in li_Lists : k \notin D => /\ G[k] = F[k] /\ m.first[k] = g.first[k]
                                       /\ m.last[k] = g.last[k] /\ m.count[k] = g.count[k]

Owned(m, G, O, w) ==
  /\ LIKnown(w) /\ w = [x \in LI!Nodes |-> w[x]]
  /\ \A k \in li_Lists, x \in LI!Nodes : /\ In(x, G[k]) <=> w[x] = OnList(k)
                                         /\ w[x] = InCache(k) <=> O[x] = InCache(k)
  /\ \A x \in LI!Nodes : x \in m.live <=> w[x] # Free

Replaces(g, m, F, G, O, w, D) ==
  /\ m \in LIHeap /\ m.head = g.head /\ m.used = g.used
  /\ Listed(g, m, F, G, D) /\ Links(g, m, O, D) /\ Owned(m, G, O, w)

LEMMA LIReplace ==
  ASSUME NEW g, NEW F, NEW C, NEW O, Good(g, F, C, O), NEW D, D \subseteq li_Lists,
         NEW m, NEW G \in Chains, NEW w, Replaces(g, m, F, G, O, w, D)
  PROVE  Good(m, G, C, w)
  <1>1. F \in Chains /\ C \in Chains /\ Placed(g, F, C, O)
    BY DEF Good
  <1>2. \A k \in li_Lists : GoodList(m, k, G[k])
    <2> SUFFICES ASSUME NEW k \in li_Lists, k \notin D PROVE GoodList(m, k, G[k])
      BY Zenon DEF Replaces, Listed, Links, Owned
    <2>1. F[k] \in Seq(LI!Nodes) /\ GoodList(g, k, F[k])
      BY <1>1 DEF Chains, Placed
    <2>2. \A j \in 1 .. Len(F[k]) : F[k][j] \in LI!Nodes /\ O[F[k][j]] = OnList(k)
      BY LIPlaces
    <2>3. \A i \in D : OnList(k) # OnList(i)
      BY LIApart
    <2>4. /\ G[k] = F[k] /\ m.first[k] = g.first[k]
          /\ m.last[k] = g.last[k] /\ m.count[k] = g.count[k]
      BY DEF Replaces, Listed, Links, Owned
    <2>5. \A j \in 1 .. Len(F[k]) : m.next[F[k][j]] = g.next[F[k][j]] /\ m.prev[F[k][j]] = g.prev[F[k][j]]
      BY <2>2, <2>3 DEF Replaces, Listed, Links, Owned
    <2> QED
      BY <2>1, <2>4, <2>5, LIListFrame
  <1>3. \A k \in li_Lists : GoodCache(m, k, C[k])
    <2> TAKE k \in li_Lists
    <2>1. C[k] \in Seq(LI!Nodes) /\ GoodCache(g, k, C[k])
      BY <1>1, Zenon DEF Chains, Placed
    <2>2. \A j \in 1 .. Len(C[k]) : C[k][j] \in LI!Nodes /\ O[C[k][j]] = InCache(k)
      BY LIPlaces
    <2>3. \A i \in D : InCache(k) # OnList(i)
      BY LIApart
    <2>4. \A j \in 1 .. Len(C[k]) : m.next[C[k][j]] = g.next[C[k][j]]
      BY <2>2, <2>3 DEF Replaces, Listed, Links, Owned
    <2>5. m.head[k] = g.head[k] /\ m.used[k] = g.used[k]
      BY DEF Replaces, Listed, Links, Owned
    <2> QED
      BY <2>1, <2>4, <2>5, LICacheFrame
  <1>4. \A k \in li_Lists, x \in LI!Nodes : (In(x, G[k]) <=> w[x] = OnList(k)) /\ (In(x, C[k]) <=> w[x] = InCache(k))
    BY <1>1 DEF Placed, Replaces, Owned
  <1>5. m \in LIHeap /\ LIKnown(w) /\ w = [x \in LI!Nodes |-> w[x]] /\ \A x \in LI!Nodes : x \in m.live <=> w[x] # Free
    BY DEF Replaces, Listed, Links, Owned
  <1> QED
    BY <1>1, <1>2, <1>3, <1>4, <1>5 DEF Good, Placed

LEMMA LIOn ==
  ASSUME NEW s \in Seq(LI!Nodes), NEW x
  PROVE  x \in LI!On(s) <=> In(x, s)
  BY DEF LI!On, In

LEMMA LIEmpty ==
  /\ <<>> \in Seq(LI!Nodes) /\ Len(<<>>) = 0 /\ Once(<<>>) /\ Front(<<>>) = LI!NULL
  /\ End(<<>>) = LI!NULL
  /\ \A x : ~In(x, <<>>)
  /\ \A f : Linked(f, <<>>) /\ LinkedBack(f, <<>>)
  BY DEF Once, Front, End, In, Linked, LinkedBack

LEMMA LIRemoveAll ==
  ASSUME NEW g, NEW F, NEW C, NEW O, Good(g, F, C, O), NoneHeld(O), NEW l \in li_Lists
  PROVE  Becomes(g, LI!RemoveAll(g, l), F, l, <<>>)
  <1>1. PICK s, m, W : s = F[l] /\ m = LI!RemoveAll(g, l) /\ W = LI!On(s)
    OBVIOUS
  <1>2. g \in LIHeap /\ F \in Chains /\ s \in Seq(LI!Nodes) /\ GoodList(g, l, s)
    BY <1>1 DEF Good, Placed, Chains
  <1>3. \A x \in LI!Nodes : x \in W <=> O[x] = OnList(l)
    BY <1>1, <1>2, LIOn DEF Good, Placed
  <1>4. LI!Forward(g, l) = s
    BY <1>1, LIWalks
  <1>5. /\ g.next \in [LI!Nodes -> Ends] /\ g.prev \in [LI!Nodes -> Ends]
        /\ g.data \in [LI!Nodes -> li_Objects \cup {LI!None}] /\ g.live \subseteq LI!Nodes
        /\ g.first \in [li_Lists -> Ends] /\ g.last \in [li_Lists -> Ends]
        /\ g.count \in [li_Lists -> Int]
        /\ g.head \in [li_Lists -> Ends] /\ g.used \in [li_Lists -> Int]
        /\ g = [next |-> g.next, prev |-> g.prev, data |-> g.data, live |-> g.live,
                first |-> g.first, last |-> g.last, count |-> g.count,
                head |-> g.head, used |-> g.used]
    BY <1>2, LIHeapTypes
  <1> DEFINE next == [n \in LI!Nodes |-> IF n \in W THEN LI!NULL ELSE g.next[n]]
             prev == [n \in LI!Nodes |-> IF n \in W THEN LI!NULL ELSE g.prev[n]]
             data == [n \in LI!Nodes |-> IF n \in W THEN LI!None ELSE g.data[n]]
             live == g.live \ W
             first == [g.first EXCEPT ![l] = LI!NULL]
             last == [g.last EXCEPT ![l] = LI!NULL]
             count == [g.count EXCEPT ![l] = 0]
  <1>6. m = HeapOf(next, prev, data, live, first, last, count, g.head, g.used)
    BY <1>1, <1>4, <1>5 DEF LI!RemoveAll, HeapOf
  <1>7. /\ next \in [LI!Nodes -> Ends] /\ prev \in [LI!Nodes -> Ends]
        /\ data \in [LI!Nodes -> li_Objects \cup {LI!None}]
        /\ \A x \in LI!Nodes : x \notin W => next[x] = g.next[x] /\ prev[x] = g.prev[x] /\ data[x] = g.data[x]
    BY <1>5 DEF Ends
  <1>8. /\ live \subseteq LI!Nodes /\ first \in [li_Lists -> Ends]
        /\ last \in [li_Lists -> Ends] /\ count \in [li_Lists -> Int]
        /\ first[l] = LI!NULL /\ last[l] = LI!NULL /\ count[l] = 0
        /\ \A k \in li_Lists : k # l => first[k] = g.first[k] /\ last[k] = g.last[k] /\ count[k] = g.count[k]
        /\ \A x : x \in live <=> x \in g.live /\ x \notin W
    BY <1>5 DEF Ends
  <1> HIDE DEF next, prev, data, live, first, last, count
  <1>9. /\ m \in LIHeap
        /\ m.next = next /\ m.prev = prev /\ m.data = data /\ m.live = live
        /\ m.first = first /\ m.last = last /\ m.count = count
        /\ m.head = g.head /\ m.used = g.used
    BY <1>5, <1>6, <1>7, <1>8, LIHeapMade
  <1>10. PICK t, G, w : t = <<>> /\ G = Put(F, l, t)
         /\ w = [x \in LI!Nodes |-> IF x \in W THEN Free ELSE O[x]]
    OBVIOUS
  <1>11. G \in Chains /\ G[l] = <<>> /\ \A k \in li_Lists : k # l => G[k] = F[k]
    <2>1. t \in Seq(LI!Nodes)
      BY <1>10, LIEmpty
    <2>2. G = Put(F, l, t)
      BY <1>10
    <2>3. G \in Chains /\ G[l] = t /\ \A k \in li_Lists : k # l => G[k] = F[k]
      BY <1>2, <2>1, <2>2, LIChange
    <2> QED
      BY <1>10, <2>3
  <1>12. GoodList(m, l, <<>>)
    BY <1>8, <1>9, LIEmpty DEF GoodList
  <1>13. LIKnown(w) /\ w = [x \in LI!Nodes |-> w[x]]
         /\ \A x \in LI!Nodes : w[x] = IF x \in W THEN Free ELSE O[x]
    BY <1>10, LIPlacesOf DEF Good, LIKnown
  <1>14. \A k \in li_Lists, x \in LI!Nodes : /\ In(x, G[k]) <=> w[x] = OnList(k)
                                             /\ w[x] = InCache(k) <=> O[x] = InCache(k)
    <2> SUFFICES ASSUME NEW k \in li_Lists, NEW x \in LI!Nodes
                 PROVE  (In(x, G[k]) <=> w[x] = OnList(k)) /\ (w[x] = InCache(k) <=> O[x] = InCache(k))
      OBVIOUS
    <2>1. In(x, F[k]) <=> O[x] = OnList(k)
      BY DEF Good, Placed
    <2>2. CASE x \in W
      BY <1>3, <1>11, <1>13, <2>1, <2>2, LIApart, LIEmpty
    <2>3. CASE x \notin W
      BY <1>3, <1>11, <1>13, <2>1, <2>3, LIApart, LIEmpty
    <2> QED
      BY <2>2, <2>3
  <1>15. \A x \in LI!Nodes : x \in m.live <=> w[x] # Free
    BY <1>8, <1>9, <1>13 DEF Good, Placed
  <1>16. Replaces(g, m, F, G, O, w, {l})
    <2>1. Listed(g, m, F, G, {l})
      <3>a. GoodList(m, l, G[l])
        BY <1>11, <1>12
      <3>1. \A k \in {l} : GoodList(m, k, G[k])
        BY <3>a
      <3>2. \A k \in li_Lists : k \notin {l} => /\ G[k] = F[k] /\ m.first[k] = g.first[k]
                                               /\ m.last[k] = g.last[k]
                                               /\ m.count[k] = g.count[k]
        BY <1>8, <1>9, <1>11
      <3> QED
        BY <3>1, <3>2 DEF Listed
    <2>2. Links(g, m, O, {l})
      BY <1>3, <1>7, <1>9 DEF Links
    <2>3. Owned(m, G, O, w)
      BY <1>13, <1>14, <1>15 DEF Owned
    <2> QED
      BY <1>9, <2>1, <2>2, <2>3 DEF Replaces
  <1>17. Good(m, G, C, w)
    BY <1>11, <1>16, LIReplace
  <1>18. NoneHeld(w)
    BY <1>13, LIApart DEF NoneHeld
  <1>19. View(m, G) = Put(View(g, F), l, <<>>)
    <2>1. View(m, G)[l] = <<>>
      BY <1>11, LIEmpty DEF View
    <2>2. \A k \in li_Lists : k # l => View(m, G)[k] = View(g, F)[k]
      <3> SUFFICES ASSUME NEW k \in li_Lists, k # l PROVE View(m, G)[k] = View(g, F)[k]
        OBVIOUS
      <3>1. \A j \in 1 .. Len(F[k]) : F[k][j] \in LI!Nodes /\ O[F[k][j]] = OnList(k)
        BY LIPlaces
      <3>2. \A j \in 1 .. Len(F[k]) : m.data[F[k][j]] = g.data[F[k][j]]
        BY <1>3, <1>7, <1>9, <3>1, LIApart
      <3> QED
        BY <1>11, <3>2 DEF View
    <2>3. PICK V, W2, v : V = View(g, F) /\ W2 = View(m, G) /\ v = <<>>
      OBVIOUS
    <2>4. /\ V = [k \in li_Lists |-> V[k]] /\ W2 = [k \in li_Lists |-> W2[k]]
      BY <2>3 DEF View
    <2>5. W2[l] = v
      BY <2>1, <2>3, Zenon
    <2>6. \A k \in li_Lists : k # l => W2[k] = V[k]
      <3> SUFFICES ASSUME NEW k \in li_Lists, k # l PROVE W2[k] = V[k]
        OBVIOUS
      <3>1. View(m, G)[k] = View(g, F)[k]
        BY <2>2
      <3> QED
        BY <2>3, <3>1, Zenon
    <2>7. W2 = Put(V, l, v)
      BY <2>4, <2>5, <2>6, LIPutIs
    <2> QED
      BY <2>3, <2>7, Zenon
  <1>20. Becomes(g, m, F, l, <<>>)
    BY <1>17, <1>18, <1>19, Zenon DEF Becomes
  <1> QED
    BY <1>1, <1>20

LEMMA LIReverseList ==
  ASSUME NEW g, NEW F, NEW C, NEW O, Good(g, F, C, O), NoneHeld(O), NEW l \in li_Lists
  PROVE  Becomes(g, LI!ReverseList(g, l), F, l, LI!S!Reversed(View(g, F)[l]))
  <1>1. PICK s, m, W : s = F[l] /\ m = LI!ReverseList(g, l) /\ W = LI!On(s)
    OBVIOUS
  <1>2. g \in LIHeap /\ F \in Chains /\ s \in Seq(LI!Nodes) /\ GoodList(g, l, s)
    BY <1>1 DEF Good, Placed, Chains
  <1>3. \A x \in LI!Nodes : x \in W <=> O[x] = OnList(l)
    BY <1>1, <1>2, LIOn DEF Good, Placed
  <1>4. LI!Forward(g, l) = s
    BY <1>1, LIWalks
  <1>5. /\ g.next \in [LI!Nodes -> Ends] /\ g.prev \in [LI!Nodes -> Ends]
        /\ g.data \in [LI!Nodes -> li_Objects \cup {LI!None}] /\ g.live \subseteq LI!Nodes
        /\ g.first \in [li_Lists -> Ends] /\ g.last \in [li_Lists -> Ends]
        /\ g.count \in [li_Lists -> Int]
        /\ g.head \in [li_Lists -> Ends] /\ g.used \in [li_Lists -> Int]
        /\ g = [next |-> g.next, prev |-> g.prev, data |-> g.data, live |-> g.live,
                first |-> g.first, last |-> g.last, count |-> g.count,
                head |-> g.head, used |-> g.used]
    BY <1>2, LIHeapTypes
  <1> DEFINE next == [n \in LI!Nodes |-> IF n \in W THEN g.prev[n] ELSE g.next[n]]
             prev == [n \in LI!Nodes |-> IF n \in W THEN g.next[n] ELSE g.prev[n]]
             first == [g.first EXCEPT ![l] = g.last[l]]
             last == [g.last EXCEPT ![l] = g.first[l]]
  <1>6. m = HeapOf(next, prev, g.data, g.live, first, last, g.count, g.head, g.used)
    BY <1>1, <1>4, <1>5 DEF LI!ReverseList, LI!Flipped, HeapOf
  <1>7. /\ next \in [LI!Nodes -> Ends] /\ prev \in [LI!Nodes -> Ends]
        /\ \A x \in LI!Nodes : x \notin W => next[x] = g.next[x] /\ prev[x] = g.prev[x]
        /\ \A x \in LI!Nodes : x \in W => next[x] = g.prev[x] /\ prev[x] = g.next[x]
    BY <1>5
  <1>8. /\ first \in [li_Lists -> Ends] /\ last \in [li_Lists -> Ends]
        /\ first[l] = g.last[l] /\ last[l] = g.first[l]
        /\ \A k \in li_Lists : k # l => first[k] = g.first[k] /\ last[k] = g.last[k]
    BY <1>5
  <1> HIDE DEF next, prev, first, last
  <1>9. /\ m \in LIHeap
        /\ m.next = next /\ m.prev = prev /\ m.data = g.data /\ m.live = g.live
        /\ m.first = first /\ m.last = last /\ m.count = g.count
        /\ m.head = g.head /\ m.used = g.used
    BY <1>5, <1>6, <1>7, <1>8, LIHeapMade
  <1>10. PICK t, G : t = LI!S!Reversed(s) /\ G = Put(F, l, t)
    OBVIOUS
  <1>11. \A i \in 1 .. Len(s) : s[i] \in LI!Nodes /\ s[i] \in W
    <2>1. \A i \in 1 .. Len(s) : s[i] \in LI!Nodes
      BY <1>2
    <2> QED
      BY <1>1, <2>1 DEF LI!On
  <1>12. Linked(prev, s) /\ LinkedBack(next, s) /\ Once(s)
    <2>1. Linked(g.next, s) /\ LinkedBack(g.prev, s) /\ Once(s)
      BY <1>2 DEF GoodList
    <2>2. \A i \in 1 .. Len(s) : next[s[i]] = g.prev[s[i]] /\ prev[s[i]] = g.next[s[i]]
      BY <1>7, <1>11
    <2> QED
      BY <2>1, <2>2 DEF Linked, LinkedBack
  <1>13. /\ t \in Seq(LI!Nodes) /\ Len(t) = Len(s) /\ Once(t) /\ Linked(next, t)
         /\ LinkedBack(prev, t)
         /\ Front(t) = End(s) /\ End(t) = Front(s)
         /\ \A x : In(x, t) <=> In(x, s)
    BY <1>2, <1>10, <1>12, LIBackwards
  <1>14. G \in Chains /\ G[l] = t /\ \A k \in li_Lists : k # l => G[k] = F[k]
    BY <1>2, <1>10, <1>13, LIChange
  <1>15. GoodList(m, l, t)
    <2>1. g.first[l] = Front(s) /\ g.last[l] = End(s) /\ g.count[l] = Len(s)
      BY <1>2 DEF GoodList
    <2> QED
      BY <1>8, <1>9, <1>13, <2>1 DEF GoodList
  <1>16. Replaces(g, m, F, G, O, O, {l})
    <2>1. Listed(g, m, F, G, {l})
      <3>a. GoodList(m, l, G[l])
        BY <1>14, <1>15
      <3>1. \A k \in {l} : GoodList(m, k, G[k])
        BY <3>a
      <3>2. \A k \in li_Lists : k \notin {l} => /\ G[k] = F[k] /\ m.first[k] = g.first[k]
                                               /\ m.last[k] = g.last[k]
                                               /\ m.count[k] = g.count[k]
        BY <1>8, <1>9, <1>14
      <3> QED
        BY <3>1, <3>2 DEF Listed
    <2>2. Links(g, m, O, {l})
      BY <1>3, <1>7, <1>9 DEF Links
    <2>3. \A k \in li_Lists, x \in LI!Nodes : In(x, G[k]) <=> O[x] = OnList(k)
      BY <1>1, <1>13, <1>14 DEF Good, Placed
    <2>4. Owned(m, G, O, O)
      BY <1>9, <2>3 DEF Owned, Good, Placed
    <2> QED
      BY <1>9, <2>1, <2>2, <2>4 DEF Replaces
  <1>17. Good(m, G, C, O)
    BY <1>14, <1>16, LIReplace
  <1>18. View(m, G) = Put(View(g, F), l, LI!S!Reversed(View(g, F)[l]))
    <2>1. \A k \in li_Lists : k # l => View(m, G)[k] = View(g, F)[k]
      BY <1>9, <1>14 DEF View
    <2>2. PICK v, u, y : v = View(g, F)[l] /\ u = View(m, G)[l] /\ y = LI!S!Reversed(v)
      OBVIOUS
    <2>3. g.data \in [LI!Nodes -> LIData] /\ m.data = g.data
      BY <1>5, <1>9 DEF LIData
    <2>4. Len(v) = Len(s) /\ v \in Seq(LIData) /\ \A i \in 1 .. Len(s) : v[i] = g.data[s[i]]
      BY <1>1, <1>2, <2>2, <2>3, LIView
    <2>5. Len(u) = Len(s) /\ u \in Seq(LIData) /\ \A i \in 1 .. Len(s) : u[i] = g.data[t[i]]
      <3>1. m.data \in [LI!Nodes -> LIData]
        BY <2>3
      <3>2. Len(u) = Len(G[l]) /\ u \in Seq(LIData)
            /\ \A i \in 1 .. Len(G[l]) : u[i] = m.data[G[l][i]]
        BY <1>14, <2>2, <3>1, LIView
      <3> QED
        BY <1>13, <1>14, <2>3, <3>2
    <2>6. y \in Seq(LIData) /\ Len(y) = Len(v)
          /\ \A j \in 1 .. Len(y) : y[j] = v[Len(v) + 1 - j]
      <3>1. v \in Seq(LIData) /\ y = LI!S!Reversed(v)
        BY <2>2, <2>4
      <3> QED
        BY <3>1, LIReversed
    <2>7. \A j \in 1 .. Len(t) : t[j] = s[Len(s) + 1 - j]
      BY <1>2, <1>10, LIReversed
    <2>8. \A j \in 1 .. Len(u) : u[j] = y[j]
      <3> TAKE j \in 1 .. Len(u)
      <3>1. Len(s) \in Nat /\ j \in 1 .. Len(s)
        BY <1>2, <2>5
      <3>2. PICK b : b = Len(s) + 1 - j
        OBVIOUS
      <3>3. b \in 1 .. Len(s)
        BY <3>1, <3>2
      <3>4. u[j] = g.data[t[j]] /\ t[j] = s[b]
        BY <1>13, <2>5, <2>7, <3>1, <3>2
      <3>5. y[j] = v[b]
        BY <2>4, <2>6, <3>1, <3>2
      <3> QED
        BY <2>4, <3>3, <3>4, <3>5
    <2>9. u = y
      BY <2>4, <2>5, <2>6, <2>8, LIEqual
    <2>10. View(m, G)[l] = LI!S!Reversed(View(g, F)[l])
      BY <2>2, <2>9
    <2> QED
      BY <2>1, <2>10, LIViewIs
  <1> QED
    BY <1>1, <1>17, <1>18 DEF Becomes

(***************************************************************************)
(* A list cut in two, and its pieces joined with another list.             *)
(***************************************************************************)
Piece(g, s) ==
  Once(s) /\ \A j \in 1 .. Len(s) : /\ j # Len(s) => g.next[s[j]] = s[j + 1]
                                    /\ j # 1 => g.prev[s[j]] = s[j - 1]

Disjoint(s, t) == \A x : ~(In(x, s) /\ In(x, t))

(* The ends of a chain.                                                    *)
LEMMA LIFrontEnd ==
  ASSUME NEW s \in Seq(LI!Nodes)
  PROVE  /\ Len(s) \in Nat /\ Front(s) \in Ends /\ End(s) \in Ends
         /\ Len(s) # 0 => /\ 1 \in 1 .. Len(s) /\ Len(s) \in 1 .. Len(s)
                          /\ Front(s) = s[1] /\ End(s) = s[Len(s)]
                          /\ Front(s) \in LI!Nodes /\ End(s) \in LI!Nodes
                          /\ In(Front(s), s) /\ In(End(s), s)
         /\ Len(s) = 0 => Front(s) = LI!NULL /\ End(s) = LI!NULL
         /\ \A j \in 1 .. Len(s) : s[j] \in LI!Nodes /\ s[j] # LI!NULL /\ In(s[j], s)
  <1>1. Len(s) \in Nat /\ \A j \in 1 .. Len(s) : s[j] \in LI!Nodes
    OBVIOUS
  <1>2. \A j \in 1 .. Len(s) : s[j] # LI!NULL /\ In(s[j], s)
    BY <1>1, LINodes DEF In
  <1> QED
    BY <1>1, <1>2 DEF Front, End, Ends

LEMMA LIPieceOf ==
  ASSUME NEW g, NEW l, NEW s \in Seq(LI!Nodes), GoodList(g, l, s)
  PROVE  /\ Piece(g, s)
         /\ Len(s) # 0 => g.next[End(s)] = LI!NULL /\ g.prev[Front(s)] = LI!NULL
  <1>1. Once(s) /\ Linked(g.next, s) /\ LinkedBack(g.prev, s)
    BY DEF GoodList
  <1>2. Piece(g, s)
    BY <1>1 DEF Piece, Linked, LinkedBack, After, Before
  <1>3. Len(s) # 0 => g.next[End(s)] = LI!NULL /\ g.prev[Front(s)] = LI!NULL
    BY <1>1, LIFrontEnd DEF Linked, LinkedBack, After, Before
  <1> QED
    BY <1>2, <1>3

LEMMA LIPieceWhole ==
  ASSUME NEW g, NEW s \in Seq(LI!Nodes), Piece(g, s),
         Len(s) # 0 => g.next[End(s)] = LI!NULL /\ g.prev[Front(s)] = LI!NULL
  PROVE  Once(s) /\ Linked(g.next, s) /\ LinkedBack(g.prev, s)
  <1>1. ASSUME NEW j \in 1 .. Len(s) PROVE g.next[s[j]] = After(s, j)
        /\ g.prev[s[j]] = Before(s, j)
    <2>1. Len(s) # 0 /\ Len(s) \in Nat
      OBVIOUS
    <2>2. g.next[s[Len(s)]] = LI!NULL /\ g.prev[s[1]] = LI!NULL
      BY <2>1, LIFrontEnd
    <2> QED
      BY <2>2 DEF Piece, After, Before
  <1> QED
    BY <1>1 DEF Piece, Linked, LinkedBack

LEMMA LIPieceKept ==
  ASSUME NEW g, NEW m, NEW s \in Seq(LI!Nodes), Piece(g, s),
         \A x : In(x, s) /\ x # End(s) => m.next[x] = g.next[x],
         \A x : In(x, s) /\ x # Front(s) => m.prev[x] = g.prev[x]
  PROVE  Piece(m, s)
  <1> SUFFICES ASSUME NEW j \in 1 .. Len(s)
               PROVE  /\ j # Len(s) => m.next[s[j]] = s[j + 1]
                      /\ j # 1 => m.prev[s[j]] = s[j - 1]
    BY DEF Piece
  <1>1. Len(s) # 0 /\ In(s[j], s)
    BY LIFrontEnd
  <1>2. End(s) = s[Len(s)] /\ Front(s) = s[1] /\ 1 \in 1 .. Len(s) /\ Len(s) \in 1 .. Len(s)
    BY <1>1, LIFrontEnd
  <1>3. (j # Len(s) => s[j] # End(s)) /\ (j # 1 => s[j] # Front(s))
    BY <1>2 DEF Piece, Once
  <1> QED
    BY <1>1, <1>3 DEF Piece

(* Two sequences joined.                                                   *)
LEMMA LIJoin ==
  ASSUME NEW A, NEW a \in Seq(A), NEW b \in Seq(A), NEW c, c = a \o b
  PROVE  /\ c \in Seq(A) /\ Len(c) = Len(a) + Len(b) /\ Len(a) \in Nat /\ Len(b) \in Nat
         /\ \A j \in 1 .. Len(a) : j \in 1 .. Len(c) /\ c[j] = a[j]
         /\ \A j \in 1 .. Len(b) : Len(a) + j \in 1 .. Len(c) /\ c[Len(a) + j] = b[j]
         /\ \A j \in 1 .. Len(c) : c[j] = IF j <= Len(a) THEN a[j] ELSE b[j - Len(a)]
         /\ \A x : In(x, c) <=> In(x, a) \/ In(x, b)
  <1>1. /\ c \in Seq(A) /\ Len(c) = Len(a) + Len(b) /\ Len(a) \in Nat /\ Len(b) \in Nat
        /\ \A j \in 1 .. Len(c) : c[j] = IF j <= Len(a) THEN a[j] ELSE b[j - Len(a)]
    OBVIOUS
  <1>2. \A j \in 1 .. Len(a) : j \in 1 .. Len(c) /\ c[j] = a[j]
    BY <1>1
  <1>3. \A j \in 1 .. Len(b) : Len(a) + j \in 1 .. Len(c) /\ c[Len(a) + j] = b[j]
    BY <1>1
  <1>4. \A x : In(x, c) <=> In(x, a) \/ In(x, b)
    <2> TAKE x
    <2>1. ASSUME In(x, c) PROVE In(x, a) \/ In(x, b)
      <3>1. PICK j \in 1 .. Len(c) : c[j] = x
        BY <2>1 DEF In
      <3>2. CASE j <= Len(a)
        BY <1>1, <3>1, <3>2 DEF In
      <3>3. CASE ~(j <= Len(a))
        <4>1. j - Len(a) \in 1 .. Len(b)
          BY <1>1, <3>3
        <4> QED
          BY <1>1, <3>1, <3>3, <4>1 DEF In
      <3> QED
        BY <3>2, <3>3
    <2>2. ASSUME In(x, a) \/ In(x, b) PROVE In(x, c)
      BY <1>2, <1>3, <2>2 DEF In
    <2> QED
      BY <2>1, <2>2
  <1> QED
    BY <1>1, <1>2, <1>3, <1>4

LEMMA LIJoinEnds ==
  ASSUME NEW a \in Seq(LI!Nodes), NEW b \in Seq(LI!Nodes), NEW c, c = a \o b
  PROVE  /\ Front(c) = IF Len(a) = 0 THEN Front(b) ELSE Front(a)
         /\ End(c) = IF Len(b) = 0 THEN End(a) ELSE End(b)
  <1>1. /\ c \in Seq(LI!Nodes) /\ Len(c) = Len(a) + Len(b) /\ Len(a) \in Nat
        /\ Len(b) \in Nat
        /\ \A j \in 1 .. Len(c) : c[j] = IF j <= Len(a) THEN a[j] ELSE b[j - Len(a)]
    BY LIJoin
  <1>2. Front(c) = IF Len(a) = 0 THEN Front(b) ELSE Front(a)
    BY <1>1 DEF Front
  <1>3. End(c) = IF Len(b) = 0 THEN End(a) ELSE End(b)
    BY <1>1 DEF End
  <1> QED
    BY <1>2, <1>3

LEMMA LIPieceJoin ==
  ASSUME NEW g, NEW a \in Seq(LI!Nodes), NEW b \in Seq(LI!Nodes), Piece(g, a), Piece(g, b), Disjoint(a, b),
         Len(a) # 0 => g.next[End(a)] = Front(b), Len(b) # 0 => g.prev[Front(b)] = End(a),
         NEW c, c = a \o b
  PROVE  Piece(g, c)
  <1>1. /\ c \in Seq(LI!Nodes) /\ Len(c) = Len(a) + Len(b) /\ Len(a) \in Nat
        /\ Len(b) \in Nat
        /\ \A j \in 1 .. Len(c) : c[j] = IF j <= Len(a) THEN a[j] ELSE b[j - Len(a)]
    BY LIJoin
  <1>2. \A i \in 1 .. Len(a), j \in 1 .. Len(b) : a[i] # b[j]
    BY DEF Disjoint, In
  <1>3. Once(c)
    <2> SUFFICES ASSUME NEW i \in 1 .. Len(c), NEW j \in 1 .. Len(c), c[i] = c[j] PROVE i = j
      BY DEF Once
    <2>1. Once(a) /\ Once(b)
      BY DEF Piece
    <2>2. CASE i <= Len(a) /\ j <= Len(a)
      BY <1>1, <2>1, <2>2 DEF Once
    <2>3. CASE ~(i <= Len(a)) /\ ~(j <= Len(a))
      <3>1. PICK u, v : u = i - Len(a) /\ v = j - Len(a)
        OBVIOUS
      <3>2. u \in 1 .. Len(b) /\ v \in 1 .. Len(b) /\ b[u] = b[v]
        BY <1>1, <2>3, <3>1
      <3>3. u = v
        BY <2>1, <3>2 DEF Once
      <3> QED
        BY <1>1, <3>1, <3>3
    <2>4. CASE i <= Len(a) /\ ~(j <= Len(a))
      <3>1. i \in 1 .. Len(a) /\ j - Len(a) \in 1 .. Len(b) /\ a[i] = b[j - Len(a)]
        BY <1>1, <2>4
      <3> QED
        BY <1>2, <3>1
    <2>5. CASE ~(i <= Len(a)) /\ j <= Len(a)
      <3>1. j \in 1 .. Len(a) /\ i - Len(a) \in 1 .. Len(b) /\ a[j] = b[i - Len(a)]
        BY <1>1, <2>5
      <3> QED
        BY <1>2, <3>1
    <2> QED
      BY <2>2, <2>3, <2>4, <2>5
  <1>4. ASSUME NEW j \in 1 .. Len(c), j # Len(c) PROVE g.next[c[j]] = c[j + 1]
    <2>1. j + 1 \in 1 .. Len(c)
      BY <1>1, <1>4
    <2>2. CASE j < Len(a)
      <3>1. j \in 1 .. Len(a) /\ j # Len(a) /\ c[j] = a[j] /\ c[j + 1] = a[j + 1]
        BY <1>1, <2>1, <2>2
      <3> QED
        BY <3>1 DEF Piece
    <2>3. CASE j = Len(a)
      <3>1. Len(a) # 0 /\ Len(b) # 0 /\ c[j] = a[Len(a)] /\ c[j + 1] = b[1]
        BY <1>1, <1>4, <2>1, <2>3
      <3> QED
        BY <3>1, LIFrontEnd
    <2>4. CASE j > Len(a)
      <3>1. PICK u : u = j - Len(a)
        OBVIOUS
      <3>2. u \in 1 .. Len(b) /\ u # Len(b) /\ c[j] = b[u] /\ c[j + 1] = b[u + 1]
        <4>1. j + 1 - Len(a) = u + 1
          BY <1>1, <3>1
        <4> QED
          BY <1>1, <1>4, <2>1, <2>4, <3>1, <4>1
      <3> QED
        BY <3>2 DEF Piece
    <2>5. j < Len(a) \/ j = Len(a) \/ j > Len(a)
      BY <1>1
    <2> QED
      BY <2>2, <2>3, <2>4, <2>5
  <1>5. ASSUME NEW j \in 1 .. Len(c), j # 1 PROVE g.prev[c[j]] = c[j - 1]
    <2>1. j - 1 \in 1 .. Len(c)
      BY <1>1, <1>5
    <2>2. CASE j <= Len(a)
      <3>1. j \in 1 .. Len(a) /\ c[j] = a[j] /\ c[j - 1] = a[j - 1]
        BY <1>1, <2>1, <2>2
      <3> QED
        BY <1>5, <3>1 DEF Piece
    <2>3. CASE j = Len(a) + 1
      <3>1. Len(a) # 0 /\ Len(b) # 0 /\ c[j] = b[1] /\ c[j - 1] = a[Len(a)]
        BY <1>1, <1>5, <2>1, <2>3
      <3> QED
        BY <3>1, LIFrontEnd
    <2>4. CASE j > Len(a) + 1
      <3>1. PICK u : u = j - Len(a)
        OBVIOUS
      <3>2. u \in 1 .. Len(b) /\ u # 1 /\ c[j] = b[u] /\ c[j - 1] = b[u - 1]
        <4>1. j - 1 - Len(a) = u - 1
          BY <1>1, <3>1
        <4>2. u \in 1 .. Len(b) /\ u # 1
          BY <1>1, <1>5, <2>1, <2>4, <3>1
        <4>3. PICK e : e = j - 1
          OBVIOUS
        <4>4. e \in 1 .. Len(c) /\ ~(e <= Len(a)) /\ ~(j <= Len(a)) /\ e - Len(a) = u - 1
          BY <1>1, <1>5, <2>1, <2>4, <4>1, <4>3
        <4> QED
          BY <1>5, <2>1, <3>1, <4>2, <4>3, <4>4
      <3> QED
        BY <3>2 DEF Piece
    <2>5. j <= Len(a) \/ j = Len(a) + 1 \/ j > Len(a) + 1
      BY <1>1
    <2> QED
      BY <2>2, <2>3, <2>4, <2>5
  <1> QED
    BY <1>3, <1>4, <1>5 DEF Piece

(* Heap m has list l cut down to y, and a and b, joined, in list k.        *)
Splices(g, m, l, k, a, b, y) ==
  /\ m \in LIHeap /\ m.data = g.data /\ m.live = g.live /\ m.head = g.head
  /\ m.used = g.used
  /\ \A x \in LI!Nodes : /\ x # End(a) /\ x # End(b) /\ x # End(y) => m.next[x] = g.next[x]
                         /\ x # Front(a) /\ x # Front(b) /\ x # Front(y) => m.prev[x] = g.prev[x]
  /\ Len(a) # 0 => m.next[End(a)] = Front(b) /\ m.prev[Front(a)] = LI!NULL
  /\ Len(b) # 0 => m.next[End(b)] = LI!NULL /\ m.prev[Front(b)] = End(a)
  /\ Len(y) # 0 => m.next[End(y)] = LI!NULL /\ m.prev[Front(y)] = LI!NULL
  /\ m.first[l] = Front(y) /\ m.last[l] = End(y) /\ m.count[l] = Len(y)
  /\ m.first[k] = IF Len(a) = 0 THEN Front(b) ELSE Front(a)
  /\ m.last[k] = IF Len(b) = 0 THEN End(a) ELSE End(b)
  /\ m.count[k] = Len(a) + Len(b)
  /\ \A i \in li_Lists : i # l /\ i # k => /\ m.first[i] = g.first[i]
                                           /\ m.last[i] = g.last[i]
                                           /\ m.count[i] = g.count[i]

(* The pieces of the lists s and u.                                        *)
Pieces(g, s, u, a, b, y) ==
  /\ Piece(g, a) /\ Piece(g, b) /\ Piece(g, y)
  /\ Disjoint(a, b) /\ Disjoint(a, y) /\ Disjoint(b, y)
  /\ \A x : In(x, s) \/ In(x, u) <=> In(x, a) \/ In(x, b) \/ In(x, y)

LEMMA LISpliced ==
  ASSUME NEW g, NEW m, NEW l, NEW k, NEW a \in Seq(LI!Nodes), NEW b \in Seq(LI!Nodes), NEW y \in Seq(LI!Nodes),
         NEW s, NEW u, Pieces(g, s, u, a, b, y), Splices(g, m, l, k, a, b, y), NEW c, c = a \o b
  PROVE  c \in Seq(LI!Nodes) /\ GoodList(m, l, y) /\ GoodList(m, k, c)
  <1>1. Piece(g, a) /\ Piece(g, b) /\ Piece(g, y) /\ Disjoint(a, b) /\ Disjoint(a, y)
        /\ Disjoint(b, y)
    BY DEF Pieces
  <1>2. /\ \A x : In(x, a) \/ In(x, b) \/ In(x, y) => x \in LI!Nodes /\ x # LI!NULL
        /\ \A s1 \in {a, b, y} : /\ Len(s1) # 0 => In(Front(s1), s1) /\ In(End(s1), s1)
                                 /\ Len(s1) = 0 => Front(s1) = LI!NULL /\ End(s1) = LI!NULL
    <2>1. \A s1 \in Seq(LI!Nodes) : /\ Len(s1) # 0 => In(Front(s1), s1) /\ In(End(s1), s1)
                                    /\ Len(s1) = 0 => Front(s1) = LI!NULL /\ End(s1) = LI!NULL
      BY LIFrontEnd
    <2>2. \A s1 \in Seq(LI!Nodes) : \A x : In(x, s1) => x \in LI!Nodes /\ x # LI!NULL
      BY LINodes DEF In
    <2> QED
      BY <2>1, <2>2
  <1>3. Piece(m, a)
    <2>1. \A x : In(x, a) /\ x # End(a) => x \in LI!Nodes /\ x # End(b) /\ x # End(y)
      BY <1>1, <1>2 DEF Disjoint
    <2>2. \A x : In(x, a) /\ x # Front(a) => x \in LI!Nodes /\ x # Front(b) /\ x # Front(y)
      BY <1>1, <1>2 DEF Disjoint
    <2>3. \A x : In(x, a) /\ x # End(a) => m.next[x] = g.next[x]
      BY <2>1 DEF Splices
    <2>4. \A x : In(x, a) /\ x # Front(a) => m.prev[x] = g.prev[x]
      BY <2>2 DEF Splices
    <2> QED
      BY <1>1, <2>3, <2>4, LIPieceKept
  <1>4. Piece(m, b)
    <2>1. \A x : In(x, b) /\ x # End(b) => x \in LI!Nodes /\ x # End(a) /\ x # End(y)
      BY <1>1, <1>2 DEF Disjoint
    <2>2. \A x : In(x, b) /\ x # Front(b) => x \in LI!Nodes /\ x # Front(a) /\ x # Front(y)
      BY <1>1, <1>2 DEF Disjoint
    <2>3. \A x : In(x, b) /\ x # End(b) => m.next[x] = g.next[x]
      BY <2>1 DEF Splices
    <2>4. \A x : In(x, b) /\ x # Front(b) => m.prev[x] = g.prev[x]
      BY <2>2 DEF Splices
    <2> QED
      BY <1>1, <2>3, <2>4, LIPieceKept
  <1>5. Piece(m, y)
    <2>1. \A x : In(x, y) /\ x # End(y) => x \in LI!Nodes /\ x # End(a) /\ x # End(b)
      BY <1>1, <1>2 DEF Disjoint
    <2>2. \A x : In(x, y) /\ x # Front(y) => x \in LI!Nodes /\ x # Front(a) /\ x # Front(b)
      BY <1>1, <1>2 DEF Disjoint
    <2>3. \A x : In(x, y) /\ x # End(y) => m.next[x] = g.next[x]
      BY <2>1 DEF Splices
    <2>4. \A x : In(x, y) /\ x # Front(y) => m.prev[x] = g.prev[x]
      BY <2>2 DEF Splices
    <2> QED
      BY <1>1, <2>3, <2>4, LIPieceKept
  <1>6. GoodList(m, l, y)
    <2>1. Once(y) /\ Linked(m.next, y) /\ LinkedBack(m.prev, y)
      BY <1>5, LIPieceWhole DEF Splices
    <2> QED
      BY <2>1 DEF GoodList, Splices
  <1>7. Piece(m, c)
    <2>1. /\ Len(a) # 0 => m.next[End(a)] = Front(b)
          /\ Len(b) # 0 => m.prev[Front(b)] = End(a)
      BY DEF Splices
    <2> QED
      BY <1>1, <1>3, <1>4, <2>1, LIPieceJoin
  <1>8. c \in Seq(LI!Nodes) /\ Len(c) = Len(a) + Len(b) /\ Len(a) \in Nat /\ Len(b) \in Nat
    BY LIJoin
  <1>9. /\ Front(c) = IF Len(a) = 0 THEN Front(b) ELSE Front(a)
        /\ End(c) = IF Len(b) = 0 THEN End(a) ELSE End(b)
    BY LIJoinEnds
  <1>10. Len(c) # 0 => m.next[End(c)] = LI!NULL /\ m.prev[Front(c)] = LI!NULL
    <2>1. CASE Len(a) = 0 /\ Len(b) # 0
      <3>1. End(a) = LI!NULL
        BY <1>2, <2>1
      <3> QED
        BY <1>9, <2>1, <3>1 DEF Splices
    <2>2. CASE Len(a) # 0 /\ Len(b) = 0
      <3>1. Front(b) = LI!NULL
        BY <1>2, <2>2
      <3> QED
        BY <1>9, <2>2, <3>1 DEF Splices
    <2>3. CASE Len(a) # 0 /\ Len(b) # 0
      BY <1>9, <2>3 DEF Splices
    <2> QED
      BY <1>8, <2>1, <2>2, <2>3
  <1>11. Once(c) /\ Linked(m.next, c) /\ LinkedBack(m.prev, c)
    BY <1>7, <1>8, <1>10, LIPieceWhole
  <1>12. m.first[k] = Front(c) /\ m.last[k] = End(c) /\ m.count[k] = Len(c)
    BY <1>8, <1>9 DEF Splices
  <1> QED
    BY <1>6, <1>8, <1>11, <1>12 DEF GoodList

NodeSeq == Seq(LI!Nodes)

(* Chains that are F but y for list l and c for list k.                    *)
IsPut(G, F, l, y, k, c) ==
  /\ G \in Chains /\ G[l] = y /\ G[k] = c
  /\ \A i \in li_Lists : i # l /\ i # k => G[i] = F[i]

LEMMA LIPutTwo ==
  ASSUME NEW F \in Chains, NEW l \in li_Lists, NEW k \in li_Lists, l # k, NEW y \in NodeSeq, NEW c \in NodeSeq
  PROVE  IsPut(Put(Put(F, l, y), k, c), F, l, y, k, c)
  <1>1. Chains = [li_Lists -> NodeSeq]
    BY DEF Chains, NodeSeq
  <1>2. PICK E : E = Put(F, l, y)
    OBVIOUS
  <1>3. E \in [li_Lists -> NodeSeq] /\ E[l] = y /\ \A i \in li_Lists : i # l => E[i] = F[i]
    BY <1>1, <1>2 DEF Put
  <1>4. PICK G : G = Put(E, k, c)
    OBVIOUS
  <1>5. G \in [li_Lists -> NodeSeq] /\ G[k] = c /\ \A i \in li_Lists : i # k => G[i] = E[i]
    BY <1>3, <1>4 DEF Put
  <1> QED
    BY <1>1, <1>2, <1>3, <1>4, <1>5 DEF IsPut

LEMMA LISplice ==
  ASSUME NEW g, NEW F, NEW C, NEW O, Good(g, F, C, O), NoneHeld(O),
         NEW l \in li_Lists, NEW k \in li_Lists, l # k, NEW m,
         NEW a \in NodeSeq, NEW b \in NodeSeq, NEW y \in NodeSeq,
         Pieces(g, F[l], F[k], a, b, y), Splices(g, m, l, k, a, b, y),
         NEW c, c = a \o b, NEW G, IsPut(G, F, l, y, k, c)
  PROVE  (\E w : Good(m, G, C, w) /\ NoneHeld(w)) /\ G \in Chains /\ m.data = g.data
  <1>1. c \in Seq(LI!Nodes) /\ GoodList(m, l, y) /\ GoodList(m, k, c)
    BY LISpliced DEF NodeSeq
  <1>2. F \in Chains
    BY DEF Good
  <1>3. /\ G \in Chains /\ G[l] = y /\ G[k] = c
        /\ \A i \in li_Lists : i # l /\ i # k => G[i] = F[i]
    BY DEF IsPut
  <1>5. PICK w : w = [x \in LI!Nodes |-> IF In(x, y) THEN OnList(l)
                                         ELSE IF In(x, c) THEN OnList(k) ELSE O[x]]
    OBVIOUS
  <1>6. /\ LIKnown(w) /\ w = [x \in LI!Nodes |-> w[x]]
        /\ \A x \in LI!Nodes : w[x] = IF In(x, y) THEN OnList(l) ELSE IF In(x, c) THEN OnList(k) ELSE O[x]
    BY <1>5, LIPlacesOf DEF Good, LIKnown
  <1>7. \A x : In(x, c) <=> In(x, a) \/ In(x, b)
    BY LIJoin DEF NodeSeq
  <1>8. \A x \in LI!Nodes : /\ ~(In(x, c) /\ In(x, y))
                            /\ In(x, c) \/ In(x, y) <=> O[x] = OnList(l) \/ O[x] = OnList(k)
    <2>1. \A x \in LI!Nodes : (In(x, F[l]) <=> O[x] = OnList(l)) /\ (In(x, F[k]) <=> O[x] = OnList(k))
      BY DEF Good, Placed
    <2> QED
      BY <1>7, <2>1 DEF Pieces, Disjoint
  <1>9. \A i \in li_Lists, x \in LI!Nodes : /\ In(x, G[i]) <=> w[x] = OnList(i)
                                            /\ w[x] = InCache(i) <=> O[x] = InCache(i)
    <2> SUFFICES ASSUME NEW i \in li_Lists, NEW x \in LI!Nodes
                 PROVE  (In(x, G[i]) <=> w[x] = OnList(i)) /\ (w[x] = InCache(i) <=> O[x] = InCache(i))
      OBVIOUS
    <2>1. In(x, F[i]) <=> O[x] = OnList(i)
      BY DEF Good, Placed
    <2>2. OnList(l) # OnList(k)
      BY LIApart
    <2>3. CASE i = l
      BY <1>3, <1>6, <1>8, <2>2, <2>3, LIApart
    <2>4. CASE i = k
      <3>1. G[i] = c
        BY <1>3, <2>4
      <3>2. w[x] = OnList(i) <=> In(x, c)
        BY <1>6, <1>8, <2>2, <2>4
      <3> QED
        BY <1>6, <1>8, <3>1, <3>2, LIApart
    <2>5. CASE i # l /\ i # k
      <3>1. G[i] = F[i] /\ OnList(i) # OnList(l) /\ OnList(i) # OnList(k)
        BY <1>3, <2>5, LIApart
      <3> QED
        BY <1>6, <1>8, <2>1, <3>1, LIApart
    <2> QED
      BY <2>3, <2>4, <2>5
  <1>10. \A x \in LI!Nodes : x \in m.live <=> w[x] # Free
    <2>1. \A x \in LI!Nodes : x \in m.live <=> O[x] # Free
      BY DEF Splices, Good, Placed
    <2> SUFFICES ASSUME NEW x \in LI!Nodes PROVE w[x] = Free <=> O[x] = Free
      BY <2>1
    <2>2. OnList(l) # Free /\ OnList(k) # Free
      BY LIApart
    <2>3. CASE In(x, y)
      BY <1>6, <1>8, <2>2, <2>3
    <2>4. CASE ~In(x, y) /\ In(x, c)
      BY <1>6, <1>8, <2>2, <2>4
    <2>5. CASE ~In(x, y) /\ ~In(x, c)
      BY <1>6, <2>5
    <2> QED
      BY <2>3, <2>4, <2>5
  <1>11. Replaces(g, m, F, G, O, w, {l, k})
    <2>1. Listed(g, m, F, G, {l, k})
      <3>1. \A i \in {l, k} : GoodList(m, i, G[i])
        BY <1>1, <1>3, Zenon
      <3>2. \A i \in li_Lists : i \notin {l, k} => /\ G[i] = F[i] /\ m.first[i] = g.first[i]
                                                   /\ m.last[i] = g.last[i]
                                                   /\ m.count[i] = g.count[i]
        BY <1>3 DEF Splices
      <3> QED
        BY <3>1, <3>2 DEF Listed
    <2>2. Links(g, m, O, {l, k})
      <3> SUFFICES ASSUME NEW x \in LI!Nodes, O[x] # OnList(l), O[x] # OnList(k)
                   PROVE  m.next[x] = g.next[x] /\ m.prev[x] = g.prev[x]
        BY DEF Links
      <3>1. ~In(x, a) /\ ~In(x, b) /\ ~In(x, y) /\ x # LI!NULL
        BY <1>7, <1>8, LINodes
      <3>2. /\ x # End(a) /\ x # End(b) /\ x # End(y)
            /\ x # Front(a) /\ x # Front(b) /\ x # Front(y)
        BY <3>1, LIFrontEnd DEF NodeSeq
      <3> QED
        BY <3>2 DEF Splices
    <2>3. Owned(m, G, O, w)
      BY <1>6, <1>9, <1>10 DEF Owned
    <2> QED
      BY <2>1, <2>2, <2>3 DEF Replaces, Splices
  <1>12. {l, k} \subseteq li_Lists
    OBVIOUS
  <1>13. Good(m, G, C, w)
    BY <1>3, <1>11, <1>12, LIReplace
  <1>14. NoneHeld(w)
    BY <1>6, LIApart DEF NoneHeld
  <1> QED
    BY <1>3, <1>13, <1>14 DEF Splices

(* The two parts of a list.                                                *)
LEMMA LISub ==
  ASSUME NEW A, NEW s \in Seq(A), NEW p \in Nat, NEW q \in Nat, 1 <= p, p <= q + 1, q <= Len(s),
         NEW t, t = SubSeq(s, p, q)
  PROVE  /\ t \in Seq(A) /\ Len(t) = q + 1 - p
         /\ \A j \in 1 .. Len(t) : p + j - 1 \in 1 .. Len(s) /\ t[j] = s[p + j - 1]
  <1>1. t \in Seq(A)
    OBVIOUS
  <1>2. Len(t) = q + 1 - p
    OBVIOUS
  <1>3. \A j \in 1 .. (q + 1 - p) : t[j] = s[p + j - 1]
    OBVIOUS
  <1>4. \A j \in 1 .. (q + 1 - p) : p + j - 1 \in 1 .. Len(s)
    OBVIOUS
  <1> QED
    BY <1>1, <1>2, <1>3, <1>4

(* Sequences f and r are s, cut after its i-th element.                    *)
Cut(s, i, f, r) ==
  /\ f \in Seq(LI!Nodes) /\ r \in Seq(LI!Nodes) /\ Len(f) = i /\ Len(r) = Len(s) - i
  /\ \A j \in 1 .. Len(f) : j \in 1 .. Len(s) /\ f[j] = s[j]
  /\ \A j \in 1 .. Len(r) : i + j \in 1 .. Len(s) /\ r[j] = s[i + j]

LEMMA LICutAt ==
  ASSUME NEW s \in Seq(LI!Nodes), NEW i \in 0 .. Len(s)
  PROVE  Cut(s, i, SubSeq(s, 1, i), SubSeq(s, i + 1, Len(s)))
  <1>1. PICK f, r : f = SubSeq(s, 1, i) /\ r = SubSeq(s, i + 1, Len(s))
    OBVIOUS
  <1>2. Len(s) \in Nat /\ i \in Nat /\ i + 1 \in Nat /\ i <= Len(s) /\ 1 <= i + 1
        /\ i + 1 <= Len(s) + 1
    OBVIOUS
  <1>3. /\ f \in Seq(LI!Nodes) /\ Len(f) = i + 1 - 1
        /\ \A j \in 1 .. Len(f) : 1 + j - 1 \in 1 .. Len(s) /\ f[j] = s[1 + j - 1]
    BY <1>1, <1>2, LISub
  <1>4. /\ r \in Seq(LI!Nodes) /\ Len(r) = Len(s) + 1 - (i + 1)
        /\ \A j \in 1 .. Len(r) : i + 1 + j - 1 \in 1 .. Len(s) /\ r[j] = s[i + 1 + j - 1]
    BY <1>1, <1>2, LISub
  <1>5. Len(f) = i /\ \A j \in 1 .. Len(f) : j \in 1 .. Len(s) /\ f[j] = s[j]
    <2>1. \A j \in 1 .. Len(f) : 1 + j - 1 = j
      BY <1>3
    <2> QED
      BY <1>2, <1>3, <2>1
  <1>6. Len(r) = Len(s) - i
        /\ \A j \in 1 .. Len(r) : i + j \in 1 .. Len(s) /\ r[j] = s[i + j]
    <2>1. \A j \in 1 .. Len(r) : i + 1 + j - 1 = i + j
      BY <1>2, <1>4
    <2> QED
      BY <1>2, <1>4, <2>1
  <1> QED
    BY <1>1, <1>3, <1>4, <1>5, <1>6 DEF Cut

LEMMA LICutPieces ==
  ASSUME NEW g, NEW s \in Seq(LI!Nodes), Piece(g, s), NEW i \in 0 .. Len(s), NEW f, NEW r, Cut(s, i, f, r)
  PROVE  /\ Piece(g, f) /\ Piece(g, r) /\ Disjoint(f, r)
         /\ \A x : In(x, s) <=> In(x, f) \/ In(x, r)
         /\ i # 0 => Front(f) = Front(s) /\ End(f) = s[i]
         /\ i # Len(s) => Front(r) = s[i + 1] /\ End(r) = End(s)
  <1>1. /\ f \in Seq(LI!Nodes) /\ r \in Seq(LI!Nodes) /\ Len(f) = i /\ Len(r) = Len(s) - i
        /\ Len(s) \in Nat /\ i \in Nat /\ i <= Len(s)
        /\ \A j \in 1 .. Len(f) : j \in 1 .. Len(s) /\ f[j] = s[j]
        /\ \A j \in 1 .. Len(r) : i + j \in 1 .. Len(s) /\ r[j] = s[i + j]
    <2>1. Len(s) \in Nat /\ i \in Nat /\ i <= Len(s)
      OBVIOUS
    <2> QED
      BY <2>1, Zenon DEF Cut
  <1>2. Once(s) /\ \A j \in 1 .. Len(s) : /\ j # Len(s) => g.next[s[j]] = s[j + 1]
                                          /\ j # 1 => g.prev[s[j]] = s[j - 1]
    BY DEF Piece
  <1>3. Piece(g, f)
    <2>1. Once(f)
      BY <1>1, <1>2 DEF Once
    <2>2. ASSUME NEW j \in 1 .. Len(f)
          PROVE  /\ j # Len(f) => g.next[f[j]] = f[j + 1]
                 /\ j # 1 => g.prev[f[j]] = f[j - 1]
      <3>1. (j # Len(f) => j + 1 \in 1 .. Len(f)) /\ (j # 1 => j - 1 \in 1 .. Len(f))
        BY <1>1
      <3>2. (j # Len(f) => f[j + 1] = s[j + 1] /\ j # Len(s)) /\ (j # 1 => f[j - 1] = s[j - 1])
        BY <1>1, <3>1
      <3> QED
        BY <1>1, <1>2, <3>2
    <2> QED
      BY <2>1, <2>2 DEF Piece
  <1>4. Piece(g, r)
    <2>1. Once(r)
      <3> SUFFICES ASSUME NEW a \in 1 .. Len(r), NEW b \in 1 .. Len(r), r[a] = r[b] PROVE a = b
        BY DEF Once
      <3>1. PICK c, d : c = i + a /\ d = i + b
        OBVIOUS
      <3>2. c \in 1 .. Len(s) /\ d \in 1 .. Len(s) /\ s[c] = s[d]
        BY <1>1, <3>1
      <3>3. c = d
        BY <1>2, <3>2 DEF Once
      <3> QED
        BY <1>1, <3>1, <3>3
    <2>2. ASSUME NEW j \in 1 .. Len(r)
          PROVE  /\ j # Len(r) => g.next[r[j]] = r[j + 1]
                 /\ j # 1 => g.prev[r[j]] = r[j - 1]
      <3>1. PICK c : c = i + j
        OBVIOUS
      <3>2. c \in 1 .. Len(s) /\ r[j] = s[c]
        BY <1>1, <3>1
      <3>3. j # Len(r) => c # Len(s) /\ r[j + 1] = s[c + 1]
        <4> SUFFICES ASSUME j # Len(r) PROVE c # Len(s) /\ r[j + 1] = s[c + 1]
          OBVIOUS
        <4>0. Len(r) \in Nat
          BY <1>1
        <4>1. j + 1 \in 1 .. Len(r)
          BY <4>0
        <4>2. i + (j + 1) = c + 1
          BY <1>1, <3>1
        <4>3. c # Len(s)
          BY <1>1, <3>1
        <4> QED
          BY <1>1, <4>1, <4>2, <4>3
      <3>4. j # 1 => c # 1 /\ r[j - 1] = s[c - 1]
        <4> SUFFICES ASSUME j # 1 PROVE c # 1 /\ r[j - 1] = s[c - 1]
          OBVIOUS
        <4>1. j - 1 \in 1 .. Len(r) /\ i + (j - 1) = c - 1 /\ c # 1
          BY <1>1, <3>1
        <4> QED
          BY <1>1, <4>1
      <3> QED
        BY <1>2, <3>2, <3>3, <3>4
    <2> QED
      BY <2>1, <2>2 DEF Piece
  <1>5. Disjoint(f, r)
    <2> SUFFICES ASSUME NEW a \in 1 .. Len(f), NEW b \in 1 .. Len(r), f[a] = r[b] PROVE FALSE
      BY DEF Disjoint, In
    <2>1. PICK c : c = i + b
      OBVIOUS
    <2>2. a \in 1 .. Len(s) /\ c \in 1 .. Len(s) /\ s[a] = s[c] /\ a # c
      BY <1>1, <2>1
    <2> QED
      BY <1>2, <2>2 DEF Once
  <1>6. \A x : In(x, s) <=> In(x, f) \/ In(x, r)
    <2> TAKE x
    <2>1. ASSUME In(x, s) PROVE In(x, f) \/ In(x, r)
      <3>1. PICK j \in 1 .. Len(s) : s[j] = x
        BY <2>1 DEF In
      <3>2. CASE j <= i
        <4>1. j \in 1 .. Len(f)
          BY <1>1, <3>2
        <4> QED
          BY <1>1, <3>1, <4>1 DEF In
      <3>3. CASE ~(j <= i)
        <4>1. PICK b : b = j - i
          OBVIOUS
        <4>2. b \in 1 .. Len(r) /\ i + b = j
          BY <1>1, <3>3, <4>1
        <4> QED
          BY <1>1, <3>1, <4>2 DEF In
      <3> QED
        BY <3>2, <3>3
    <2>2. ASSUME In(x, f) \/ In(x, r) PROVE In(x, s)
      BY <1>1, <2>2 DEF In
    <2> QED
      BY <2>1, <2>2
  <1>7. ASSUME i # 0 PROVE Front(f) = Front(s) /\ End(f) = s[i]
    <2>1. 1 \in 1 .. Len(f) /\ i \in 1 .. Len(f) /\ Len(s) # 0
      BY <1>1, <1>7
    <2>2. f[1] = s[1] /\ f[i] = s[i]
      BY <1>1, <2>1
    <2> QED
      BY <1>1, <1>7, <2>1, <2>2 DEF Front, End
  <1>8. ASSUME i # Len(s) PROVE Front(r) = s[i + 1] /\ End(r) = End(s)
    <2>1. 1 \in 1 .. Len(r) /\ Len(r) \in 1 .. Len(r) /\ i + Len(r) = Len(s) /\ Len(s) # 0
          /\ Len(r) # 0
      BY <1>1, <1>8
    <2>2. r[1] = s[i + 1] /\ r[Len(r)] = s[Len(s)]
      BY <1>1, <2>1
    <2> QED
      BY <2>1, <2>2 DEF Front, End
  <1> QED
    BY <1>3, <1>4, <1>5, <1>6, <1>7, <1>8

(* What the nodes of a sequence point to.                                  *)
Of(d, s) == [j \in 1 .. Len(s) |-> d[s[j]]]

LEMMA LIOf ==
  ASSUME NEW d \in [LI!Nodes -> LIData], NEW s \in Seq(LI!Nodes), NEW v, v = Of(d, s)
  PROVE  v \in Seq(LIData) /\ Len(v) = Len(s) /\ \A j \in 1 .. Len(s) : v[j] = d[s[j]]
  <1> DEFINE n == Len(s)
  <1>1. n \in Nat /\ \A j \in 1 .. n : s[j] \in LI!Nodes
    OBVIOUS
  <1>2. v = [j \in 1 .. n |-> d[s[j]]]
    BY DEF Of
  <1>3. v = [j \in 1 .. n |-> v[j]] /\ \A j \in 1 .. n : v[j] = d[s[j]] /\ v[j] \in LIData
    BY <1>1, <1>2
  <1> HIDE DEF n
  <1>4. v \in Seq(LIData) /\ Len(v) = n
    BY <1>1, <1>3, LIMake
  <1> QED
    BY <1>3, <1>4 DEF n

LEMMA LIOfSub ==
  ASSUME NEW d \in [LI!Nodes -> LIData], NEW s \in Seq(LI!Nodes), NEW p \in Nat, NEW q \in Nat,
         1 <= p, p <= q + 1, q <= Len(s)
  PROVE  Of(d, SubSeq(s, p, q)) = SubSeq(Of(d, s), p, q)
  <1>1. PICK t, v, a, b : t = SubSeq(s, p, q) /\ v = Of(d, s) /\ a = Of(d, t)
        /\ b = SubSeq(v, p, q)
    OBVIOUS
  <1>2. /\ t \in Seq(LI!Nodes) /\ Len(t) = q + 1 - p
        /\ \A j \in 1 .. Len(t) : p + j - 1 \in 1 .. Len(s) /\ t[j] = s[p + j - 1]
    BY <1>1, LISub
  <1>3. v \in Seq(LIData) /\ Len(v) = Len(s) /\ \A j \in 1 .. Len(s) : v[j] = d[s[j]]
    BY <1>1, LIOf
  <1>4. a \in Seq(LIData) /\ Len(a) = Len(t) /\ \A j \in 1 .. Len(t) : a[j] = d[t[j]]
    <2>1. t \in Seq(LI!Nodes) /\ a = Of(d, t)
      BY <1>1, <1>2
    <2> QED
      BY <2>1, LIOf
  <1>5. /\ b \in Seq(LIData) /\ Len(b) = q + 1 - p
        /\ \A j \in 1 .. Len(b) : p + j - 1 \in 1 .. Len(v) /\ b[j] = v[p + j - 1]
    <2>1. q <= Len(v) /\ v \in Seq(LIData) /\ b = SubSeq(v, p, q)
      BY <1>1, <1>3
    <2> QED
      BY <2>1, LISub
  <1>6. ASSUME NEW j \in 1 .. Len(a) PROVE a[j] = b[j]
    <2>1. j \in 1 .. Len(t) /\ j \in 1 .. Len(b)
      BY <1>2, <1>4, <1>5
    <2>2. PICK e : e = p + j - 1
      OBVIOUS
    <2>3. e \in 1 .. Len(s) /\ t[j] = s[e] /\ b[j] = v[e]
      BY <1>2, <1>5, <2>1, <2>2
    <2> QED
      BY <1>3, <1>4, <2>1, <2>3
  <1>7. a = b
    BY <1>2, <1>4, <1>5, <1>6, LIEqual
  <1> QED
    BY <1>1, <1>7

LEMMA LIOfJoin ==
  ASSUME NEW d \in [LI!Nodes -> LIData], NEW s \in Seq(LI!Nodes), NEW t \in Seq(LI!Nodes)
  PROVE  Of(d, s \o t) = Of(d, s) \o Of(d, t)
  <1>1. PICK c, v, w, a, b : c = s \o t /\ v = Of(d, s) /\ w = Of(d, t) /\ a = Of(d, c)
        /\ b = v \o w
    OBVIOUS
  <1>2. /\ c \in Seq(LI!Nodes) /\ Len(c) = Len(s) + Len(t) /\ Len(s) \in Nat
        /\ Len(t) \in Nat
        /\ \A j \in 1 .. Len(c) : c[j] = IF j <= Len(s) THEN s[j] ELSE t[j - Len(s)]
    BY <1>1, LIJoin
  <1>3. v \in Seq(LIData) /\ Len(v) = Len(s) /\ \A j \in 1 .. Len(s) : v[j] = d[s[j]]
    BY <1>1, LIOf
  <1>4. w \in Seq(LIData) /\ Len(w) = Len(t) /\ \A j \in 1 .. Len(t) : w[j] = d[t[j]]
    BY <1>1, LIOf
  <1>5. a \in Seq(LIData) /\ Len(a) = Len(c) /\ \A j \in 1 .. Len(c) : a[j] = d[c[j]]
    <2>1. a = Of(d, c) /\ c \in Seq(LI!Nodes)
      BY <1>1, <1>2
    <2> QED
      BY <2>1, LIOf
  <1>6. /\ b \in Seq(LIData) /\ Len(b) = Len(v) + Len(w)
        /\ \A j \in 1 .. Len(b) : b[j] = IF j <= Len(v) THEN v[j] ELSE w[j - Len(v)]
    <2>1. v \in Seq(LIData) /\ w \in Seq(LIData) /\ b = v \o w
      BY <1>1, <1>3, <1>4
    <2> QED
      BY <2>1, LIJoin
  <1>7. ASSUME NEW j \in 1 .. Len(a) PROVE a[j] = b[j]
    <2>1. j \in 1 .. Len(c) /\ j \in 1 .. Len(b)
      BY <1>2, <1>3, <1>4, <1>5, <1>6
    <2>2. CASE j <= Len(s)
      <3>1. j \in 1 .. Len(s)
        BY <1>2, <2>1, <2>2
      <3> QED
        BY <1>2, <1>3, <1>5, <1>6, <2>1, <2>2, <3>1
    <2>3. CASE ~(j <= Len(s))
      <3>1. PICK e : e = j - Len(s)
        OBVIOUS
      <3>2. e \in 1 .. Len(t)
        BY <1>2, <2>1, <2>3, <3>1
      <3>3. c[j] = t[e] /\ b[j] = w[e]
        BY <1>2, <1>3, <1>6, <2>1, <2>3, <3>1
      <3> QED
        BY <1>4, <1>5, <2>1, <3>2, <3>3
    <2> QED
      BY <2>2, <2>3
  <1>8. Len(a) = Len(b)
    BY <1>2, <1>3, <1>4, <1>5, <1>6
  <1>9. a = b
    BY <1>5, <1>6, <1>7, <1>8, LIEqual
  <1> QED
    BY <1>1, <1>9

(***************************************************************************)
(* Moving a part of a list: the links that change, and the objects.        *)
(***************************************************************************)
IsLink(e, f, n, to) ==
  /\ e \in [LI!Nodes -> Ends] /\ (n # LI!NULL => e[n] = to)
  /\ \A x \in LI!Nodes : x # n => e[x] = f[x]

LEMMA LILink ==
  ASSUME NEW f \in [LI!Nodes -> Ends], NEW n \in Ends, NEW to \in Ends
  PROVE  IsLink(LI!Link(f, n, to), f, n, to)
  BY DEF LI!Link, Ends, IsLink

(* The heaps m and g tell the same of what F holds but lists l and k.      *)
BecomesBoth(g, m, F, l, v, k, w) ==
  \E G, c, o : /\ Good(m, G, c, o) /\ NoneHeld(o)
               /\ View(m, G) = Put(Put(View(g, F), l, v), k, w)

LEMMA LIViewTwo ==
  ASSUME NEW g, NEW F, NEW m, NEW G, NEW l \in li_Lists, NEW k \in li_Lists, l # k, NEW y, NEW c,
         IsPut(G, F, l, y, k, c), m.data = g.data
  PROVE  View(m, G) = Put(Put(View(g, F), l, Of(g.data, y)), k, Of(g.data, c))
  <1>1. PICK V, W, v, w : /\ V = View(g, F) /\ W = View(m, G)
                          /\ v = Of(g.data, y) /\ w = Of(g.data, c)
    OBVIOUS
  <1>2. W[l] = v /\ W[k] = w /\ \A i \in li_Lists : i # l /\ i # k => W[i] = V[i]
    BY <1>1 DEF View, IsPut, Of
  <1>3. V = [i \in li_Lists |-> V[i]] /\ W = [i \in li_Lists |-> W[i]]
    BY <1>1 DEF View
  <1>4. W = Put(Put(V, l, v), k, w)
    BY <1>2, <1>3, Zenon DEF Put
  <1> QED
    BY <1>1, <1>4

LEMMA LIMove ==
  ASSUME NEW g, NEW F, NEW C, NEW O, Good(g, F, C, O), NoneHeld(O),
         NEW l \in li_Lists, NEW k \in li_Lists, l # k, NEW m,
         NEW a \in NodeSeq, NEW b \in NodeSeq, NEW y \in NodeSeq,
         Pieces(g, F[l], F[k], a, b, y), Splices(g, m, l, k, a, b, y)
  PROVE  BecomesBoth(g, m, F, l, Of(g.data, y), k, Of(g.data, a) \o Of(g.data, b))
  <1>1. PICK c : c = a \o b
    OBVIOUS
  <1>2. c \in NodeSeq
    BY <1>1, LIJoin DEF NodeSeq
  <1>3. F \in Chains /\ g \in LIHeap
    BY DEF Good
  <1>4. IsPut(Put(Put(F, l, y), k, c), F, l, y, k, c)
    BY <1>2, <1>3, LIPutTwo
  <1>5. PICK G : G = Put(Put(F, l, y), k, c)
    OBVIOUS
  <1>6. IsPut(G, F, l, y, k, c)
    BY <1>4, <1>5
  <1>7. PICK o : Good(m, G, C, o) /\ NoneHeld(o)
    BY <1>1, <1>6, LISplice
  <1>8. m.data = g.data
    BY DEF Splices
  <1>9. View(m, G) = Put(Put(View(g, F), l, Of(g.data, y)), k, Of(g.data, c))
    BY <1>6, <1>8, LIViewTwo
  <1>10. Of(g.data, c) = Of(g.data, a) \o Of(g.data, b)
    <2>1. g.data \in [LI!Nodes -> LIData] /\ a \in Seq(LI!Nodes) /\ b \in Seq(LI!Nodes)
      BY <1>3, LIHeapTypes DEF NodeSeq, LIData
    <2> QED
      BY <1>1, <2>1, LIOfJoin
  <1> QED
    BY <1>7, <1>9, <1>10 DEF BecomesBoth

LEMMA LIPieceBack ==
  ASSUME NEW g, NEW s \in Seq(LI!Nodes), Piece(g, s)
  PROVE  /\ (Len(s) # 0 => g.next[End(s)] = LI!NULL) => Linked(g.next, s)
         /\ (Len(s) # 0 => g.prev[Front(s)] = LI!NULL) => LinkedBack(g.prev, s)
  <1>1. Len(s) # 0 => /\ 1 \in 1 .. Len(s) /\ Len(s) \in 1 .. Len(s)
                      /\ Front(s) = s[1] /\ End(s) = s[Len(s)]
    BY LIFrontEnd
  <1>2. ASSUME NEW j \in 1 .. Len(s)
        PROVE  /\ g.next[End(s)] = LI!NULL => g.next[s[j]] = After(s, j)
               /\ g.prev[Front(s)] = LI!NULL => g.prev[s[j]] = Before(s, j)
    BY <1>1 DEF Piece, After, Before
  <1> QED
    BY <1>2 DEF Linked, LinkedBack

(* How many nodes there are from the end of a chain back.                  *)
LEMMA LIWalkBack ==
  ASSUME NEW link \in [LI!Nodes -> Ends], NEW s \in Seq(LI!Nodes), Once(s), LinkedBack(link, s)
  PROVE  Len(LI!Walk(link, End(s))) = Len(s)
  <1>1. PICK t : t = LI!S!Reversed(s)
    OBVIOUS
  <1>2. t \in Seq(LI!Nodes) /\ Len(t) = Len(s) /\ Once(t) /\ Linked(link, t)
        /\ Front(t) = End(s)
    BY <1>1, LIBackwards
  <1> QED
    BY <1>2, LIWalk

(* These are the fields of heap g.                                         *)
HeapIs(g, next, prev, data, live, first, last, count, head, used) ==
  /\ g \in LIHeap
  /\ g.next = next /\ g.prev = prev /\ g.data = data /\ g.live = live
  /\ g.first = first /\ g.last = last /\ g.count = count
  /\ g.head = head /\ g.used = used

LEMMA LIHeapOf ==
  ASSUME NEW next \in [LI!Nodes -> Ends], NEW prev \in [LI!Nodes -> Ends],
         NEW data \in [LI!Nodes -> li_Objects \cup {LI!None}], NEW live, live \subseteq LI!Nodes,
         NEW first \in [li_Lists -> Ends], NEW last \in [li_Lists -> Ends], NEW count \in [li_Lists -> Int],
         NEW head \in [li_Lists -> Ends], NEW used \in [li_Lists -> Int]
  PROVE  HeapIs(HeapOf(next, prev, data, live, first, last, count, head, used),
                next, prev, data, live, first, last, count, head, used)
  BY DEF LIHeap, HeapOf, HeapIs

(* Heap m is g with the head of l, c nodes that end with p, at the tail of k. *)
TailMoved(g, m, l, k, p, c, rest) ==
  /\ m \in LIHeap /\ m.data = g.data /\ m.live = g.live /\ m.head = g.head
  /\ m.used = g.used
  /\ m.next[p] = LI!NULL
  /\ g.last[k] # LI!NULL /\ g.last[k] # p => m.next[g.last[k]] = g.first[l]
  /\ \A x \in LI!Nodes : x # p /\ x # g.last[k] => m.next[x] = g.next[x]
  /\ rest # LI!NULL => m.prev[rest] = LI!NULL
  /\ g.first[l] # LI!NULL /\ g.first[l] # rest => m.prev[g.first[l]] = g.last[k]
  /\ \A x \in LI!Nodes : x # rest /\ x # g.first[l] => m.prev[x] = g.prev[x]
  /\ m.first[l] = rest /\ m.last[l] = (IF rest = LI!NULL THEN LI!NULL ELSE g.last[l])
  /\ m.first[k] = (IF g.first[k] = LI!NULL THEN g.first[l] ELSE g.first[k]) /\ m.last[k] = p
  /\ m.count[l] = g.count[l] - c /\ m.count[k] = g.count[k] + c
  /\ \A i \in li_Lists : i # l /\ i # k => /\ m.first[i] = g.first[i]
                                           /\ m.last[i] = g.last[i]
                                           /\ m.count[i] = g.count[i]

LEMMA LITailFields ==
  ASSUME NEW g \in LIHeap, NEW l \in li_Lists, NEW k \in li_Lists, l # k, NEW p \in LI!Nodes,
         Len(LI!Walk(g.prev, p)) \in Int
  PROVE  TailMoved(g, LI!MoveToTail(g, l, p, k), l, k, p, Len(LI!Walk(g.prev, p)), g.next[p])
  <1>0. PICK c, rest, m : c = Len(LI!Walk(g.prev, p)) /\ rest = g.next[p]
        /\ m = LI!MoveToTail(g, l, p, k)
    OBVIOUS
  <1>1. /\ g.next \in [LI!Nodes -> Ends] /\ g.prev \in [LI!Nodes -> Ends]
        /\ g.data \in [LI!Nodes -> li_Objects \cup {LI!None}] /\ g.live \subseteq LI!Nodes
        /\ g.first \in [li_Lists -> Ends] /\ g.last \in [li_Lists -> Ends]
        /\ g.count \in [li_Lists -> Int]
        /\ g.head \in [li_Lists -> Ends] /\ g.used \in [li_Lists -> Int]
        /\ g = [next |-> g.next, prev |-> g.prev, data |-> g.data, live |-> g.live,
                first |-> g.first, last |-> g.last, count |-> g.count,
                head |-> g.head, used |-> g.used]
    BY LIHeapTypes
  <1>2. /\ c \in Int /\ rest \in Ends /\ g.first[l] \in Ends /\ g.last[k] \in Ends
        /\ LI!NULL \in Ends
        /\ g.count[l] \in Int /\ g.count[k] \in Int
    BY <1>0, <1>1 DEF Ends
  <1>3. PICK e, d, b : /\ e = LI!Link(g.next, g.last[k], g.first[l])
                       /\ d = LI!Link(g.prev, g.first[l], g.last[k])
                       /\ b = LI!Link(d, rest, LI!NULL)
    OBVIOUS
  <1>4. /\ e \in [LI!Nodes -> Ends] /\ (g.last[k] # LI!NULL => e[g.last[k]] = g.first[l])
        /\ \A x \in LI!Nodes : x # g.last[k] => e[x] = g.next[x]
    <2>1. IsLink(LI!Link(g.next, g.last[k], g.first[l]), g.next, g.last[k], g.first[l])
      BY <1>1, <1>2, LILink
    <2> QED
      BY <1>3, <2>1 DEF IsLink
  <1>5. /\ d \in [LI!Nodes -> Ends] /\ (g.first[l] # LI!NULL => d[g.first[l]] = g.last[k])
        /\ \A x \in LI!Nodes : x # g.first[l] => d[x] = g.prev[x]
    <2>1. IsLink(LI!Link(g.prev, g.first[l], g.last[k]), g.prev, g.first[l], g.last[k])
      BY <1>1, <1>2, LILink
    <2> QED
      BY <1>3, <2>1 DEF IsLink
  <1>6. /\ b \in [LI!Nodes -> Ends] /\ (rest # LI!NULL => b[rest] = LI!NULL)
        /\ \A x \in LI!Nodes : x # rest => b[x] = d[x]
    <2>1. IsLink(LI!Link(d, rest, LI!NULL), d, rest, LI!NULL)
      BY <1>2, <1>5, LILink
    <2> QED
      BY <1>3, <2>1 DEF IsLink
  <1> DEFINE next == [e EXCEPT ![p] = LI!NULL]
             first == [g.first EXCEPT ![k] = IF g.first[k] = LI!NULL THEN g.first[l] ELSE g.first[k], ![l] = rest]
             last == [g.last EXCEPT ![l] = IF rest = LI!NULL THEN LI!NULL ELSE g.last[l], ![k] = p]
             count == [g.count EXCEPT ![l] = g.count[l] - c, ![k] = g.count[k] + c]
  <1>7. m = HeapOf(next, b, g.data, g.live, first, last, count, g.head, g.used)
    BY <1>0, <1>1, <1>3 DEF LI!MoveToTail, HeapOf
  <1>8. /\ next \in [LI!Nodes -> Ends] /\ next[p] = LI!NULL
        /\ \A x \in LI!Nodes : x # p => next[x] = e[x]
    BY <1>2, <1>4
  <1>9. /\ first \in [li_Lists -> Ends] /\ last \in [li_Lists -> Ends]
        /\ count \in [li_Lists -> Int]
        /\ first[l] = rest /\ last[l] = (IF rest = LI!NULL THEN LI!NULL ELSE g.last[l])
        /\ first[k] = (IF g.first[k] = LI!NULL THEN g.first[l] ELSE g.first[k]) /\ last[k] = p
        /\ count[l] = g.count[l] - c /\ count[k] = g.count[k] + c
        /\ \A i \in li_Lists : i # l /\ i # k => first[i] = g.first[i] /\ last[i] = g.last[i] /\ count[i] = g.count[i]
    <2>1. /\ first \in [li_Lists -> Ends] /\ first[l] = rest
          /\ first[k] = (IF g.first[k] = LI!NULL THEN g.first[l] ELSE g.first[k])
          /\ \A i \in li_Lists : i # l /\ i # k => first[i] = g.first[i]
      BY <1>1, <1>2
    <2>2. /\ last \in [li_Lists -> Ends]
          /\ last[l] = (IF rest = LI!NULL THEN LI!NULL ELSE g.last[l]) /\ last[k] = p
          /\ \A i \in li_Lists : i # l /\ i # k => last[i] = g.last[i]
      BY <1>1, <1>2 DEF Ends
    <2>3. /\ count \in [li_Lists -> Int]
          /\ count[l] = g.count[l] - c /\ count[k] = g.count[k] + c
          /\ \A i \in li_Lists : i # l /\ i # k => count[i] = g.count[i]
      BY <1>1, <1>2
    <2> HIDE DEF first, last, count
    <2> QED
      BY <2>1, <2>2, <2>3
  <1> HIDE DEF next, first, last, count
  <1>10. /\ m \in LIHeap
         /\ m.next = next /\ m.prev = b /\ m.data = g.data /\ m.live = g.live
         /\ m.first = first /\ m.last = last /\ m.count = count
         /\ m.head = g.head /\ m.used = g.used
    <2>1. /\ next \in [LI!Nodes -> Ends] /\ b \in [LI!Nodes -> Ends]
          /\ first \in [li_Lists -> Ends] /\ last \in [li_Lists -> Ends]
          /\ count \in [li_Lists -> Int]
      BY <1>6, <1>8, <1>9
    <2>2. /\ g.data \in [LI!Nodes -> li_Objects \cup {LI!None}] /\ g.live \subseteq LI!Nodes
          /\ g.head \in [li_Lists -> Ends] /\ g.used \in [li_Lists -> Int]
      BY <1>1
    <2>3. HeapIs(HeapOf(next, b, g.data, g.live, first, last, count, g.head, g.used),
                 next, b, g.data, g.live, first, last, count, g.head, g.used)
      BY <2>1, <2>2, LIHeapOf
    <2> QED
      BY <1>7, <2>3 DEF HeapIs
  <1>11. /\ m.next[p] = LI!NULL
         /\ g.last[k] # LI!NULL /\ g.last[k] # p => m.next[g.last[k]] = g.first[l]
         /\ \A x \in LI!Nodes : x # p /\ x # g.last[k] => m.next[x] = g.next[x]
    BY <1>2, <1>4, <1>8, <1>10 DEF Ends
  <1>12. /\ rest # LI!NULL => m.prev[rest] = LI!NULL
         /\ g.first[l] # LI!NULL /\ g.first[l] # rest => m.prev[g.first[l]] = g.last[k]
         /\ \A x \in LI!Nodes : x # rest /\ x # g.first[l] => m.prev[x] = g.prev[x]
    BY <1>2, <1>5, <1>6, <1>10 DEF Ends
  <1>13. TailMoved(g, m, l, k, p, c, rest)
    BY <1>9, <1>10, <1>11, <1>12 DEF TailMoved
  <1> QED
    BY <1>0, <1>13

LEMMA LIMoveToTail ==
  ASSUME NEW g, NEW F, NEW C, NEW O, Good(g, F, C, O), NoneHeld(O),
         NEW l \in li_Lists, NEW k \in li_Lists, l # k, NEW i \in 1 .. Len(F[l]),
         NEW f, NEW r, Cut(F[l], i, f, r)
  PROVE  BecomesBoth(g, LI!MoveToTail(g, l, F[l][i], k), F, l, Of(g.data, r), k,
                     Of(g.data, F[k]) \o Of(g.data, f))
  <1>1. PICK s, u, p, m : s = F[l] /\ u = F[k] /\ p = s[i] /\ m = LI!MoveToTail(g, l, p, k)
    OBVIOUS
  <1>2. /\ g \in LIHeap /\ s \in Seq(LI!Nodes) /\ u \in Seq(LI!Nodes) /\ GoodList(g, l, s)
        /\ GoodList(g, k, u)
        /\ \A x \in LI!Nodes : (In(x, s) <=> O[x] = OnList(l)) /\ (In(x, u) <=> O[x] = OnList(k))
    BY <1>1 DEF Good, Placed, Chains
  <1>3. /\ i \in 1 .. Len(s) /\ i \in 0 .. Len(s) /\ i # 0 /\ Len(s) # 0 /\ Len(s) \in Nat
        /\ i \in Nat
        /\ Cut(s, i, f, r) /\ p \in LI!Nodes /\ p = s[i]
    BY <1>1, <1>2, LIFrontEnd
  <1>4. /\ Piece(g, s) /\ g.next[End(s)] = LI!NULL /\ g.prev[Front(s)] = LI!NULL
        /\ Piece(g, u) /\ (Len(u) # 0 => g.next[End(u)] = LI!NULL /\ g.prev[Front(u)] = LI!NULL)
    BY <1>2, <1>3, LIPieceOf
  <1>5. /\ f \in Seq(LI!Nodes) /\ r \in Seq(LI!Nodes) /\ Len(f) = i /\ Len(r) = Len(s) - i
    BY <1>3 DEF Cut
  <1>6. /\ Piece(g, f) /\ Piece(g, r) /\ Disjoint(f, r)
        /\ \A x : In(x, s) <=> In(x, f) \/ In(x, r)
        /\ Front(f) = Front(s) /\ End(f) = p
        /\ i # Len(s) => Front(r) = s[i + 1] /\ End(r) = End(s)
    BY <1>2, <1>3, <1>4, LICutPieces
  <1>7. Pieces(g, s, u, u, f, r)
    <2>1. \A x : ~(In(x, s) /\ In(x, u))
      <3>1. \A x : In(x, s) => x \in LI!Nodes
        BY <1>2 DEF In
      <3>2. OnList(l) # OnList(k)
        BY LIApart
      <3> QED
        BY <1>2, <3>1, <3>2
    <2> QED
      BY <1>4, <1>6, <2>1 DEF Pieces, Disjoint
  <1>8. PICK rest : rest = g.next[p]
    OBVIOUS
  <1>9. rest = Front(r) /\ (rest = LI!NULL <=> Len(r) = 0) /\ (Len(r) # 0 => End(r) = End(s))
    <2>1. CASE i = Len(s)
      <3>1. rest = LI!NULL /\ Len(r) = 0
        BY <1>3, <1>4, <1>5, <1>8, <2>1 DEF End
      <3> QED
        BY <3>1 DEF Front
    <2>2. CASE i # Len(s)
      <3>1. rest = s[i + 1] /\ Len(r) # 0
        BY <1>3, <1>4, <1>5, <1>8, <2>2 DEF Piece
      <3>2. Front(r) # LI!NULL
        BY <1>5, <3>1, LIFrontEnd, LINodes
      <3> QED
        BY <1>6, <2>2, <3>1, <3>2
    <2> QED
      BY <2>1, <2>2
  <1>10. /\ g.first[l] = Front(f) /\ g.last[l] = End(s) /\ g.count[l] = Len(s)
         /\ g.first[k] = Front(u) /\ g.last[k] = End(u) /\ g.count[k] = Len(u)
    BY <1>2, <1>6 DEF GoodList
  <1>11. Len(LI!Walk(g.prev, p)) = i
    <2>1. LinkedBack(g.prev, f) /\ Once(f)
      BY <1>4, <1>5, <1>6, LIPieceBack DEF Piece
    <2>2. g.prev \in [LI!Nodes -> Ends]
      BY <1>2, LIHeapTypes
    <2> QED
      BY <1>5, <1>6, <2>1, <2>2, LIWalkBack
  <1>12. PICK c : c = Len(LI!Walk(g.prev, p))
    OBVIOUS
  <1>13. c = i /\ c \in Int
    BY <1>3, <1>11, <1>12
  <1>14. /\ m \in LIHeap /\ m.data = g.data /\ m.live = g.live /\ m.head = g.head
         /\ m.used = g.used
         /\ m.next[p] = LI!NULL
         /\ g.last[k] # LI!NULL /\ g.last[k] # p => m.next[g.last[k]] = g.first[l]
         /\ \A x \in LI!Nodes : x # p /\ x # g.last[k] => m.next[x] = g.next[x]
         /\ rest # LI!NULL => m.prev[rest] = LI!NULL
         /\ g.first[l] # LI!NULL /\ g.first[l] # rest => m.prev[g.first[l]] = g.last[k]
         /\ \A x \in LI!Nodes : x # rest /\ x # g.first[l] => m.prev[x] = g.prev[x]
         /\ m.first[l] = rest /\ m.last[l] = (IF rest = LI!NULL THEN LI!NULL ELSE g.last[l])
         /\ m.first[k] = (IF g.first[k] = LI!NULL THEN g.first[l] ELSE g.first[k]) /\ m.last[k] = p
         /\ m.count[l] = g.count[l] - c /\ m.count[k] = g.count[k] + c
         /\ \A j \in li_Lists : j # l /\ j # k => /\ m.first[j] = g.first[j]
                                                  /\ m.last[j] = g.last[j]
                                                  /\ m.count[j] = g.count[j]
    <2>1. TailMoved(g, LI!MoveToTail(g, l, p, k), l, k, p, Len(LI!Walk(g.prev, p)), g.next[p])
      BY <1>2, <1>3, <1>12, <1>13, LITailFields
    <2>2. TailMoved(g, m, l, k, p, c, rest)
      BY <1>1, <1>8, <1>12, <2>1
    <2> QED
      BY <2>2 DEF TailMoved
  <1>15. /\ Len(u) # 0 => /\ In(End(u), u) /\ In(Front(u), u) /\ End(u) # LI!NULL /\ Front(u) # LI!NULL
                          /\ End(u) \in LI!Nodes /\ Front(u) \in LI!Nodes
         /\ Len(u) = 0 => End(u) = LI!NULL /\ Front(u) = LI!NULL
         /\ Len(r) # 0 => /\ In(End(r), r) /\ In(Front(r), r) /\ End(r) # LI!NULL /\ Front(r) # LI!NULL
                          /\ End(r) \in LI!Nodes /\ Front(r) \in LI!Nodes
         /\ Len(r) = 0 => End(r) = LI!NULL /\ Front(r) = LI!NULL
         /\ Len(f) # 0 /\ In(End(f), f) /\ In(Front(f), f) /\ End(f) # LI!NULL
         /\ Front(f) # LI!NULL
    <2>1. \A t \in Seq(LI!Nodes) :
            /\ Len(t) # 0 => /\ In(End(t), t) /\ In(Front(t), t) /\ End(t) # LI!NULL /\ Front(t) # LI!NULL
                             /\ End(t) \in LI!Nodes /\ Front(t) \in LI!Nodes
            /\ Len(t) = 0 => End(t) = LI!NULL /\ Front(t) = LI!NULL
      BY LIFrontEnd, LINodes
    <2> QED
      BY <1>2, <1>3, <1>5, <2>1
  <1>16. \A x : ~(In(x, u) /\ In(x, f)) /\ ~(In(x, u) /\ In(x, r)) /\ ~(In(x, f) /\ In(x, r))
    BY <1>7 DEF Pieces, Disjoint
  <1>17. Splices(g, m, l, k, u, f, r)
    <2>1. \A x \in LI!Nodes : /\ x # End(u) /\ x # End(f) /\ x # End(r) => m.next[x] = g.next[x]
                              /\ x # Front(u) /\ x # Front(f) /\ x # Front(r) => m.prev[x] = g.prev[x]
      BY <1>6, <1>9, <1>10, <1>14
    <2>2. Len(u) # 0 => m.next[End(u)] = Front(f) /\ m.prev[Front(u)] = LI!NULL
      <3> SUFFICES ASSUME Len(u) # 0 PROVE m.next[End(u)] = Front(f)
      /\ m.prev[Front(u)] = LI!NULL
        OBVIOUS
      <3>1. m.next[End(u)] = Front(f)
        <4>1. End(u) # p
          BY <1>6, <1>15, <1>16
        <4> QED
          BY <1>10, <1>14, <1>15, <4>1
      <3>2. m.prev[Front(u)] = LI!NULL
        <4>1. Front(u) # rest /\ Front(u) # Front(f)
          BY <1>9, <1>15, <1>16
        <4> QED
          BY <1>4, <1>10, <1>14, <1>15, <4>1
      <3> QED
        BY <3>1, <3>2
    <2>3. m.next[End(f)] = LI!NULL /\ m.prev[Front(f)] = End(u)
      <3>1. Front(f) # rest
        BY <1>9, <1>15, <1>16
      <3> QED
        BY <1>6, <1>10, <1>14, <1>15, <3>1
    <2>4. Len(r) # 0 => m.next[End(r)] = LI!NULL /\ m.prev[Front(r)] = LI!NULL
      <3> SUFFICES ASSUME Len(r) # 0 PROVE m.next[End(r)] = LI!NULL
      /\ m.prev[Front(r)] = LI!NULL
        OBVIOUS
      <3>1. End(r) # p /\ End(r) # End(u)
        BY <1>6, <1>15, <1>16
      <3>2. g.next[End(r)] = LI!NULL
        BY <1>4, <1>9
      <3> QED
        BY <1>9, <1>10, <1>14, <1>15, <3>1, <3>2
    <2>5. m.first[l] = Front(r) /\ m.last[l] = End(r) /\ m.count[l] = Len(r)
      BY <1>5, <1>9, <1>10, <1>13, <1>14, <1>15
    <2>6. /\ m.first[k] = IF Len(u) = 0 THEN Front(f) ELSE Front(u)
          /\ m.last[k] = IF Len(f) = 0 THEN End(u) ELSE End(f)
          /\ m.count[k] = Len(u) + Len(f)
      BY <1>5, <1>6, <1>10, <1>13, <1>14, <1>15
    <2> QED
      BY <1>14, <2>1, <2>2, <2>3, <2>4, <2>5, <2>6 DEF Splices
  <1>18. u \in NodeSeq /\ f \in NodeSeq /\ r \in NodeSeq
    BY <1>2, <1>5 DEF NodeSeq
  <1> QED
    BY <1>1, <1>7, <1>17, <1>18, LIMove

(* Heap m is g with the tail of l, c nodes that begin with p, at the head of k. *)
HeadMoved(g, m, l, k, p, c, rest) ==
  /\ m \in LIHeap /\ m.data = g.data /\ m.live = g.live /\ m.head = g.head
  /\ m.used = g.used
  /\ m.prev[p] = LI!NULL
  /\ g.first[k] # LI!NULL /\ g.first[k] # p => m.prev[g.first[k]] = g.last[l]
  /\ \A x \in LI!Nodes : x # p /\ x # g.first[k] => m.prev[x] = g.prev[x]
  /\ rest # LI!NULL => m.next[rest] = LI!NULL
  /\ g.last[l] # LI!NULL /\ g.last[l] # rest => m.next[g.last[l]] = g.first[k]
  /\ \A x \in LI!Nodes : x # rest /\ x # g.last[l] => m.next[x] = g.next[x]
  /\ m.last[l] = rest /\ m.first[l] = (IF rest = LI!NULL THEN LI!NULL ELSE g.first[l])
  /\ m.last[k] = (IF g.last[k] = LI!NULL THEN g.last[l] ELSE g.last[k]) /\ m.first[k] = p
  /\ m.count[l] = g.count[l] - c /\ m.count[k] = g.count[k] + c
  /\ \A i \in li_Lists : i # l /\ i # k => /\ m.last[i] = g.last[i]
                                           /\ m.first[i] = g.first[i]
                                           /\ m.count[i] = g.count[i]

LEMMA LIHeadFields ==
  ASSUME NEW g \in LIHeap, NEW l \in li_Lists, NEW k \in li_Lists, l # k, NEW p \in LI!Nodes,
         Len(LI!Walk(g.next, p)) \in Int
  PROVE  HeadMoved(g, LI!MoveToHead(g, l, p, k), l, k, p, Len(LI!Walk(g.next, p)), g.prev[p])
  <1>0. PICK c, rest, m : c = Len(LI!Walk(g.next, p)) /\ rest = g.prev[p]
        /\ m = LI!MoveToHead(g, l, p, k)
    OBVIOUS
  <1>1. /\ g.prev \in [LI!Nodes -> Ends] /\ g.next \in [LI!Nodes -> Ends]
        /\ g.data \in [LI!Nodes -> li_Objects \cup {LI!None}] /\ g.live \subseteq LI!Nodes
        /\ g.last \in [li_Lists -> Ends] /\ g.first \in [li_Lists -> Ends]
        /\ g.count \in [li_Lists -> Int]
        /\ g.head \in [li_Lists -> Ends] /\ g.used \in [li_Lists -> Int]
        /\ g = [next |-> g.next, prev |-> g.prev, data |-> g.data, live |-> g.live,
                first |-> g.first, last |-> g.last, count |-> g.count,
                head |-> g.head, used |-> g.used]
    BY LIHeapTypes
  <1>2. /\ c \in Int /\ rest \in Ends /\ g.last[l] \in Ends /\ g.first[k] \in Ends
        /\ LI!NULL \in Ends
        /\ g.count[l] \in Int /\ g.count[k] \in Int
    BY <1>0, <1>1 DEF Ends
  <1>3. PICK e, d, b : /\ e = LI!Link(g.prev, g.first[k], g.last[l])
                       /\ d = LI!Link(g.next, g.last[l], g.first[k])
                       /\ b = LI!Link(d, rest, LI!NULL)
    OBVIOUS
  <1>4. /\ e \in [LI!Nodes -> Ends] /\ (g.first[k] # LI!NULL => e[g.first[k]] = g.last[l])
        /\ \A x \in LI!Nodes : x # g.first[k] => e[x] = g.prev[x]
    <2>1. IsLink(LI!Link(g.prev, g.first[k], g.last[l]), g.prev, g.first[k], g.last[l])
      BY <1>1, <1>2, LILink
    <2> QED
      BY <1>3, <2>1 DEF IsLink
  <1>5. /\ d \in [LI!Nodes -> Ends] /\ (g.last[l] # LI!NULL => d[g.last[l]] = g.first[k])
        /\ \A x \in LI!Nodes : x # g.last[l] => d[x] = g.next[x]
    <2>1. IsLink(LI!Link(g.next, g.last[l], g.first[k]), g.next, g.last[l], g.first[k])
      BY <1>1, <1>2, LILink
    <2> QED
      BY <1>3, <2>1 DEF IsLink
  <1>6. /\ b \in [LI!Nodes -> Ends] /\ (rest # LI!NULL => b[rest] = LI!NULL)
        /\ \A x \in LI!Nodes : x # rest => b[x] = d[x]
    <2>1. IsLink(LI!Link(d, rest, LI!NULL), d, rest, LI!NULL)
      BY <1>2, <1>5, LILink
    <2> QED
      BY <1>3, <2>1 DEF IsLink
  <1> DEFINE prev == [e EXCEPT ![p] = LI!NULL]
             last == [g.last EXCEPT ![k] = IF g.last[k] = LI!NULL THEN g.last[l] ELSE g.last[k], ![l] = rest]
             first == [g.first EXCEPT ![l] = IF rest = LI!NULL THEN LI!NULL ELSE g.first[l], ![k] = p]
             count == [g.count EXCEPT ![l] = g.count[l] - c, ![k] = g.count[k] + c]
  <1>7. m = HeapOf(b, prev, g.data, g.live, first, last, count, g.head, g.used)
    BY <1>0, <1>1, <1>3 DEF LI!MoveToHead, HeapOf
  <1>8. /\ prev \in [LI!Nodes -> Ends] /\ prev[p] = LI!NULL
        /\ \A x \in LI!Nodes : x # p => prev[x] = e[x]
    BY <1>2, <1>4
  <1>9. /\ last \in [li_Lists -> Ends] /\ first \in [li_Lists -> Ends]
        /\ count \in [li_Lists -> Int]
        /\ last[l] = rest /\ first[l] = (IF rest = LI!NULL THEN LI!NULL ELSE g.first[l])
        /\ last[k] = (IF g.last[k] = LI!NULL THEN g.last[l] ELSE g.last[k]) /\ first[k] = p
        /\ count[l] = g.count[l] - c /\ count[k] = g.count[k] + c
        /\ \A i \in li_Lists : i # l /\ i # k => last[i] = g.last[i] /\ first[i] = g.first[i] /\ count[i] = g.count[i]
    <2>1. /\ last \in [li_Lists -> Ends] /\ last[l] = rest
          /\ last[k] = (IF g.last[k] = LI!NULL THEN g.last[l] ELSE g.last[k])
          /\ \A i \in li_Lists : i # l /\ i # k => last[i] = g.last[i]
      BY <1>1, <1>2
    <2>2. /\ first \in [li_Lists -> Ends]
          /\ first[l] = (IF rest = LI!NULL THEN LI!NULL ELSE g.first[l]) /\ first[k] = p
          /\ \A i \in li_Lists : i # l /\ i # k => first[i] = g.first[i]
      BY <1>1, <1>2 DEF Ends
    <2>3. /\ count \in [li_Lists -> Int]
          /\ count[l] = g.count[l] - c /\ count[k] = g.count[k] + c
          /\ \A i \in li_Lists : i # l /\ i # k => count[i] = g.count[i]
      BY <1>1, <1>2
    <2> HIDE DEF last, first, count
    <2> QED
      BY <2>1, <2>2, <2>3
  <1> HIDE DEF prev, last, first, count
  <1>10. /\ m \in LIHeap
         /\ m.prev = prev /\ m.next = b /\ m.data = g.data /\ m.live = g.live
         /\ m.last = last /\ m.first = first /\ m.count = count
         /\ m.head = g.head /\ m.used = g.used
    <2>1. /\ prev \in [LI!Nodes -> Ends] /\ b \in [LI!Nodes -> Ends]
          /\ last \in [li_Lists -> Ends] /\ first \in [li_Lists -> Ends]
          /\ count \in [li_Lists -> Int]
      BY <1>6, <1>8, <1>9
    <2>2. /\ g.data \in [LI!Nodes -> li_Objects \cup {LI!None}] /\ g.live \subseteq LI!Nodes
          /\ g.head \in [li_Lists -> Ends] /\ g.used \in [li_Lists -> Int]
      BY <1>1
    <2>3. HeapIs(HeapOf(b, prev, g.data, g.live, first, last, count, g.head, g.used),
                 b, prev, g.data, g.live, first, last, count, g.head, g.used)
      BY <2>1, <2>2, LIHeapOf
    <2> QED
      BY <1>7, <2>3 DEF HeapIs
  <1>11. /\ m.prev[p] = LI!NULL
         /\ g.first[k] # LI!NULL /\ g.first[k] # p => m.prev[g.first[k]] = g.last[l]
         /\ \A x \in LI!Nodes : x # p /\ x # g.first[k] => m.prev[x] = g.prev[x]
    BY <1>2, <1>4, <1>8, <1>10 DEF Ends
  <1>12. /\ rest # LI!NULL => m.next[rest] = LI!NULL
         /\ g.last[l] # LI!NULL /\ g.last[l] # rest => m.next[g.last[l]] = g.first[k]
         /\ \A x \in LI!Nodes : x # rest /\ x # g.last[l] => m.next[x] = g.next[x]
    BY <1>2, <1>5, <1>6, <1>10 DEF Ends
  <1>13. HeadMoved(g, m, l, k, p, c, rest)
    BY <1>9, <1>10, <1>11, <1>12 DEF HeadMoved
  <1> QED
    BY <1>0, <1>13

LEMMA LIMoveToHead ==
  ASSUME NEW g, NEW F, NEW C, NEW O, Good(g, F, C, O), NoneHeld(O),
         NEW l \in li_Lists, NEW k \in li_Lists, l # k, NEW i \in 1 .. Len(F[l]),
         NEW f, NEW r, Cut(F[l], i - 1, f, r)
  PROVE  BecomesBoth(g, LI!MoveToHead(g, l, F[l][i], k), F, l, Of(g.data, f), k,
                     Of(g.data, r) \o Of(g.data, F[k]))
  <1>1. PICK s, u, p, m, d : d = i - 1 /\ s = F[l] /\ u = F[k] /\ p = s[i]
        /\ m = LI!MoveToHead(g, l, p, k)
    OBVIOUS
  <1>2. /\ g \in LIHeap /\ s \in Seq(LI!Nodes) /\ u \in Seq(LI!Nodes) /\ GoodList(g, l, s)
        /\ GoodList(g, k, u)
        /\ \A x \in LI!Nodes : (In(x, s) <=> O[x] = OnList(l)) /\ (In(x, u) <=> O[x] = OnList(k))
    BY <1>1 DEF Good, Placed, Chains
  <1>3. /\ i \in 1 .. Len(s) /\ d \in 0 .. Len(s) /\ d # Len(s) /\ Len(s) # 0
        /\ Len(s) \in Nat
        /\ d \in Nat /\ d + 1 = i /\ Cut(s, d, f, r) /\ p \in LI!Nodes /\ p = s[i]
    BY <1>1, <1>2, LIFrontEnd
  <1>4. /\ Piece(g, s) /\ g.prev[Front(s)] = LI!NULL /\ g.next[End(s)] = LI!NULL
        /\ Piece(g, u) /\ (Len(u) # 0 => g.prev[Front(u)] = LI!NULL /\ g.next[End(u)] = LI!NULL)
    BY <1>2, <1>3, LIPieceOf
  <1>5. /\ r \in Seq(LI!Nodes) /\ f \in Seq(LI!Nodes) /\ Len(f) = d /\ Len(r) = Len(s) - d
    BY <1>3 DEF Cut
  <1>6. /\ Piece(g, r) /\ Piece(g, f) /\ Disjoint(f, r)
        /\ \A x : In(x, s) <=> In(x, f) \/ In(x, r)
        /\ End(r) = End(s) /\ Front(r) = p
        /\ d # 0 => End(f) = s[d] /\ Front(f) = Front(s)
    BY <1>2, <1>3, <1>4, LICutPieces
  <1>7. Pieces(g, s, u, r, u, f)
    <2>1. \A x : ~(In(x, s) /\ In(x, u))
      <3>1. \A x : In(x, s) => x \in LI!Nodes
        BY <1>2 DEF In
      <3>2. OnList(l) # OnList(k)
        BY LIApart
      <3> QED
        BY <1>2, <3>1, <3>2
    <2> QED
      BY <1>4, <1>6, <2>1 DEF Pieces, Disjoint
  <1>8. PICK rest : rest = g.prev[p]
    OBVIOUS
  <1>9. rest = End(f) /\ (rest = LI!NULL <=> Len(f) = 0) /\ (Len(f) # 0 => Front(f) = Front(s))
    <2>1. CASE d = 0
      <3>1. rest = LI!NULL /\ Len(f) = 0
        BY <1>3, <1>4, <1>5, <1>8, <2>1 DEF Front
      <3> QED
        BY <3>1 DEF End
    <2>2. CASE d # 0
      <3>1. rest = s[d] /\ Len(f) # 0
        BY <1>3, <1>4, <1>5, <1>8, <2>2 DEF Piece
      <3>2. End(f) # LI!NULL
        BY <1>5, <3>1, LIFrontEnd, LINodes
      <3> QED
        BY <1>6, <2>2, <3>1, <3>2
    <2> QED
      BY <2>1, <2>2
  <1>10. /\ g.last[l] = End(r) /\ g.first[l] = Front(s) /\ g.count[l] = Len(s)
         /\ g.last[k] = End(u) /\ g.first[k] = Front(u) /\ g.count[k] = Len(u)
    BY <1>2, <1>6 DEF GoodList
  <1>11. Len(LI!Walk(g.next, p)) = Len(r)
    <2>1. Linked(g.next, r) /\ Once(r)
      BY <1>4, <1>5, <1>6, LIPieceBack DEF Piece
    <2>2. g.next \in [LI!Nodes -> Ends]
      BY <1>2, LIHeapTypes
    <2> QED
      BY <1>5, <1>6, <2>1, <2>2, LIWalk
  <1>12. PICK c : c = Len(LI!Walk(g.next, p))
    OBVIOUS
  <1>13. c = Len(r) /\ c \in Int
    BY <1>3, <1>5, <1>11, <1>12
  <1>14. /\ m \in LIHeap /\ m.data = g.data /\ m.live = g.live /\ m.head = g.head
         /\ m.used = g.used
         /\ m.prev[p] = LI!NULL
         /\ g.first[k] # LI!NULL /\ g.first[k] # p => m.prev[g.first[k]] = g.last[l]
         /\ \A x \in LI!Nodes : x # p /\ x # g.first[k] => m.prev[x] = g.prev[x]
         /\ rest # LI!NULL => m.next[rest] = LI!NULL
         /\ g.last[l] # LI!NULL /\ g.last[l] # rest => m.next[g.last[l]] = g.first[k]
         /\ \A x \in LI!Nodes : x # rest /\ x # g.last[l] => m.next[x] = g.next[x]
         /\ m.last[l] = rest
         /\ m.first[l] = (IF rest = LI!NULL THEN LI!NULL ELSE g.first[l])
         /\ m.last[k] = (IF g.last[k] = LI!NULL THEN g.last[l] ELSE g.last[k]) /\ m.first[k] = p
         /\ m.count[l] = g.count[l] - c /\ m.count[k] = g.count[k] + c
         /\ \A j \in li_Lists : j # l /\ j # k => /\ m.last[j] = g.last[j]
                                                  /\ m.first[j] = g.first[j]
                                                  /\ m.count[j] = g.count[j]
    <2>1. HeadMoved(g, LI!MoveToHead(g, l, p, k), l, k, p, Len(LI!Walk(g.next, p)), g.prev[p])
      BY <1>2, <1>3, <1>12, <1>13, LIHeadFields
    <2>2. HeadMoved(g, m, l, k, p, c, rest)
      BY <1>1, <1>8, <1>12, <2>1
    <2> QED
      BY <2>2 DEF HeadMoved
  <1>15. /\ Len(u) # 0 => /\ In(Front(u), u) /\ In(End(u), u) /\ Front(u) # LI!NULL /\ End(u) # LI!NULL
                          /\ Front(u) \in LI!Nodes /\ End(u) \in LI!Nodes
         /\ Len(u) = 0 => Front(u) = LI!NULL /\ End(u) = LI!NULL
         /\ Len(f) # 0 => /\ In(Front(f), f) /\ In(End(f), f) /\ Front(f) # LI!NULL /\ End(f) # LI!NULL
                          /\ Front(f) \in LI!Nodes /\ End(f) \in LI!Nodes
         /\ Len(f) = 0 => Front(f) = LI!NULL /\ End(f) = LI!NULL
         /\ Len(r) # 0 /\ In(Front(r), r) /\ In(End(r), r) /\ Front(r) # LI!NULL
         /\ End(r) # LI!NULL
    <2>1. \A t \in Seq(LI!Nodes) :
            /\ Len(t) # 0 => /\ In(Front(t), t) /\ In(End(t), t) /\ Front(t) # LI!NULL /\ End(t) # LI!NULL
                             /\ Front(t) \in LI!Nodes /\ End(t) \in LI!Nodes
            /\ Len(t) = 0 => Front(t) = LI!NULL /\ End(t) = LI!NULL
      BY LIFrontEnd, LINodes
    <2> QED
      BY <1>2, <1>3, <1>5, <2>1
  <1>16. \A x : ~(In(x, u) /\ In(x, r)) /\ ~(In(x, u) /\ In(x, f)) /\ ~(In(x, r) /\ In(x, f))
    BY <1>7 DEF Pieces, Disjoint
  <1>17. Splices(g, m, l, k, r, u, f)
    <2>1. \A x \in LI!Nodes : /\ x # Front(u) /\ x # Front(r) /\ x # Front(f) => m.prev[x] = g.prev[x]
                              /\ x # End(u) /\ x # End(r) /\ x # End(f) => m.next[x] = g.next[x]
      BY <1>6, <1>9, <1>10, <1>14
    <2>2. Len(u) # 0 => m.prev[Front(u)] = End(r) /\ m.next[End(u)] = LI!NULL
      <3> SUFFICES ASSUME Len(u) # 0 PROVE m.prev[Front(u)] = End(r)
      /\ m.next[End(u)] = LI!NULL
        OBVIOUS
      <3>1. m.prev[Front(u)] = End(r)
        <4>1. Front(u) # p
          BY <1>6, <1>15, <1>16
        <4> QED
          BY <1>10, <1>14, <1>15, <4>1
      <3>2. m.next[End(u)] = LI!NULL
        <4>1. End(u) # rest /\ End(u) # End(r)
          BY <1>9, <1>15, <1>16
        <4> QED
          BY <1>4, <1>10, <1>14, <1>15, <4>1
      <3> QED
        BY <3>1, <3>2
    <2>3. m.prev[Front(r)] = LI!NULL /\ m.next[End(r)] = Front(u)
      <3>1. End(r) # rest
        BY <1>9, <1>15, <1>16
      <3> QED
        BY <1>6, <1>10, <1>14, <1>15, <3>1
    <2>4. Len(f) # 0 => m.prev[Front(f)] = LI!NULL /\ m.next[End(f)] = LI!NULL
      <3> SUFFICES ASSUME Len(f) # 0 PROVE m.prev[Front(f)] = LI!NULL
      /\ m.next[End(f)] = LI!NULL
        OBVIOUS
      <3>1. Front(f) # p /\ Front(f) # Front(u)
        BY <1>6, <1>15, <1>16
      <3>2. g.prev[Front(f)] = LI!NULL
        BY <1>4, <1>9
      <3> QED
        BY <1>9, <1>10, <1>14, <1>15, <3>1, <3>2
    <2>5. m.last[l] = End(f) /\ m.first[l] = Front(f) /\ m.count[l] = Len(f)
      BY <1>5, <1>9, <1>10, <1>13, <1>14, <1>15
    <2>6. /\ m.last[k] = IF Len(u) = 0 THEN End(r) ELSE End(u)
          /\ m.first[k] = IF Len(r) = 0 THEN Front(u) ELSE Front(r)
          /\ m.count[k] = Len(r) + Len(u)
      BY <1>5, <1>6, <1>10, <1>13, <1>14, <1>15
    <2> QED
      BY <1>14, <2>1, <2>2, <2>3, <2>4, <2>5, <2>6 DEF Splices
  <1>18. u \in NodeSeq /\ r \in NodeSeq /\ f \in NodeSeq
    BY <1>2, <1>5 DEF NodeSeq
  <1> QED
    BY <1>1, <1>7, <1>17, <1>18, LIMove

(***************************************************************************)
(* The copy of a list into another, element by element.                    *)
(***************************************************************************)
(* A loop of n steps, told by the pairs of a state and a count it goes     *)
(* through: there is a run, and every run stays with them.                 *)
Runs(f, n, I, T, z) ==
  /\ f = [k \in 0 .. n |-> f[k]] /\ f[0] = z
  /\ \A k \in 0 .. (n - 1) : f[k + 1] = T[<<f[k], k>>]
  /\ \A k \in 0 .. n : <<f[k], k>> \in I

LEMMA LILoop ==
  ASSUME NEW n \in Nat, NEW I, NEW T, NEW z, <<z, 0>> \in I,
         \A a, k : <<a, k>> \in I /\ k \in 0 .. (n - 1) => <<T[<<a, k>>], k + 1>> \in I
  PROVE  \E f : Runs(f, n, I, T, z)
  <1> DEFINE D == {q \in Nat : q <= n =>
                     \E f : /\ f = [k \in 0 .. q |-> f[k]] /\ f[0] = z
                            /\ \A k \in 0 .. (q - 1) : f[k + 1] = T[<<f[k], k>>]
                            /\ \A k \in 0 .. q : <<f[k], k>> \in I}
  <1>1. 0 \in D
    <2>1. PICK f : f = [k \in 0 .. 0 |-> z]
      OBVIOUS
    <2>2. /\ f = [k \in 0 .. 0 |-> f[k]] /\ f[0] = z
          /\ \A k \in 0 .. (0 - 1) : f[k + 1] = T[<<f[k], k>>]
          /\ \A k \in 0 .. 0 : <<f[k], k>> \in I
      BY <2>1
    <2> QED
      BY <2>2
  <1>2. ASSUME NEW q \in Nat, q \in D PROVE q + 1 \in D
    <2> SUFFICES ASSUME q + 1 <= n
                 PROVE  \E e : /\ e = [k \in 0 .. (q + 1) |-> e[k]] /\ e[0] = z
                               /\ \A k \in 0 .. (q + 1 - 1) : e[k + 1] = T[<<e[k], k>>]
                               /\ \A k \in 0 .. (q + 1) : <<e[k], k>> \in I
      OBVIOUS
    <2>1. PICK f : /\ f = [k \in 0 .. q |-> f[k]] /\ f[0] = z
                   /\ \A k \in 0 .. (q - 1) : f[k + 1] = T[<<f[k], k>>]
                   /\ \A k \in 0 .. q : <<f[k], k>> \in I
      BY <1>2
    <2>2. PICK e : e = [k \in 0 .. (q + 1) |-> IF k = q + 1 THEN T[<<f[q], q>>] ELSE f[k]]
      OBVIOUS
    <2>3. e = [k \in 0 .. (q + 1) |-> e[k]]
      BY <2>2
    <2>4. e[q + 1] = T[<<f[q], q>>] /\ \A k \in 0 .. q : e[k] = f[k]
      BY <2>2
    <2>5. e[0] = z
      BY <2>1, <2>4
    <2>6. ASSUME NEW k \in 0 .. (q + 1 - 1) PROVE e[k + 1] = T[<<e[k], k>>]
      <3>1. CASE k = q
        BY <2>4, <3>1
      <3>2. CASE k # q
        <4>1. k \in 0 .. (q - 1) /\ k \in 0 .. q /\ k + 1 \in 0 .. q
          BY <3>2
        <4> QED
          BY <2>1, <2>4, <4>1
      <3> QED
        BY <3>1, <3>2
    <2>7. ASSUME NEW k \in 0 .. (q + 1) PROVE <<e[k], k>> \in I
      <3>1. CASE k = q + 1
        <4>1. q \in 0 .. (n - 1) /\ q \in 0 .. q
          OBVIOUS
        <4>2. <<f[q], q>> \in I
          BY <2>1, <4>1
        <4> QED
          BY <2>4, <3>1, <4>1, <4>2
      <3>2. CASE k # q + 1
        <4>1. k \in 0 .. q
          BY <3>2
        <4> QED
          BY <2>1, <2>4, <4>1
      <3> QED
        BY <3>1, <3>2
    <2> QED
      BY <2>3, <2>5, <2>6, <2>7
  <1>3. n \in D
    <2> HIDE DEF D
    <2> QED
      BY <1>1, <1>2, NatInd
  <1>4. PICK f : /\ f = [k \in 0 .. n |-> f[k]] /\ f[0] = z
                 /\ \A k \in 0 .. (n - 1) : f[k + 1] = T[<<f[k], k>>]
                 /\ \A k \in 0 .. n : <<f[k], k>> \in I
    BY <1>3
  <1> QED
    BY <1>4, Zenon DEF Runs

LEMMA LILoopStays ==
  ASSUME NEW n \in Nat, NEW I, NEW T, NEW u, <<u[0], 0>> \in I,
         \A a, k : <<a, k>> \in I /\ k \in 0 .. (n - 1) => <<T[<<a, k>>], k + 1>> \in I,
         \A k \in 0 .. (n - 1) : <<u[k], k>> \in I => u[k + 1] = T[<<u[k], k>>]
  PROVE  <<u[n], n>> \in I
  <1> DEFINE D == {q \in Nat : q <= n => <<u[q], q>> \in I}
  <1>1. 0 \in D
    OBVIOUS
  <1>2. ASSUME NEW q \in Nat, q \in D PROVE q + 1 \in D
    <2> SUFFICES ASSUME q + 1 <= n PROVE <<u[q + 1], q + 1>> \in I
      OBVIOUS
    <2>1. q \in 0 .. (n - 1) /\ <<u[q], q>> \in I
      BY <1>2
    <2>2. u[q + 1] = T[<<u[q], q>>] /\ <<T[<<u[q], q>>], q + 1>> \in I
      BY <2>1
    <2> QED
      BY <2>2
  <1>3. n \in D
    <2> HIDE DEF D
    <2> QED
      BY <1>1, <1>2, NatInd
  <1> QED
    BY <1>3

(* Sequence v with j elements of w, those after the b-th, at its place c.  *)
Mixed(v, c, w, b, j) ==
  [q \in 1 .. (Len(v) + j) |-> IF q <= c THEN v[q] ELSE IF q <= c + j THEN w[b + (q - c)] ELSE v[q - j]]

LEMMA LIMixed ==
  ASSUME NEW A, NEW v \in Seq(A), NEW w \in Seq(A), NEW c \in 0 .. Len(v),
         NEW b \in Nat, NEW j \in Nat, b + j <= Len(w), NEW x, x = Mixed(v, c, w, b, j)
  PROVE  /\ x \in Seq(A) /\ Len(x) = Len(v) + j
         /\ \A q \in 1 .. Len(x) : x[q] = IF q <= c THEN v[q]
                                          ELSE IF q <= c + j THEN w[b + (q - c)] ELSE v[q - j]
  <1> DEFINE n == Len(v) + j
  <1>1. Len(v) \in Nat /\ Len(w) \in Nat /\ n \in Nat /\ c \in Nat /\ c <= Len(v)
        /\ (\A q \in 1 .. Len(v) : v[q] \in A) /\ (\A q \in 1 .. Len(w) : w[q] \in A)
    OBVIOUS
  <1>2. x = [q \in 1 .. n |-> IF q <= c THEN v[q] ELSE IF q <= c + j THEN w[b + (q - c)] ELSE v[q - j]]
    BY DEF Mixed
  <1>3. \A q \in 1 .. n : x[q] = IF q <= c THEN v[q] ELSE IF q <= c + j THEN w[b + (q - c)] ELSE v[q - j]
    BY <1>2
  <1>4. x = [q \in 1 .. n |-> x[q]]
    BY <1>2
  <1> HIDE DEF n
  <1>5. ASSUME NEW q \in 1 .. n PROVE x[q] \in A
    <2>1. CASE q <= c
      <3>1. q \in 1 .. Len(v)
        BY <1>1, <2>1
      <3> QED
        BY <1>1, <1>3, <2>1, <3>1
    <2>2. CASE ~(q <= c) /\ q <= c + j
      <3>1. PICK e : e = b + (q - c)
        OBVIOUS
      <3>2. e \in 1 .. Len(w)
        BY <1>1, <2>2, <3>1
      <3> QED
        BY <1>1, <1>3, <2>2, <3>1, <3>2
    <2>3. CASE ~(q <= c) /\ ~(q <= c + j)
      <3>1. PICK e : e = q - j
        OBVIOUS
      <3>2. e \in 1 .. Len(v)
        BY <1>1, <2>3, <3>1 DEF n
      <3> QED
        BY <1>1, <1>3, <2>3, <3>1, <3>2
    <2> QED
      BY <2>1, <2>2, <2>3
  <1>6. n \in Nat
    BY <1>1
  <1>7. x \in Seq(A) /\ Len(x) = n
    BY <1>4, <1>5, <1>6, LIMake
  <1> QED
    BY <1>3, <1>7 DEF n

IsMixed(x, A, v, c, w, b, j) ==
  /\ x \in Seq(A) /\ Len(x) = Len(v) + j
  /\ \A q \in 1 .. Len(x) : x[q] = IF q <= c THEN v[q]
                                   ELSE IF q <= c + j THEN w[b + (q - c)] ELSE v[q - j]

LEMMA LIIsMixed ==
  ASSUME NEW A, NEW v \in Seq(A), NEW w \in Seq(A), NEW c \in 0 .. Len(v),
         NEW b \in Nat, NEW j \in Nat, b + j <= Len(w)
  PROVE  IsMixed(Mixed(v, c, w, b, j), A, v, c, w, b, j)
  <1>1. PICK x : x = Mixed(v, c, w, b, j)
    OBVIOUS
  <1>2. IsMixed(x, A, v, c, w, b, j)
    BY <1>1, LIMixed DEF IsMixed
  <1> QED
    BY <1>1, <1>2

IsInserted(z, A, x, i, o) ==
  /\ z \in Seq(A) /\ Len(z) = Len(x) + 1
  /\ \A q \in 1 .. Len(z) : z[q] = IF q < i THEN x[q] ELSE IF q = i THEN o ELSE x[q - 1]

LEMMA LIIsInserted ==
  ASSUME NEW A, NEW x \in Seq(A), NEW i \in 1 .. Len(x) + 1, NEW o \in A
  PROVE  IsInserted(LI!S!Inserted(x, i, o), A, x, i, o)
  <1>1. PICK z : z = LI!S!Inserted(x, i, o)
    OBVIOUS
  <1>2. IsInserted(z, A, x, i, o)
    BY <1>1, LIInserted DEF IsInserted
  <1> QED
    BY <1>1, <1>2

LEMMA LIMixNone ==
  ASSUME NEW A, NEW v \in Seq(A), NEW w \in Seq(A), NEW c \in 0 .. Len(v), NEW b \in Nat, b <= Len(w)
  PROVE  Mixed(v, c, w, b, 0) = v
  <1>1. PICK x : x = Mixed(v, c, w, b, 0)
    OBVIOUS
  <1>2. b + 0 <= Len(w)
    OBVIOUS
  <1>3. /\ x \in Seq(A) /\ Len(x) = Len(v) + 0
        /\ \A q \in 1 .. Len(x) : x[q] = IF q <= c THEN v[q]
                                         ELSE IF q <= c + 0 THEN w[b + (q - c)] ELSE v[q - 0]
    <2>1. IsMixed(Mixed(v, c, w, b, 0), A, v, c, w, b, 0)
      BY <1>2, LIIsMixed
    <2> QED
      BY <1>1, <2>1 DEF IsMixed
  <1>4. Len(x) = Len(v) /\ \A q \in 1 .. Len(x) : x[q] = v[q]
    <2>1. Len(v) \in Nat /\ c \in Nat
      OBVIOUS
    <2>2. ASSUME NEW q \in 1 .. Len(x) PROVE x[q] = v[q]
      <3>1. q - 0 = q /\ (q <= c + 0 <=> q <= c)
        BY <1>3, <2>1
      <3> QED
        BY <1>3, <3>1
    <2> QED
      BY <1>3, <2>1, <2>2
  <1> QED
    BY <1>1, <1>3, <1>4, LIEqual

LEMMA LIMixAfter ==
  ASSUME NEW A, NEW v \in Seq(A), NEW w \in Seq(A), NEW c \in 0 .. Len(v),
         NEW b \in Nat, NEW j \in Nat, b + j + 1 <= Len(w)
  PROVE  LI!S!Inserted(Mixed(v, c, w, b, j), c + j + 1, w[b + j + 1]) = Mixed(v, c, w, b, j + 1)
  <1>1. PICK x, y, i, o, z : /\ x = Mixed(v, c, w, b, j) /\ y = Mixed(v, c, w, b, j + 1)
                             /\ i = c + j + 1 /\ o = w[b + j + 1]
                             /\ z = LI!S!Inserted(x, i, o)
    OBVIOUS
  <1>2. /\ Len(v) \in Nat /\ Len(w) \in Nat /\ c \in Nat /\ c <= Len(v) /\ j + 1 \in Nat
        /\ b + j <= Len(w) /\ b + (j + 1) <= Len(w) /\ o \in A
    BY <1>1
  <1>3. /\ x \in Seq(A) /\ Len(x) = Len(v) + j
        /\ \A q \in 1 .. Len(x) : x[q] = IF q <= c THEN v[q]
                                         ELSE IF q <= c + j THEN w[b + (q - c)] ELSE v[q - j]
    <2>1. IsMixed(Mixed(v, c, w, b, j), A, v, c, w, b, j)
      BY <1>2, LIIsMixed
    <2> QED
      BY <1>1, <2>1 DEF IsMixed
  <1>4. /\ y \in Seq(A) /\ Len(y) = Len(v) + (j + 1)
        /\ \A q \in 1 .. Len(y) : y[q] = IF q <= c THEN v[q]
                                         ELSE IF q <= c + (j + 1) THEN w[b + (q - c)] ELSE v[q - (j + 1)]
    <2>1. IsMixed(Mixed(v, c, w, b, j + 1), A, v, c, w, b, j + 1)
      BY <1>2, LIIsMixed
    <2> QED
      BY <1>1, <2>1 DEF IsMixed
  <1>5. i \in 1 .. Len(x) + 1
    BY <1>1, <1>2, <1>3
  <1>6. /\ z \in Seq(A) /\ Len(z) = Len(x) + 1
        /\ \A q \in 1 .. Len(z) : z[q] = IF q < i THEN x[q] ELSE IF q = i THEN o ELSE x[q - 1]
    <2>1. IsInserted(LI!S!Inserted(x, i, o), A, x, i, o)
      BY <1>2, <1>3, <1>5, LIIsInserted
    <2> QED
      BY <1>1, <2>1 DEF IsInserted
  <1>7. ASSUME NEW q \in 1 .. Len(z) PROVE z[q] = y[q]
    <2>1. q \in 1 .. Len(y) /\ q \in Nat
      BY <1>2, <1>3, <1>4, <1>6
    <2>2. CASE q < i
      <3>1. q \in 1 .. Len(x) /\ (q <= c + (j + 1) <=> TRUE) /\ (q <= c + j <=> TRUE)
        BY <1>1, <1>2, <1>3, <2>1, <2>2
      <3> QED
        BY <1>3, <1>4, <1>6, <2>1, <2>2, <3>1
    <2>3. CASE q = i
      <3>1. ~(q <= c) /\ q <= c + (j + 1) /\ b + (q - c) = b + j + 1
        <4>1. i = c + j + 1 /\ j \in Nat /\ c \in Nat /\ b \in Nat
          BY <1>1, <1>2
        <4> QED
          BY <2>3, <4>1
      <3>2. z[q] = o
        BY <1>6, <2>3
      <3>3. y[q] = w[b + (q - c)]
        BY <1>4, <2>1, <3>1
      <3> QED
        BY <1>1, <3>1, <3>2, <3>3
    <2>4. CASE q > i
      <3>1. PICK e : e = q - 1
        OBVIOUS
      <3>2. /\ e \in 1 .. Len(x) /\ ~(e <= c) /\ ~(e <= c + j) /\ e - j = q - (j + 1)
            /\ ~(q <= c) /\ ~(q <= c + (j + 1)) /\ ~(q < i) /\ q # i
        <4>1. Len(z) = Len(x) + 1 /\ Len(x) \in Nat /\ i = c + j + 1
          BY <1>1, <1>2, <1>3, <1>6
        <4> QED
          BY <1>2, <2>1, <2>4, <3>1, <4>1
      <3> QED
        BY <1>3, <1>4, <1>6, <2>1, <3>1, <3>2
    <2> QED
      BY <1>1, <1>2, <2>1, <2>2, <2>3, <2>4
  <1>8. Len(z) = Len(y)
    <2>1. Len(z) = Len(x) + 1
      BY <1>6
    <2>2. Len(x) = Len(v) + j
      BY <1>3
    <2>3. Len(y) = Len(v) + (j + 1)
      BY <1>4
    <2>4. Len(v) \in Nat
      OBVIOUS
    <2> QED
      BY <2>1, <2>2, <2>3, <2>4
  <1>9. z = y
    BY <1>4, <1>6, <1>7, <1>8, LIEqual
  <1> QED
    BY <1>1, <1>9

LEMMA LIMixBefore ==
  ASSUME NEW A, NEW v \in Seq(A), NEW w \in Seq(A), NEW c \in 0 .. Len(v),
         NEW b \in Nat, b # 0, NEW j \in Nat, b + j <= Len(w)
  PROVE  LI!S!Inserted(Mixed(v, c, w, b, j), c + 1, w[b]) = Mixed(v, c, w, b - 1, j + 1)
  <1>1. PICK x, y, i, o, z, d : /\ d = b - 1 /\ x = Mixed(v, c, w, b, j) /\ y = Mixed(v, c, w, d, j + 1)
                                /\ i = c + 1 /\ o = w[b] /\ z = LI!S!Inserted(x, i, o)
    OBVIOUS
  <1>2. /\ Len(v) \in Nat /\ Len(w) \in Nat /\ c \in Nat /\ c <= Len(v) /\ j + 1 \in Nat
        /\ d \in Nat /\ b = d + 1 /\ d + (j + 1) <= Len(w) /\ o \in A
    BY <1>1
  <1>3. /\ x \in Seq(A) /\ Len(x) = Len(v) + j
        /\ \A q \in 1 .. Len(x) : x[q] = IF q <= c THEN v[q]
                                         ELSE IF q <= c + j THEN w[b + (q - c)] ELSE v[q - j]
    <2>1. IsMixed(Mixed(v, c, w, b, j), A, v, c, w, b, j)
      BY <1>2, LIIsMixed
    <2> QED
      BY <1>1, <2>1 DEF IsMixed
  <1>4. /\ y \in Seq(A) /\ Len(y) = Len(v) + (j + 1)
        /\ \A q \in 1 .. Len(y) : y[q] = IF q <= c THEN v[q]
                                         ELSE IF q <= c + (j + 1) THEN w[d + (q - c)] ELSE v[q - (j + 1)]
    <2>1. IsMixed(Mixed(v, c, w, d, j + 1), A, v, c, w, d, j + 1)
      BY <1>2, LIIsMixed
    <2> QED
      BY <1>1, <2>1 DEF IsMixed
  <1>5. i \in 1 .. Len(x) + 1
    BY <1>1, <1>2, <1>3
  <1>6. /\ z \in Seq(A) /\ Len(z) = Len(x) + 1
        /\ \A q \in 1 .. Len(z) : z[q] = IF q < i THEN x[q] ELSE IF q = i THEN o ELSE x[q - 1]
    <2>1. IsInserted(LI!S!Inserted(x, i, o), A, x, i, o)
      BY <1>2, <1>3, <1>5, LIIsInserted
    <2> QED
      BY <1>1, <2>1 DEF IsInserted
  <1>7. ASSUME NEW q \in 1 .. Len(z) PROVE z[q] = y[q]
    <2>1. q \in 1 .. Len(y) /\ q \in Nat
      BY <1>2, <1>3, <1>4, <1>6
    <2>2. CASE q < i
      <3>1. q \in 1 .. Len(x) /\ q <= c
        <4>1. i = c + 1 /\ Len(x) = Len(v) + j /\ q \in Nat /\ 1 <= q
          BY <1>1, <1>3, <2>1
        <4>2. Len(v) \in Nat /\ c \in Nat /\ c <= Len(v)
          BY <1>2
        <4> QED
          BY <4>1, <4>2, <2>2
      <3>2. z[q] = x[q]
        BY <1>6, <2>2
      <3>3. x[q] = v[q]
        BY <1>3, <3>1
      <3>5. y[q] = v[q]
        BY <1>4, <2>1, <3>1
      <3> QED
        BY <3>2, <3>3, <3>5
    <2>3. CASE q = i
      <3>1. ~(q <= c) /\ q <= c + (j + 1) /\ d + (q - c) = b
        BY <1>1, <1>2, <2>3
      <3>2. z[q] = o
        BY <1>6, <2>3
      <3>3. y[q] = w[d + (q - c)]
        BY <1>4, <2>1, <3>1
      <3> QED
        BY <1>1, <3>1, <3>2, <3>3
    <2>4. CASE q > i
      <3>1. PICK e : e = q - 1
        OBVIOUS
      <3>2. /\ e \in 1 .. Len(x) /\ ~(e <= c) /\ e - j = q - (j + 1)
            /\ b + (e - c) = d + (q - c)
            /\ ~(q <= c) /\ (q <= c + (j + 1) <=> e <= c + j) /\ ~(q < i) /\ q # i
        <4>1. Len(z) = Len(x) + 1 /\ Len(x) \in Nat /\ i = c + 1
          BY <1>1, <1>2, <1>3, <1>6
        <4> QED
          BY <1>2, <2>1, <2>4, <3>1, <4>1
      <3> QED
        BY <1>3, <1>4, <1>6, <2>1, <3>1, <3>2
    <2> QED
      BY <1>1, <1>2, <2>1, <2>2, <2>3, <2>4
  <1>8. Len(z) = Len(y)
    <2>1. Len(z) = Len(x) + 1
      BY <1>6
    <2>2. Len(x) = Len(v) + j
      BY <1>3
    <2>3. Len(y) = Len(v) + (j + 1)
      BY <1>4
    <2>4. Len(v) \in Nat
      OBVIOUS
    <2> QED
      BY <2>1, <2>2, <2>3, <2>4
  <1>9. z = y
    BY <1>4, <1>6, <1>7, <1>8, LIEqual
  <1> QED
    BY <1>1, <1>9

LEMMA LIMixParts ==
  ASSUME NEW A, NEW v \in Seq(A), NEW w \in Seq(A), NEW c \in 0 .. Len(v),
         NEW b \in Nat, NEW j \in Nat, b + j <= Len(w)
  PROVE  Mixed(v, c, w, b, j) = SubSeq(v, 1, c) \o SubSeq(w, b + 1, b + j) \o SubSeq(v, c + 1, Len(v))
  <1>1. PICK x, p, y, r, f : /\ x = Mixed(v, c, w, b, j) /\ p = SubSeq(v, 1, c)
                             /\ y = SubSeq(w, b + 1, b + j) /\ r = SubSeq(v, c + 1, Len(v))
                             /\ f = p \o y
    OBVIOUS
  <1>2. /\ Len(v) \in Nat /\ Len(w) \in Nat /\ c \in Nat /\ c <= Len(v)
        /\ b + 1 \in Nat /\ b + j \in Nat /\ c + 1 \in Nat
    OBVIOUS
  <1>3. /\ x \in Seq(A) /\ Len(x) = Len(v) + j
        /\ \A q \in 1 .. Len(x) : x[q] = IF q <= c THEN v[q]
                                         ELSE IF q <= c + j THEN w[b + (q - c)] ELSE v[q - j]
    <2>1. IsMixed(Mixed(v, c, w, b, j), A, v, c, w, b, j)
      BY <1>2, LIIsMixed
    <2> QED
      BY <1>1, <2>1 DEF IsMixed
  <1>4. p \in Seq(A) /\ Len(p) = c /\ \A q \in 1 .. Len(p) : p[q] = v[q]
    <2>1. /\ p \in Seq(A) /\ Len(p) = c + 1 - 1
          /\ \A q \in 1 .. Len(p) : 1 + q - 1 \in 1 .. Len(v) /\ p[q] = v[1 + q - 1]
      BY <1>1, <1>2, LISub
    <2>2. Len(p) = c /\ \A q \in 1 .. Len(p) : 1 + q - 1 = q
      BY <1>2, <2>1
    <2> QED
      BY <2>1, <2>2
  <1>5. y \in Seq(A) /\ Len(y) = j /\ \A q \in 1 .. Len(y) : y[q] = w[b + q]
    <2>1. 1 <= b + 1 /\ b + 1 <= b + j + 1 /\ b + j <= Len(w)
      BY <1>2
    <2>2. PICK d, e : d = b + 1 /\ e = b + j
      OBVIOUS
    <2>3. d \in Nat /\ e \in Nat /\ 1 <= d /\ d <= e + 1 /\ e <= Len(w)
          /\ y = SubSeq(w, d, e)
      BY <1>1, <1>2, <2>2
    <2>4. /\ y \in Seq(A) /\ Len(y) = e + 1 - d
          /\ \A q \in 1 .. Len(y) : d + q - 1 \in 1 .. Len(w) /\ y[q] = w[d + q - 1]
      BY <2>3, LISub
    <2>5. Len(y) = j /\ \A q \in 1 .. Len(y) : d + q - 1 = b + q
      BY <1>2, <2>2, <2>4
    <2> QED
      BY <2>4, <2>5
  <1>6. r \in Seq(A) /\ Len(r) = Len(v) - c /\ \A q \in 1 .. Len(r) : r[q] = v[c + q]
    <2>1. 1 <= c + 1 /\ c + 1 <= Len(v) + 1 /\ Len(v) <= Len(v)
      BY <1>2
    <2>2. /\ r \in Seq(A) /\ Len(r) = Len(v) + 1 - (c + 1)
          /\ \A q \in 1 .. Len(r) : c + 1 + q - 1 \in 1 .. Len(v) /\ r[q] = v[c + 1 + q - 1]
      BY <1>1, <1>2, <2>1, LISub
    <2>3. Len(r) = Len(v) - c /\ \A q \in 1 .. Len(r) : c + 1 + q - 1 = c + q
      BY <1>2, <2>2
    <2> QED
      BY <2>2, <2>3
  <1>7. /\ f \in Seq(A) /\ Len(f) = c + j
        /\ \A q \in 1 .. Len(f) : f[q] = IF q <= c THEN p[q] ELSE y[q - c]
    <2>1. p \in Seq(A) /\ y \in Seq(A) /\ f = p \o y
      BY <1>1, <1>4, <1>5
    <2>2. /\ f \in Seq(A) /\ Len(f) = Len(p) + Len(y)
          /\ \A q \in 1 .. Len(f) : f[q] = IF q <= Len(p) THEN p[q] ELSE y[q - Len(p)]
      BY <2>1, LIJoin
    <2> QED
      BY <1>4, <1>5, <2>2
  <1>8. PICK e : e = f \o r
    OBVIOUS
  <1>9. /\ e \in Seq(A) /\ Len(e) = Len(v) + j
        /\ \A q \in 1 .. Len(e) : e[q] = IF q <= c + j THEN f[q] ELSE r[q - (c + j)]
    <2>1. f \in Seq(A) /\ r \in Seq(A) /\ e = f \o r
      BY <1>6, <1>7, <1>8
    <2>2. /\ e \in Seq(A) /\ Len(e) = Len(f) + Len(r)
          /\ \A q \in 1 .. Len(e) : e[q] = IF q <= Len(f) THEN f[q] ELSE r[q - Len(f)]
      BY <2>1, LIJoin
    <2> QED
      BY <1>2, <1>6, <1>7, <2>2
  <1>10. ASSUME NEW q \in 1 .. Len(x) PROVE x[q] = e[q]
    <2>1. q \in Nat /\ q \in 1 .. Len(e)
      BY <1>2, <1>3, <1>9
    <2>2. CASE q <= c
      <3>1. q \in 1 .. Len(p) /\ q \in 1 .. Len(f) /\ q <= c + j
        BY <1>2, <1>4, <1>7, <2>1, <2>2
      <3> QED
        BY <1>3, <1>4, <1>7, <1>9, <2>1, <2>2, <3>1
    <2>3. CASE ~(q <= c) /\ q <= c + j
      <3>1. PICK t : t = q - c
        OBVIOUS
      <3>2. t \in 1 .. Len(y) /\ q \in 1 .. Len(f)
        BY <1>2, <1>5, <1>7, <2>1, <2>3, <3>1
      <3>3. x[q] = w[b + t] /\ e[q] = y[t]
        BY <1>3, <1>7, <1>9, <2>1, <2>3, <3>1, <3>2
      <3> QED
        BY <1>5, <3>2, <3>3
    <2>4. CASE ~(q <= c + j)
      <3>1. PICK t : t = q - (c + j)
        OBVIOUS
      <3>2. t \in 1 .. Len(r) /\ c + t = q - j /\ ~(q <= c)
        <4>1. PICK n : n = Len(v)
          OBVIOUS
        <4>2. n \in Nat /\ c \in Nat /\ c <= n /\ q \in Nat /\ q <= n + j /\ Len(r) = n - c
          BY <1>2, <1>3, <1>6, <2>1, <4>1
        <4>3. c + t = q - j /\ ~(q <= c) /\ t \in 1 .. n - c
          BY <2>4, <3>1, <4>2
        <4> QED
          BY <4>2, <4>3
      <3>3. x[q] = v[c + t] /\ e[q] = r[t]
        BY <1>3, <1>9, <2>1, <2>4, <3>1, <3>2
      <3> QED
        BY <1>6, <3>2, <3>3
    <2> QED
      BY <1>2, <2>1, <2>2, <2>3, <2>4
  <1>11. Len(x) = Len(e)
    BY <1>3, <1>9
  <1>12. x = e
    BY <1>3, <1>9, <1>10, <1>11, LIEqual
  <1> QED
    BY <1>1, <1>8, <1>12

(* Chains A of heap a tell list l of F, with j objects of w, those after   *)
(* the b-th, at its place c.                                               *)
Copied(g, F, a, A, l, c, w, b, j) ==
  \E C, O : /\ Good(a, A, C, O) /\ NoneHeld(O)
            /\ View(a, A) = Put(View(g, F), l, Mixed(View(g, F)[l], c, w, b, j))

LEMMA LIPutPut ==
  ASSUME NEW V, V = [k \in li_Lists |-> V[k]], NEW l \in li_Lists, NEW x, NEW y
  PROVE  Put(V, l, x)[l] = x /\ Put(Put(V, l, x), l, y) = Put(V, l, y)
         /\ Put(V, l, V[l]) = V
  BY Zenon DEF Put

LEMMA LICopyStep ==
  ASSUME NEW g, NEW F, NEW a, NEW A, NEW l \in li_Lists, NEW c, NEW w, NEW b, NEW j, NEW d, NEW e,
         Copied(g, F, a, A, l, c, w, b, j), NEW q, NEW o, NEW m, Adds(a, m, A, l, q, o),
         LI!S!Inserted(Mixed(View(g, F)[l], c, w, b, j), q, o) = Mixed(View(g, F)[l], c, w, d, e)
  PROVE  Copied(g, F, m, Put(A, l, LI!S!Inserted(A[l], q, LI!NewNode(a, l))), l, c, w, d, e)
  <1>1. PICK G, C, O : /\ Good(m, G, C, O) /\ NoneHeld(O)
                       /\ G = Put(A, l, LI!S!Inserted(A[l], q, LI!NewNode(a, l)))
                       /\ View(m, G) = Put(View(a, A), l, LI!S!Inserted(View(a, A)[l], q, o))
    BY DEF Adds
  <1>2. PICK V, x, y : /\ V = View(g, F) /\ x = Mixed(View(g, F)[l], c, w, b, j)
                       /\ y = Mixed(View(g, F)[l], c, w, d, e)
    OBVIOUS
  <1>3. V = [k \in li_Lists |-> V[k]]
    BY <1>2 DEF View
  <1>4. View(a, A) = Put(V, l, x)
    BY <1>2 DEF Copied
  <1>5. Put(V, l, x)[l] = x /\ Put(Put(V, l, x), l, y) = Put(V, l, y)
    BY <1>3, LIPutPut
  <1>6. LI!S!Inserted(View(a, A)[l], q, o) = y
    BY <1>2, <1>4, <1>5
  <1>7. View(m, G) = Put(V, l, y)
    BY <1>1, <1>4, <1>5, <1>6
  <1> QED
    BY <1>1, <1>2, <1>7 DEF Copied

Longer(A, F, l, j) == Len(A[l]) = Len(F[l]) + j

(* What a copy in progress says of the chain.                              *)
LEMMA LICopiedChain ==
  ASSUME NEW g, g.data \in [LI!Nodes -> LIData], NEW F \in Chains, NEW a, NEW A, NEW l \in li_Lists,
         NEW w \in Seq(LIData), NEW c \in 0 .. Len(F[l]), NEW b \in Nat, NEW j \in Nat, b + j <= Len(w),
         Copied(g, F, a, A, l, c, w, b, j)
  PROVE  A \in Chains /\ a \in LIHeap /\ A[l] \in Seq(LI!Nodes) /\ Longer(A, F, l, j)
  <1>1. PICK C, O : Good(a, A, C, O)
    BY DEF Copied
  <1>2. A \in Chains /\ a \in LIHeap
    BY <1>1 DEF Good
  <1>3. A[l] \in Seq(LI!Nodes) /\ a.data \in [LI!Nodes -> LIData]
    BY <1>2, LIHeapTypes DEF Chains, LIData
  <1>4. PICK v, V, x : V = View(g, F) /\ v = V[l] /\ x = Mixed(v, c, w, b, j)
    OBVIOUS
  <1>5. v \in Seq(LIData) /\ Len(v) = Len(F[l])
    BY <1>4, LIView
  <1>6. View(a, A) = Put(V, l, x)
    BY <1>4 DEF Copied
  <1>7. V = [k \in li_Lists |-> V[k]]
    BY <1>4 DEF View
  <1>8. View(a, A)[l] = x
    <2>1. Put(V, l, x)[l] = x
      BY <1>7 DEF Put
    <2> QED
      BY <1>6, <2>1
  <1>9. IsMixed(x, LIData, v, c, w, b, j)
    <2>1. IsMixed(Mixed(v, c, w, b, j), LIData, v, c, w, b, j)
      BY <1>5, LIIsMixed
    <2> QED
      BY <1>4, <2>1
  <1>10. Len(View(a, A)[l]) = Len(A[l])
    BY <1>2, <1>3, LIView
  <1> QED
    BY <1>2, <1>3, <1>5, <1>8, <1>9, <1>10 DEF IsMixed, Longer

(* Where each loop is after k steps: j objects are in, and it is not less  *)
(* than k for want of memory only.                                         *)
TailAt(g, F, l, w, a, k) ==
  \E A : \E j \in 0 .. k : /\ Copied(g, F, a, A, l, Len(F[l]), w, 0, j)
                           /\ j = k \/ ~LI!CanMake(a, l)

HeadAt(g, F, l, w, a, k) ==
  \E A : \E j \in 0 .. k : /\ Copied(g, F, a, A, l, 0, w, Len(w) - j, j)
                           /\ j = k \/ ~LI!CanMake(a, l)

AfterAt(g, F, l, c, w, a, p, k) ==
  \E A : \E j \in 0 .. k : /\ Copied(g, F, a, A, l, c, w, 0, j) /\ p = A[l][c + j] /\ p \in LI!Nodes
                           /\ j = k \/ ~LI!CanMake(a, l)

BeforeAt(g, F, l, c, w, a, p, k) ==
  \E A : \E j \in 0 .. k : /\ Copied(g, F, a, A, l, c, w, Len(w) - j, j) /\ p = A[l][c + 1] /\ p \in LI!Nodes
                           /\ j = k \/ ~LI!CanMake(a, l)

LEMMA LITailStep ==
  ASSUME NEW g, g.data \in [LI!Nodes -> LIData], NEW F \in Chains, NEW l \in li_Lists, NEW w \in Seq(LIData),
         NEW k \in Nat, k < Len(w), NEW a, TailAt(g, F, l, w, a, k)
  PROVE  TailAt(g, F, l, w, LI!AddTail(a, l, w[k + 1]), k + 1)
  <1>1. PICK A : \E j \in 0 .. k : /\ Copied(g, F, a, A, l, Len(F[l]), w, 0, j)
                                   /\ j = k \/ ~LI!CanMake(a, l)
    BY DEF TailAt
  <1>2. PICK j \in 0 .. k : Copied(g, F, a, A, l, Len(F[l]), w, 0, j) /\ (j = k \/ ~LI!CanMake(a, l))
    BY <1>1
  <1>3. CASE ~LI!CanMake(a, l)
    <2>1. LI!AddTail(a, l, w[k + 1]) = a
      BY <1>3 DEF LI!AddTail
    <2>2. j \in 0 .. (k + 1)
      OBVIOUS
    <2> QED
      BY <1>2, <1>3, <2>1, <2>2 DEF TailAt
  <1>4. CASE LI!CanMake(a, l)
    <2>1. j = k
      BY <1>2, <1>4
    <2>2. PICK c, v, o, m : c = Len(F[l]) /\ v = View(g, F)[l] /\ o = w[k + 1]
          /\ m = LI!AddTail(a, l, o)
      OBVIOUS
    <2>3. v \in Seq(LIData) /\ Len(v) = c /\ c \in Nat /\ o \in LIData /\ Len(w) \in Nat
      <3>1. k + 1 \in 1 .. Len(w)
        OBVIOUS
      <3> QED
        BY <2>2, <3>1, LIView
    <2>4. PICK C, O : Good(a, A, C, O) /\ NoneHeld(O)
      BY <1>2 DEF Copied
    <2>5. Len(A[l]) = c + k
      <3>1. c \in 0 .. Len(F[l]) /\ 0 \in Nat /\ 0 + k <= Len(w)
            /\ Copied(g, F, a, A, l, c, w, 0, k)
        BY <1>2, <2>1, <2>2, <2>3
      <3>2. Longer(A, F, l, k)
        BY <2>2, <3>1, LICopiedChain
      <3> QED
        BY <2>2, <3>2 DEF Longer
    <2>6. Adds(a, m, A, l, c + k + 1, o)
      <3>1. Adds(a, LI!AddTail(a, l, o), A, l, Len(A[l]) + 1, o)
        BY <1>4, <2>3, <2>4, LIAddTail DEF LIData
      <3> QED
        BY <2>2, <2>5, <3>1
    <2>7. LI!S!Inserted(Mixed(v, c, w, 0, k), c + k + 1, o) = Mixed(v, c, w, 0, k + 1)
      <3>0. PICK b : b = 0
        OBVIOUS
      <3>1. c \in 0 .. Len(v) /\ b \in Nat /\ b + k + 1 <= Len(w) /\ b + k + 1 = k + 1
        BY <2>3, <3>0
      <3>2. LI!S!Inserted(Mixed(v, c, w, b, k), c + k + 1, w[b + k + 1]) = Mixed(v, c, w, b, k + 1)
        BY <2>3, <3>1, LIMixAfter
      <3> QED
        BY <2>2, <3>0, <3>1, <3>2
    <2>8. Copied(g, F, m, Put(A, l, LI!S!Inserted(A[l], c + k + 1, LI!NewNode(a, l))), l, c, w, 0, k + 1)
      <3>1. Copied(g, F, a, A, l, c, w, 0, k)
        BY <1>2, <2>1, <2>2
      <3> QED
        BY <2>2, <2>6, <2>7, <3>1, LICopyStep
    <2>9. k + 1 \in 0 .. (k + 1)
      OBVIOUS
    <2> QED
      BY <2>2, <2>8, <2>9 DEF TailAt
  <1> QED
    BY <1>3, <1>4

LEMMA LINewNode ==
  ASSUME NEW g, NEW F, NEW C, NEW O, Good(g, F, C, O), NEW l \in li_Lists, LI!CanMake(g, l)
  PROVE  LI!NewNode(g, l) \in LI!Nodes
  <1>1. PICK n, c : n = LI!NewNode(g, l) /\ c = LI!Made(g, l, LI!None)
    OBVIOUS
  <1>2. n \in LI!Nodes
    BY <1>1, LINew
  <1> QED
    BY <1>1, <1>2

LEMMA LIHeadStep ==
  ASSUME NEW g, g.data \in [LI!Nodes -> LIData], NEW F \in Chains, NEW l \in li_Lists, NEW w \in Seq(LIData),
         NEW k \in Nat, k < Len(w), NEW a, HeadAt(g, F, l, w, a, k)
  PROVE  HeadAt(g, F, l, w, LI!AddHead(a, l, w[Len(w) - k]), k + 1)
  <1>1. PICK A : \E j \in 0 .. k : /\ Copied(g, F, a, A, l, 0, w, Len(w) - j, j)
                                   /\ j = k \/ ~LI!CanMake(a, l)
    BY DEF HeadAt
  <1>2. PICK j \in 0 .. k : Copied(g, F, a, A, l, 0, w, Len(w) - j, j) /\ (j = k \/ ~LI!CanMake(a, l))
    BY <1>1
  <1>3. CASE ~LI!CanMake(a, l)
    <2>1. LI!AddHead(a, l, w[Len(w) - k]) = a
      BY <1>3 DEF LI!AddHead
    <2>2. j \in 0 .. (k + 1)
      OBVIOUS
    <2> QED
      BY <1>2, <1>3, <2>1, <2>2 DEF HeadAt
  <1>4. CASE LI!CanMake(a, l)
    <2>1. j = k
      BY <1>2, <1>4
    <2>2. PICK b, v, o, m : b = Len(w) - k /\ v = View(g, F)[l] /\ o = w[b]
          /\ m = LI!AddHead(a, l, o)
      OBVIOUS
    <2>3. v \in Seq(LIData) /\ b \in Nat /\ b # 0 /\ b + k <= Len(w) /\ o \in LIData
          /\ Len(w) \in Nat
          /\ b - 1 = Len(w) - (k + 1)
      <3>1. Len(w) \in Nat
        OBVIOUS
      <3>2. b \in 1 .. Len(w) /\ b + k <= Len(w) /\ b - 1 = Len(w) - (k + 1)
        BY <2>2, <3>1
      <3> QED
        BY <2>2, <3>1, <3>2, LIView
    <2>4. PICK C, O : Good(a, A, C, O) /\ NoneHeld(O)
      BY <1>2 DEF Copied
    <2>5. Adds(a, m, A, l, 1, o)
      BY <1>4, <2>2, <2>3, <2>4, LIAddHead DEF LIData
    <2>6. LI!S!Inserted(Mixed(v, 0, w, b, k), 1, o) = Mixed(v, 0, w, b - 1, k + 1)
      <3>1. 0 \in 0 .. Len(v) /\ 0 + 1 = 1
        BY <2>3
      <3>2. LI!S!Inserted(Mixed(v, 0, w, b, k), 0 + 1, w[b]) = Mixed(v, 0, w, b - 1, k + 1)
        BY <2>3, <3>1, LIMixBefore
      <3> QED
        BY <2>2, <3>1, <3>2
    <2>7. Copied(g, F, m, Put(A, l, LI!S!Inserted(A[l], 1, LI!NewNode(a, l))), l, 0, w, b - 1, k + 1)
      <3>1. Copied(g, F, a, A, l, 0, w, b, k)
        BY <1>2, <2>1, <2>2
      <3> QED
        BY <2>2, <2>5, <2>6, <3>1, LICopyStep
    <2>8. k + 1 \in 0 .. (k + 1)
      OBVIOUS
    <2> QED
      BY <2>2, <2>3, <2>7, <2>8 DEF HeadAt
  <1> QED
    BY <1>3, <1>4

(* The new node is the element at its place.                               *)
IsAt(A, l, i, n) == A[l][i] = n

LEMMA LINewAt ==
  ASSUME NEW A \in Chains, NEW l \in li_Lists, NEW i \in 1 .. Len(A[l]) + 1, NEW n \in LI!Nodes
  PROVE  IsAt(Put(A, l, LI!S!Inserted(A[l], i, n)), l, i, n)
  <1>1. PICK s, z : s = A[l] /\ z = LI!S!Inserted(s, i, n)
    OBVIOUS
  <1>2. s \in Seq(LI!Nodes)
    BY <1>1 DEF Chains
  <1>3. IsInserted(LI!S!Inserted(s, i, n), LI!Nodes, s, i, n)
    BY <1>1, <1>2, LIIsInserted
  <1>4. z[i] = n
    <2>1. IsInserted(z, LI!Nodes, s, i, n) /\ Len(s) \in Nat /\ i \in 1 .. Len(s) + 1
      BY <1>1, <1>2, <1>3
    <2>2. i \in 1 .. Len(z)
      BY <2>1 DEF IsInserted
    <2> QED
      BY <2>1, <2>2 DEF IsInserted
  <1>5. Put(A, l, z)[l] = z
    BY DEF Chains, Put
  <1> QED
    BY <1>1, <1>4, <1>5 DEF IsAt

LEMMA LIAfterStep ==
  ASSUME NEW g, g.data \in [LI!Nodes -> LIData], NEW F \in Chains, NEW l \in li_Lists, NEW w \in Seq(LIData),
         NEW c \in 1 .. Len(F[l]), NEW k \in Nat, k < Len(w), NEW a, NEW p, AfterAt(g, F, l, c, w, a, p, k)
  PROVE  AfterAt(g, F, l, c, w, LI!AddAfter(a, l, p, w[k + 1]), LI!Where(a, l, p), k + 1)
  <1>1. PICK A : \E j \in 0 .. k : /\ Copied(g, F, a, A, l, c, w, 0, j) /\ p = A[l][c + j] /\ p \in LI!Nodes
                                   /\ j = k \/ ~LI!CanMake(a, l)
    BY DEF AfterAt
  <1>2. PICK j \in 0 .. k : /\ Copied(g, F, a, A, l, c, w, 0, j) /\ p = A[l][c + j] /\ p \in LI!Nodes
                            /\ j = k \/ ~LI!CanMake(a, l)
    BY <1>1
  <1>3. PICK v : v = View(g, F)[l]
    OBVIOUS
  <1>4. v \in Seq(LIData) /\ Len(v) = Len(F[l]) /\ Len(F[l]) \in Nat /\ Len(w) \in Nat
    BY <1>3, LIView, LIChain
  <1>5. PICK C, O : Good(a, A, C, O) /\ NoneHeld(O)
    BY <1>2 DEF Copied
  <1>6. c \in 0 .. Len(F[l]) /\ 0 \in Nat /\ j \in Nat /\ 0 + j <= Len(w)
    BY <1>4
  <1>7. A \in Chains /\ Longer(A, F, l, j)
    BY <1>2, <1>6, LICopiedChain
  <1>8. c + j \in 1 .. Len(A[l]) /\ Len(A[l]) \in Nat /\ p \in LI!Nodes /\ p # LI!NULL
    <2>1. Len(A[l]) = Len(F[l]) + j
      BY <1>7 DEF Longer
    <2>2. c + j \in 1 .. Len(A[l]) /\ Len(A[l]) \in Nat
      BY <1>4, <1>6, <2>1
    <2> QED
      BY <1>2, <1>7, <2>2, LIChain, LINodes
  <1>9. CASE ~LI!CanMake(a, l)
    <2>1. LI!Where(a, l, p) = p /\ LI!AddAfter(a, l, p, w[k + 1]) = a
      BY <1>8, <1>9 DEF LI!AddAfter, LI!AddTail, LI!Between, LI!Where
    <2>2. j \in 0 .. (k + 1)
      OBVIOUS
    <2> QED
      BY <1>2, <1>9, <2>1, <2>2 DEF AfterAt
  <1>10. CASE LI!CanMake(a, l)
    <2>1. j = k
      BY <1>2, <1>10
    <2>2. PICK o, m, n, i : o = w[k + 1] /\ m = LI!AddAfter(a, l, p, o)
          /\ n = LI!NewNode(a, l) /\ i = c + k + 1
      OBVIOUS
    <2>3. o \in LIData /\ k + 1 \in 1 .. Len(w)
      <3>1. k + 1 \in 1 .. Len(w)
        BY <1>4
      <3> QED
        BY <2>2, <3>1
    <2>4. Adds(a, m, A, l, i, o)
      <3>1. Adds(a, LI!AddAfter(a, l, A[l][c + k], o), A, l, c + k + 1, o)
        BY <1>5, <1>8, <1>10, <2>1, <2>3, LIAddAfter DEF LIData
      <3> QED
        BY <1>2, <2>1, <2>2, <3>1
    <2>5. LI!S!Inserted(Mixed(v, c, w, 0, k), i, o) = Mixed(v, c, w, 0, k + 1)
      <3>1. c \in 0 .. Len(v) /\ 0 + k + 1 <= Len(w) /\ 0 + k + 1 = k + 1
        BY <1>4, <1>6
      <3>2. LI!S!Inserted(Mixed(v, c, w, 0, k), c + k + 1, w[0 + k + 1]) = Mixed(v, c, w, 0, k + 1)
        BY <1>4, <1>6, <3>1, LIMixAfter
      <3> QED
        BY <2>2, <3>1, <3>2
    <2>6. Copied(g, F, m, Put(A, l, LI!S!Inserted(A[l], i, n)), l, c, w, 0, k + 1)
      <3>1. Copied(g, F, a, A, l, c, w, 0, k)
        BY <1>2, <2>1
      <3> QED
        BY <1>3, <2>2, <2>4, <2>5, <3>1, LICopyStep
    <2>7. IsAt(Put(A, l, LI!S!Inserted(A[l], i, n)), l, i, n)
      <3>1. n \in LI!Nodes
        BY <1>5, <1>10, <2>2, LINewNode
      <3>2. i \in 1 .. Len(A[l]) + 1
        BY <1>6, <1>8, <2>1, <2>2
      <3> QED
        BY <1>7, <3>1, <3>2, LINewAt
    <2>8. LI!Where(a, l, p) = n /\ n \in LI!Nodes /\ k + 1 \in 0 .. (k + 1)
          /\ i = c + (k + 1)
      BY <1>5, <1>6, <1>10, <2>2, LINewNode DEF LI!Where
    <2> QED
      BY <2>2, <2>6, <2>7, <2>8 DEF AfterAt, IsAt
  <1> QED
    BY <1>9, <1>10

LEMMA LIBeforeStep ==
  ASSUME NEW g, g.data \in [LI!Nodes -> LIData], NEW F \in Chains, NEW l \in li_Lists, NEW w \in Seq(LIData),
         NEW c \in 0 .. Len(F[l]), c < Len(F[l]), NEW k \in Nat, k < Len(w), NEW a, NEW p,
         BeforeAt(g, F, l, c, w, a, p, k)
  PROVE  BeforeAt(g, F, l, c, w, LI!AddBefore(a, l, p, w[Len(w) - k]), LI!Where(a, l, p), k + 1)
  <1>1. PICK A : \E j \in 0 .. k : /\ Copied(g, F, a, A, l, c, w, Len(w) - j, j) /\ p = A[l][c + 1] /\ p \in LI!Nodes
                                   /\ j = k \/ ~LI!CanMake(a, l)
    BY DEF BeforeAt
  <1>2. PICK j \in 0 .. k : /\ Copied(g, F, a, A, l, c, w, Len(w) - j, j) /\ p = A[l][c + 1] /\ p \in LI!Nodes
                            /\ j = k \/ ~LI!CanMake(a, l)
    BY <1>1
  <1>3. PICK v, b : v = View(g, F)[l] /\ b = Len(w) - j
    OBVIOUS
  <1>4. v \in Seq(LIData) /\ Len(v) = Len(F[l]) /\ Len(F[l]) \in Nat /\ Len(w) \in Nat
    BY <1>3, LIView, LIChain
  <1>5. PICK C, O : Good(a, A, C, O) /\ NoneHeld(O)
    BY <1>2 DEF Copied
  <1>6. b \in Nat /\ j \in Nat /\ c \in Nat /\ b + j <= Len(w) /\ b # 0
    BY <1>3, <1>4
  <1>7. A \in Chains /\ Longer(A, F, l, j)
    BY <1>2, <1>3, <1>6, LICopiedChain
  <1>8. c + 1 \in 1 .. Len(A[l]) /\ Len(A[l]) \in Nat /\ p \in LI!Nodes /\ p # LI!NULL
    <2>1. Len(A[l]) = Len(F[l]) + j
      BY <1>7 DEF Longer
    <2>2. c + 1 \in 1 .. Len(A[l]) /\ Len(A[l]) \in Nat
      BY <1>4, <1>6, <2>1
    <2> QED
      BY <1>2, <1>7, <2>2, LIChain, LINodes
  <1>9. CASE ~LI!CanMake(a, l)
    <2>1. LI!Where(a, l, p) = p /\ LI!AddBefore(a, l, p, w[Len(w) - k]) = a
      BY <1>8, <1>9 DEF LI!AddBefore, LI!AddHead, LI!Between, LI!Where
    <2>2. j \in 0 .. (k + 1)
      OBVIOUS
    <2> QED
      BY <1>2, <1>9, <2>1, <2>2 DEF BeforeAt
  <1>10. CASE LI!CanMake(a, l)
    <2>1. j = k
      BY <1>2, <1>10
    <2>2. PICK o, m, n, i : o = w[b] /\ m = LI!AddBefore(a, l, p, o)
          /\ n = LI!NewNode(a, l) /\ i = c + 1
      OBVIOUS
    <2>3. o \in LIData /\ b \in 1 .. Len(w) /\ b - 1 = Len(w) - (k + 1)
      <3>1. b \in 1 .. Len(w) /\ b - 1 = Len(w) - (k + 1)
        BY <1>3, <1>4, <1>6, <2>1
      <3> QED
        BY <2>2, <3>1
    <2>4. Adds(a, m, A, l, i, o)
      <3>1. Adds(a, LI!AddBefore(a, l, A[l][c + 1], o), A, l, c + 1, o)
        BY <1>5, <1>8, <1>10, <2>3, LIAddBefore DEF LIData
      <3> QED
        BY <1>2, <2>2, <3>1
    <2>5. LI!S!Inserted(Mixed(v, c, w, b, k), i, o) = Mixed(v, c, w, b - 1, k + 1)
      <3>1. c \in 0 .. Len(v) /\ b + k <= Len(w)
        BY <1>4, <1>6, <2>1
      <3>2. LI!S!Inserted(Mixed(v, c, w, b, k), c + 1, w[b]) = Mixed(v, c, w, b - 1, k + 1)
        BY <1>4, <1>6, <3>1, LIMixBefore
      <3> QED
        BY <2>2, <3>1, <3>2
    <2>6. Copied(g, F, m, Put(A, l, LI!S!Inserted(A[l], i, n)), l, c, w, b - 1, k + 1)
      <3>1. Copied(g, F, a, A, l, c, w, b, k)
        BY <1>2, <1>3, <2>1
      <3> QED
        BY <1>3, <2>2, <2>4, <2>5, <3>1, LICopyStep
    <2>7. IsAt(Put(A, l, LI!S!Inserted(A[l], i, n)), l, i, n)
      <3>1. n \in LI!Nodes
        BY <1>5, <1>10, <2>2, LINewNode
      <3>2. i \in 1 .. Len(A[l]) + 1
        BY <1>6, <1>8, <2>2
      <3> QED
        BY <1>7, <3>1, <3>2, LINewAt
    <2>8. LI!Where(a, l, p) = n /\ n \in LI!Nodes /\ k + 1 \in 0 .. (k + 1)
      BY <1>5, <1>10, <2>2, LINewNode DEF LI!Where
    <2>9. Copied(g, F, m, Put(A, l, LI!S!Inserted(A[l], i, n)), l, c, w, Len(w) - (k + 1), k + 1)
      BY <2>3, <2>6
    <2>10. LI!AddBefore(a, l, p, w[Len(w) - k]) = m
      BY <1>3, <2>1, <2>2
    <2> QED
      BY <2>2, <2>7, <2>8, <2>9, <2>10 DEF BeforeAt, IsAt
  <1> QED
    BY <1>9, <1>10

(* A copy that begins with no object, and what it is at the end.           *)
LEMMA LICopyNone ==
  ASSUME NEW g, NEW F, NEW C, NEW O, Good(g, F, C, O), NoneHeld(O), NEW l \in li_Lists,
         NEW c \in 0 .. Len(F[l]), NEW w \in Seq(LIData), NEW b \in Nat, b <= Len(w)
  PROVE  Copied(g, F, g, F, l, c, w, b, 0)
  <1>1. PICK V, v, x : V = View(g, F) /\ v = V[l] /\ x = Mixed(View(g, F)[l], c, w, b, 0)
    OBVIOUS
  <1>2. F \in Chains /\ g.data \in [LI!Nodes -> LIData]
    BY LIHeapTypes DEF Good, LIData
  <1>3. v \in Seq(LIData) /\ Len(v) = Len(F[l])
    BY <1>1, <1>2, LIView
  <1>4. x = v
    <2>1. c \in 0 .. Len(v)
      BY <1>3
    <2>2. Mixed(v, c, w, b, 0) = v
      BY <1>3, <2>1, LIMixNone
    <2> QED
      BY <1>1, <2>2
  <1>5. V = [k \in li_Lists |-> V[k]]
    BY <1>1 DEF View
  <1>6. Put(V, l, V[l]) = V
    BY <1>5, LIPutPut
  <1> QED
    BY <1>1, <1>4, <1>6 DEF Copied

(* What the lists become when the beginning or the end of w goes in.       *)
CopiesIn(g, m, F, l, w) ==
  \E c \in 0 .. Len(View(g, F)[l]), j \in 0 .. Len(w) :
    \E y \in {SubSeq(w, 1, j), SubSeq(w, j + 1, Len(w))} :
      Becomes(g, m, F, l, SubSeq(View(g, F)[l], 1, c) \o y
                            \o SubSeq(View(g, F)[l], c + 1, Len(View(g, F)[l])))

IsParts(x, v, c, w, b, j) ==
  x = SubSeq(v, 1, c) \o SubSeq(w, b + 1, b + j) \o SubSeq(v, c + 1, Len(v))

LEMMA LIParts ==
  ASSUME NEW A, NEW v \in Seq(A), NEW w \in Seq(A), NEW c \in 0 .. Len(v),
         NEW b \in Nat, NEW j \in Nat, b + j <= Len(w)
  PROVE  IsParts(Mixed(v, c, w, b, j), v, c, w, b, j)
  BY LIMixParts, Zenon DEF IsParts

LEMMA LICopiesIn ==
  ASSUME NEW g, g.data \in [LI!Nodes -> LIData], NEW F \in Chains, NEW a, NEW A, NEW l \in li_Lists,
         NEW w \in Seq(LIData), NEW c \in 0 .. Len(F[l]), NEW b \in Nat, NEW j \in Nat, b + j <= Len(w),
         Copied(g, F, a, A, l, c, w, b, j), b = 0 \/ b + j = Len(w)
  PROVE  CopiesIn(g, a, F, l, w)
  <1>1. PICK v, y : v = View(g, F)[l] /\ y = SubSeq(w, b + 1, b + j)
    OBVIOUS
  <1>2. v \in Seq(LIData) /\ Len(v) = Len(F[l]) /\ c \in 0 .. Len(v) /\ Len(w) \in Nat
    BY <1>1, LIView
  <1>3. Mixed(v, c, w, b, j) = SubSeq(v, 1, c) \o y \o SubSeq(v, c + 1, Len(v))
    <2>1. IsParts(Mixed(v, c, w, b, j), v, c, w, b, j)
      BY <1>2, LIParts
    <2> QED
      BY <1>1, <2>1 DEF IsParts
  <1>4. Becomes(g, a, F, l, SubSeq(v, 1, c) \o y \o SubSeq(v, c + 1, Len(v)))
    BY <1>1, <1>3 DEF Copied, Becomes
  <1>5. CASE b = 0
    <2>1. j \in 0 .. Len(w) /\ b + 1 = 1 /\ b + j = j
      BY <1>2, <1>5
    <2>2. y \in {SubSeq(w, 1, j), SubSeq(w, j + 1, Len(w))}
      BY <1>1, <2>1
    <2> QED
      BY <1>1, <1>2, <1>4, <2>1, <2>2 DEF CopiesIn
  <1>6. CASE b + j = Len(w)
    <2>1. b \in 0 .. Len(w)
      BY <1>2, <1>6
    <2>2. y \in {SubSeq(w, 1, b), SubSeq(w, b + 1, Len(w))}
      BY <1>1, <1>6
    <2> QED
      BY <1>1, <1>2, <1>4, <2>1, <2>2 DEF CopiesIn
  <1> QED
    BY <1>5, <1>6

LEMMA LICopyTail ==
  ASSUME NEW g, NEW F, NEW C, NEW O, Good(g, F, C, O), NoneHeld(O), NEW l \in li_Lists, NEW m \in li_Lists
  PROVE  CopiesIn(g, LI!AddListToTail(g, l, m), F, l, View(g, F)[m])
  <1>1. PICK s, w, n, c, z : s = F[m] /\ w = View(g, F)[m] /\ n = Len(s) /\ c = Len(F[l])
        /\ z = g
    OBVIOUS
  <1>2. LI!Forward(g, m) = s /\ F \in Chains /\ g \in LIHeap
        /\ g.data \in [LI!Nodes -> LIData]
    BY <1>1, LIWalks, LIHeapTypes DEF Good, LIData
  <1>3. /\ w \in Seq(LIData) /\ Len(w) = n /\ n \in Nat
        /\ \A k \in 1 .. n : w[k] = g.data[s[k]]
    BY <1>1, <1>2, LIView, LIChain
  <1>4. c \in 0 .. Len(F[l])
    BY <1>1, <1>2, LIChain
  <1> DEFINE I == {x \in LIHeap \X (0 .. n) : TailAt(g, F, l, w, x[1], x[2])}
             T == [x \in I |-> LI!AddTail(x[1], l, w[x[2] + 1])]
             u == CHOOSE f : f = [k \in 0 .. n |-> IF k = 0 THEN z
                      ELSE LI!AddTail(f[k - 1], l, g.data[s[k]])]
  <1>5. LI!AddListToTail(g, l, m) = u[n]
    BY <1>1, <1>2 DEF LI!AddListToTail
  <1>6. \A a, k : <<a, k>> \in I => a \in LIHeap /\ k \in 0 .. n /\ TailAt(g, F, l, w, a, k)
    OBVIOUS
  <1>7. \A a, k : a \in LIHeap /\ k \in 0 .. n /\ TailAt(g, F, l, w, a, k) => <<a, k>> \in I
    OBVIOUS
  <1>8. \A a, k : <<a, k>> \in I => T[<<a, k>>] = LI!AddTail(a, l, w[k + 1])
    OBVIOUS
  <1> HIDE DEF I, T
  <1>9. <<z, 0>> \in I
    <2>1. z = g
      BY <1>1, <1>2, <1>4, LIChain
    <2>2. Copied(g, F, g, F, l, c, w, 0, 0)
      <3>1. 0 \in Nat /\ 0 <= Len(w)
        BY <1>3
      <3> QED
        BY <1>3, <1>4, <3>1, LICopyNone
    <2>3. 0 \in 0 .. 0 /\ 0 \in 0 .. n /\ z \in LIHeap
      BY <1>1, <1>2, <1>3, <2>1
    <2>4. TailAt(g, F, l, w, z, 0)
      BY <1>1, <2>1, <2>2, <2>3 DEF TailAt
    <2> QED
      BY <1>7, <2>3, <2>4
  <1>10. ASSUME NEW a, NEW k, <<a, k>> \in I, k \in 0 .. (n - 1)
        PROVE  <<T[<<a, k>>], k + 1>> \in I
    <2>1. PICK y : y = LI!AddTail(a, l, w[k + 1])
      OBVIOUS
    <2>2. k \in Nat /\ k < Len(w) /\ k + 1 \in 0 .. n
      BY <1>3, <1>10
    <2>3. TailAt(g, F, l, w, y, k + 1)
      BY <1>2, <1>3, <1>4, <1>6, <1>10, <2>1, <2>2, LITailStep
    <2>4. y \in LIHeap
      BY <2>1, <2>3 DEF TailAt, Copied, Good
    <2> QED
      BY <1>7, <1>8, <1>10, <2>1, <2>2, <2>3, <2>4
  <1>11. \E f : f = [k \in 0 .. n |-> IF k = 0 THEN z
                      ELSE LI!AddTail(f[k - 1], l, g.data[s[k]])]
    <2>0. PICK f : Runs(f, n, I, T, z)
      BY <1>3, <1>9, <1>10, LILoop
    <2>1. /\ f = [k \in 0 .. n |-> f[k]] /\ f[0] = z
          /\ \A k \in 0 .. (n - 1) : f[k + 1] = T[<<f[k], k>>]
          /\ \A k \in 0 .. n : <<f[k], k>> \in I
      BY <2>0, Zenon DEF Runs
    <2>2. ASSUME NEW k \in 0 .. n, k # 0
          PROVE  f[k] = LI!AddTail(f[k - 1], l, g.data[s[k]])
      <3>1. PICK d : d = k - 1
        OBVIOUS
      <3>2. /\ d \in 0 .. (n - 1) /\ d \in 0 .. n /\ d + 1 = k /\ k \in 1 .. n
            /\ TRUE
        BY <1>1, <1>3, <2>2, <3>1
      <3>3. f[k] = LI!AddTail(f[d], l, w[d + 1])
        BY <1>8, <2>1, <3>2
      <3> QED
        BY <1>3, <3>1, <3>2, <3>3
    <2>3. f = [k \in 0 .. n |-> IF k = 0 THEN z
                      ELSE LI!AddTail(f[k - 1], l, g.data[s[k]])]
      BY <2>1, <2>2, Zenon
    <2> QED
      BY <2>3
  <1>12. u = [k \in 0 .. n |-> IF k = 0 THEN z
                      ELSE LI!AddTail(u[k - 1], l, g.data[s[k]])]
    BY <1>11
  <1> HIDE DEF u
  <1>13. <<u[n], n>> \in I
    <2>1. u[0] = z
      BY <1>3, <1>12
    <2>2. ASSUME NEW k \in 0 .. (n - 1), <<u[k], k>> \in I PROVE u[k + 1] = T[<<u[k], k>>]
      <3>1. /\ k + 1 \in 0 .. n /\ k + 1 # 0 /\ k + 1 - 1 = k /\ k + 1 \in 1 .. n
            /\ TRUE
        <4>1. Len(s) = n /\ Len(w) = n /\ n \in Nat
          BY <1>1, <1>3
        <4> QED
          BY <4>1
      <3>2. u[k + 1] = LI!AddTail(u[k], l, w[k + 1])
        <4>1. PICK d : d = k + 1
          OBVIOUS
        <4>2. d \in 0 .. n /\ d # 0 /\ d - 1 = k
          BY <3>1, <4>1
        <4>3. u[d] = LI!AddTail(u[d - 1], l, g.data[s[d]])
          BY <1>12, <4>2
        <4>4. g.data[s[(k + 1)]] = w[k + 1]
          BY <1>3, <3>1
        <4> QED
          BY <4>1, <4>2, <4>3, <4>4
      <3> QED
        BY <1>8, <2>2, <3>2
    <2> QED
      BY <1>3, <1>9, <1>10, <2>1, <2>2, LILoopStays
  <1>14. PICK A, j : j \in 0 .. n /\ Copied(g, F, u[n], A, l, c, w, 0, j)
    <2>1. TailAt(g, F, l, w, u[n], n)
      BY <1>6, <1>13
    <2> QED
      BY <1>1, <2>1 DEF TailAt
  <1>15. /\ 0 \in Nat /\ j \in Nat /\ 0 + j <= Len(w)
         /\ 0 = 0 \/ 0 + j = Len(w)
    BY <1>3, <1>14
  <1>16. CopiesIn(g, u[n], F, l, w)
    BY <1>2, <1>3, <1>4, <1>14, <1>15, LICopiesIn
  <1> QED
    BY <1>1, <1>5, <1>16

LEMMA LICopyHead ==
  ASSUME NEW g, NEW F, NEW C, NEW O, Good(g, F, C, O), NoneHeld(O), NEW l \in li_Lists, NEW m \in li_Lists
  PROVE  CopiesIn(g, LI!AddListToHead(g, l, m), F, l, View(g, F)[m])
  <1>1. PICK s, w, n, c, z : s = F[m] /\ w = View(g, F)[m] /\ n = Len(s) /\ c = 0 /\ z = g
    OBVIOUS
  <1>2. LI!Forward(g, m) = s /\ F \in Chains /\ g \in LIHeap
        /\ g.data \in [LI!Nodes -> LIData]
    BY <1>1, LIWalks, LIHeapTypes DEF Good, LIData
  <1>3. /\ w \in Seq(LIData) /\ Len(w) = n /\ n \in Nat
        /\ \A k \in 1 .. n : w[k] = g.data[s[k]]
    BY <1>1, <1>2, LIView, LIChain
  <1>4. c \in 0 .. Len(F[l])
    BY <1>1, <1>2, LIChain
  <1> DEFINE I == {x \in LIHeap \X (0 .. n) : HeadAt(g, F, l, w, x[1], x[2])}
             T == [x \in I |-> LI!AddHead(x[1], l, w[Len(w) - x[2]])]
             u == CHOOSE f : f = [k \in 0 .. n |-> IF k = 0 THEN z
                      ELSE LI!AddHead(f[k - 1], l, g.data[s[Len(s) + 1 - k]])]
  <1>5. LI!AddListToHead(g, l, m) = u[n]
    BY <1>1, <1>2 DEF LI!AddListToHead
  <1>6. \A a, k : <<a, k>> \in I => a \in LIHeap /\ k \in 0 .. n /\ HeadAt(g, F, l, w, a, k)
    OBVIOUS
  <1>7. \A a, k : a \in LIHeap /\ k \in 0 .. n /\ HeadAt(g, F, l, w, a, k) => <<a, k>> \in I
    OBVIOUS
  <1>8. \A a, k : <<a, k>> \in I => T[<<a, k>>] = LI!AddHead(a, l, w[Len(w) - k])
    OBVIOUS
  <1> HIDE DEF I, T
  <1>9. <<z, 0>> \in I
    <2>1. z = g
      BY <1>1, <1>2, <1>4, LIChain
    <2>2. Copied(g, F, g, F, l, c, w, Len(w) - 0, 0)
      <3>1. Len(w) - 0 \in Nat /\ Len(w) - 0 <= Len(w)
        BY <1>3
      <3> QED
        BY <1>3, <1>4, <3>1, LICopyNone
    <2>3. 0 \in 0 .. 0 /\ 0 \in 0 .. n /\ z \in LIHeap
      BY <1>1, <1>2, <1>3, <2>1
    <2>4. HeadAt(g, F, l, w, z, 0)
      BY <1>1, <2>1, <2>2, <2>3 DEF HeadAt
    <2> QED
      BY <1>7, <2>3, <2>4
  <1>10. ASSUME NEW a, NEW k, <<a, k>> \in I, k \in 0 .. (n - 1)
        PROVE  <<T[<<a, k>>], k + 1>> \in I
    <2>1. PICK y : y = LI!AddHead(a, l, w[Len(w) - k])
      OBVIOUS
    <2>2. k \in Nat /\ k < Len(w) /\ k + 1 \in 0 .. n
      BY <1>3, <1>10
    <2>3. HeadAt(g, F, l, w, y, k + 1)
      BY <1>2, <1>3, <1>4, <1>6, <1>10, <2>1, <2>2, LIHeadStep
    <2>4. y \in LIHeap
      BY <2>1, <2>3 DEF HeadAt, Copied, Good
    <2> QED
      BY <1>7, <1>8, <1>10, <2>1, <2>2, <2>3, <2>4
  <1>11. \E f : f = [k \in 0 .. n |-> IF k = 0 THEN z
                      ELSE LI!AddHead(f[k - 1], l, g.data[s[Len(s) + 1 - k]])]
    <2>0. PICK f : Runs(f, n, I, T, z)
      BY <1>3, <1>9, <1>10, LILoop
    <2>1. /\ f = [k \in 0 .. n |-> f[k]] /\ f[0] = z
          /\ \A k \in 0 .. (n - 1) : f[k + 1] = T[<<f[k], k>>]
          /\ \A k \in 0 .. n : <<f[k], k>> \in I
      BY <2>0, Zenon DEF Runs
    <2>2. ASSUME NEW k \in 0 .. n, k # 0
          PROVE  f[k] = LI!AddHead(f[k - 1], l, g.data[s[Len(s) + 1 - k]])
      <3>1. PICK d : d = k - 1
        OBVIOUS
      <3>2. /\ d \in 0 .. (n - 1) /\ d \in 0 .. n /\ d + 1 = k /\ k \in 1 .. n
            /\ Len(w) - d = Len(s) + 1 - k /\ Len(s) + 1 - k \in 1 .. n
        BY <1>1, <1>3, <2>2, <3>1
      <3>3. f[k] = LI!AddHead(f[d], l, w[Len(w) - d])
        BY <1>8, <2>1, <3>2
      <3> QED
        BY <1>3, <3>1, <3>2, <3>3
    <2>3. f = [k \in 0 .. n |-> IF k = 0 THEN z
                      ELSE LI!AddHead(f[k - 1], l, g.data[s[Len(s) + 1 - k]])]
      BY <2>1, <2>2, Zenon
    <2> QED
      BY <2>3
  <1>12. u = [k \in 0 .. n |-> IF k = 0 THEN z
                      ELSE LI!AddHead(u[k - 1], l, g.data[s[Len(s) + 1 - k]])]
    BY <1>11
  <1> HIDE DEF u
  <1>13. <<u[n], n>> \in I
    <2>1. u[0] = z
      BY <1>3, <1>12
    <2>2. ASSUME NEW k \in 0 .. (n - 1), <<u[k], k>> \in I PROVE u[k + 1] = T[<<u[k], k>>]
      <3>1. /\ k + 1 \in 0 .. n /\ k + 1 # 0 /\ k + 1 - 1 = k /\ k + 1 \in 1 .. n
            /\ Len(w) - k = Len(s) + 1 - (k + 1) /\ Len(w) - k \in 1 .. n
        <4>1. Len(s) = n /\ Len(w) = n /\ n \in Nat
          BY <1>1, <1>3
        <4> QED
          BY <4>1
      <3>2. u[k + 1] = LI!AddHead(u[k], l, w[Len(w) - k])
        <4>1. PICK d : d = k + 1
          OBVIOUS
        <4>2. d \in 0 .. n /\ d # 0 /\ d - 1 = k
          BY <3>1, <4>1
        <4>3. u[d] = LI!AddHead(u[d - 1], l, g.data[s[Len(s) + 1 - d]])
          BY <1>12, <4>2
        <4>4. g.data[s[Len(s) + 1 - (k + 1)]] = w[Len(w) - k]
          BY <1>3, <3>1
        <4> QED
          BY <4>1, <4>2, <4>3, <4>4
      <3> QED
        BY <1>8, <2>2, <3>2
    <2> QED
      BY <1>3, <1>9, <1>10, <2>1, <2>2, LILoopStays
  <1>14. PICK A, j : j \in 0 .. n /\ Copied(g, F, u[n], A, l, c, w, Len(w) - j, j)
    <2>1. HeadAt(g, F, l, w, u[n], n)
      BY <1>6, <1>13
    <2> QED
      BY <1>1, <2>1 DEF HeadAt
  <1>15. /\ Len(w) - j \in Nat /\ j \in Nat /\ Len(w) - j + j <= Len(w)
         /\ Len(w) - j = 0 \/ Len(w) - j + j = Len(w)
    BY <1>3, <1>14
  <1>16. CopiesIn(g, u[n], F, l, w)
    BY <1>2, <1>3, <1>4, <1>14, <1>15, LICopiesIn
  <1> QED
    BY <1>1, <1>5, <1>16

LEMMA LICopyAfter ==
  ASSUME NEW g, NEW F, NEW C, NEW O, Good(g, F, C, O), NoneHeld(O), NEW l \in li_Lists, NEW m \in li_Lists,
         NEW i \in 1 .. Len(F[l])
  PROVE  CopiesIn(g, LI!AddListAfter(g, l, F[l][i], m), F, l, View(g, F)[m])
  <1>1. PICK s, w, n, c, z : s = F[m] /\ w = View(g, F)[m] /\ n = Len(s) /\ c = i
        /\ z = <<g, F[l][i]>>
    OBVIOUS
  <1>2. LI!Forward(g, m) = s /\ F \in Chains /\ g \in LIHeap
        /\ g.data \in [LI!Nodes -> LIData]
    BY <1>1, LIWalks, LIHeapTypes DEF Good, LIData
  <1>3. /\ w \in Seq(LIData) /\ Len(w) = n /\ n \in Nat
        /\ \A k \in 1 .. n : w[k] = g.data[s[k]]
    BY <1>1, <1>2, LIView, LIChain, SMTT(40)
  <1>4. c \in 0 .. Len(F[l]) /\ c \in 1 .. Len(F[l])
    BY <1>1, <1>2, LIChain
  <1> DEFINE I == {x \in (LIHeap \X LI!Nodes) \X (0 .. n) : AfterAt(g, F, l, c, w, x[1][1], x[1][2], x[2])}
             T == [x \in I |-> <<LI!AddAfter(x[1][1], l, x[1][2], w[x[2] + 1]), LI!Where(x[1][1], l, x[1][2])>>]
             u == CHOOSE f : f = [k \in 0 .. n |-> IF k = 0 THEN z
                      ELSE LET a == f[k - 1] IN <<LI!AddAfter(a[1], l, a[2], g.data[s[k]]), LI!Where(a[1], l, a[2])>>]
  <1>5. LI!AddListAfter(g, l, F[l][i], m) = u[n][1]
    BY <1>1, <1>2 DEF LI!AddListAfter
  <1>6. \A a, k : <<a, k>> \in I => a \in LIHeap \X LI!Nodes /\ k \in 0 .. n /\ AfterAt(g, F, l, c, w, a[1], a[2], k)
    OBVIOUS
  <1>7. \A a, k : a \in LIHeap \X LI!Nodes /\ k \in 0 .. n /\ AfterAt(g, F, l, c, w, a[1], a[2], k) => <<a, k>> \in I
    OBVIOUS
  <1>8. \A a, k : <<a, k>> \in I => T[<<a, k>>] = <<LI!AddAfter(a[1], l, a[2], w[k + 1]), LI!Where(a[1], l, a[2])>>
    OBVIOUS
  <1> HIDE DEF I, T
  <1>9. <<z, 0>> \in I
    <2>1. z[1] = g /\ z[2] = F[l][i] /\ F[l][i] \in LI!Nodes /\ F[l][i] = F[l][c + 0]
      BY <1>1, <1>2, <1>4, LIChain
    <2>2. Copied(g, F, g, F, l, c, w, 0, 0)
      <3>1. 0 \in Nat /\ 0 <= Len(w)
        BY <1>3
      <3> QED
        BY <1>3, <1>4, <3>1, LICopyNone
    <2>3. 0 \in 0 .. 0 /\ 0 \in 0 .. n /\ z \in LIHeap \X LI!Nodes
      BY <1>1, <1>2, <1>3, <2>1
    <2>4. AfterAt(g, F, l, c, w, z[1], z[2], 0)
      BY <1>1, <2>1, <2>2, <2>3 DEF AfterAt
    <2> QED
      BY <1>7, <2>3, <2>4
  <1>10. ASSUME NEW a, NEW k, <<a, k>> \in I, k \in 0 .. (n - 1)
        PROVE  <<T[<<a, k>>], k + 1>> \in I
    <2>1. PICK y : y = <<LI!AddAfter(a[1], l, a[2], w[k + 1]), LI!Where(a[1], l, a[2])>>
      OBVIOUS
    <2>2. k \in Nat /\ k < Len(w) /\ k + 1 \in 0 .. n
      BY <1>3, <1>10
    <2>3. AfterAt(g, F, l, c, w, y[1], y[2], k + 1)
      BY <1>2, <1>3, <1>4, <1>6, <1>10, <2>1, <2>2, LIAfterStep
    <2>4. y \in LIHeap \X LI!Nodes
      BY <2>1, <2>3 DEF AfterAt, Copied, Good
    <2> QED
      BY <1>7, <1>8, <1>10, <2>1, <2>2, <2>3, <2>4
  <1>11. \E f : f = [k \in 0 .. n |-> IF k = 0 THEN z
                      ELSE LET a == f[k - 1] IN <<LI!AddAfter(a[1], l, a[2], g.data[s[k]]), LI!Where(a[1], l, a[2])>>]
    <2>0. PICK f : Runs(f, n, I, T, z)
      BY <1>3, <1>9, <1>10, LILoop
    <2>1. /\ f = [k \in 0 .. n |-> f[k]] /\ f[0] = z
          /\ \A k \in 0 .. (n - 1) : f[k + 1] = T[<<f[k], k>>]
          /\ \A k \in 0 .. n : <<f[k], k>> \in I
      BY <2>0, Zenon DEF Runs
    <2>2. ASSUME NEW k \in 0 .. n, k # 0
          PROVE  f[k] = LET a == f[k - 1] IN <<LI!AddAfter(a[1], l, a[2], g.data[s[k]]), LI!Where(a[1], l, a[2])>>
      <3>1. PICK d : d = k - 1
        OBVIOUS
      <3>2. /\ d \in 0 .. (n - 1) /\ d \in 0 .. n /\ d + 1 = k /\ k \in 1 .. n
        BY <1>3, <2>2, <3>1
      <3>3. f[k] = <<LI!AddAfter(f[d][1], l, f[d][2], w[d + 1]), LI!Where(f[d][1], l, f[d][2])>>
        <4>1. f[d + 1] = T[<<f[d], d>>] /\ <<f[d], d>> \in I
          BY <2>1, <3>2
        <4>2. f[k] = T[<<f[d], d>>]
          BY <3>2, <4>1
        <4> QED
          BY <1>8, <4>1, <4>2
      <3> QED
        BY <1>3, <3>1, <3>2, <3>3
    <2>3. f = [k \in 0 .. n |-> IF k = 0 THEN z
                      ELSE LET a == f[k - 1] IN <<LI!AddAfter(a[1], l, a[2], g.data[s[k]]), LI!Where(a[1], l, a[2])>>]
      BY <2>1, <2>2, Zenon
    <2> QED
      BY <2>3
  <1>12. u = [k \in 0 .. n |-> IF k = 0 THEN z
                      ELSE LET a == u[k - 1] IN <<LI!AddAfter(a[1], l, a[2], g.data[s[k]]), LI!Where(a[1], l, a[2])>>]
    BY <1>11, Zenon
  <1> HIDE DEF u
  <1>13. <<u[n], n>> \in I
    <2>1. u[0] = z
      BY <1>3, <1>12
    <2>2. ASSUME NEW k \in 0 .. (n - 1), <<u[k], k>> \in I PROVE u[k + 1] = T[<<u[k], k>>]
      <3>1. /\ k + 1 \in 0 .. n /\ k + 1 # 0 /\ k + 1 - 1 = k /\ k + 1 \in 1 .. n
            /\ TRUE
        <4>1. Len(s) = n /\ Len(w) = n /\ n \in Nat
          BY <1>1, <1>3
        <4> QED
          BY <4>1
      <3>2. u[k + 1] = <<LI!AddAfter(u[k][1], l, u[k][2], w[k + 1]), LI!Where(u[k][1], l, u[k][2])>>
        <4>1. PICK d : d = k + 1
          OBVIOUS
        <4>2. d \in 0 .. n /\ d # 0 /\ d - 1 = k
          BY <3>1, <4>1
        <4>3. u[d] = LET a == u[d - 1] IN <<LI!AddAfter(a[1], l, a[2], g.data[s[d]]), LI!Where(a[1], l, a[2])>>
          BY <1>12, <4>2
        <4>4. g.data[s[(k + 1)]] = w[k + 1]
          BY <1>3, <3>1
        <4> QED
          BY <4>1, <4>2, <4>3, <4>4
      <3> QED
        BY <1>8, <2>2, <3>2
    <2> QED
      BY <1>3, <1>9, <1>10, <2>1, <2>2, LILoopStays
  <1>14. PICK A, j : j \in 0 .. n /\ Copied(g, F, u[n][1], A, l, c, w, 0, j)
    <2>1. AfterAt(g, F, l, c, w, u[n][1], u[n][2], n)
      BY <1>6, <1>13
    <2> QED
      BY <1>1, <2>1 DEF AfterAt
  <1>15. /\ 0 \in Nat /\ j \in Nat /\ 0 + j <= Len(w)
         /\ 0 = 0 \/ 0 + j = Len(w)
    BY <1>3, <1>14
  <1>16. CopiesIn(g, u[n][1], F, l, w)
    BY <1>2, <1>3, <1>4, <1>14, <1>15, LICopiesIn
  <1> QED
    BY <1>1, <1>5, <1>16

LEMMA LICopyBefore ==
  ASSUME NEW g, NEW F, NEW C, NEW O, Good(g, F, C, O), NoneHeld(O), NEW l \in li_Lists, NEW m \in li_Lists,
         NEW i \in 1 .. Len(F[l])
  PROVE  CopiesIn(g, LI!AddListBefore(g, l, F[l][i], m), F, l, View(g, F)[m])
  <1>1. PICK s, w, n, c, z : s = F[m] /\ w = View(g, F)[m] /\ n = Len(s) /\ c = i - 1
        /\ z = <<g, F[l][i]>>
    OBVIOUS
  <1>2. LI!Forward(g, m) = s /\ F \in Chains /\ g \in LIHeap
        /\ g.data \in [LI!Nodes -> LIData]
    BY <1>1, LIWalks, LIHeapTypes DEF Good, LIData
  <1>3. /\ w \in Seq(LIData) /\ Len(w) = n /\ n \in Nat
        /\ \A k \in 1 .. n : w[k] = g.data[s[k]]
    BY <1>1, <1>2, LIView, LIChain
  <1>4. c \in 0 .. Len(F[l]) /\ c < Len(F[l]) /\ c + 1 = i
    BY <1>1, <1>2, LIChain
  <1> DEFINE I == {x \in (LIHeap \X LI!Nodes) \X (0 .. n) : BeforeAt(g, F, l, c, w, x[1][1], x[1][2], x[2])}
             T == [x \in I |-> <<LI!AddBefore(x[1][1], l, x[1][2], w[Len(w) - x[2]]), LI!Where(x[1][1], l, x[1][2])>>]
             u == CHOOSE f : f = [k \in 0 .. n |-> IF k = 0 THEN z
                      ELSE LET a == f[k - 1] IN <<LI!AddBefore(a[1], l, a[2], g.data[s[Len(s) + 1 - k]]), LI!Where(a[1], l, a[2])>>]
  <1>5. LI!AddListBefore(g, l, F[l][i], m) = u[n][1]
    BY <1>1, <1>2 DEF LI!AddListBefore
  <1>6. \A a, k : <<a, k>> \in I => a \in LIHeap \X LI!Nodes /\ k \in 0 .. n /\ BeforeAt(g, F, l, c, w, a[1], a[2], k)
    OBVIOUS
  <1>7. \A a, k : a \in LIHeap \X LI!Nodes /\ k \in 0 .. n /\ BeforeAt(g, F, l, c, w, a[1], a[2], k) => <<a, k>> \in I
    OBVIOUS
  <1>8. \A a, k : <<a, k>> \in I => T[<<a, k>>] = <<LI!AddBefore(a[1], l, a[2], w[Len(w) - k]), LI!Where(a[1], l, a[2])>>
    OBVIOUS
  <1> HIDE DEF I, T
  <1>9. <<z, 0>> \in I
    <2>1. z[1] = g /\ z[2] = F[l][i] /\ F[l][i] \in LI!Nodes /\ F[l][i] = F[l][c + 1]
      BY <1>1, <1>2, <1>4, LIChain
    <2>2. Copied(g, F, g, F, l, c, w, Len(w) - 0, 0)
      <3>1. Len(w) - 0 \in Nat /\ Len(w) - 0 <= Len(w)
        BY <1>3
      <3> QED
        BY <1>3, <1>4, <3>1, LICopyNone
    <2>3. 0 \in 0 .. 0 /\ 0 \in 0 .. n /\ z \in LIHeap \X LI!Nodes
      BY <1>1, <1>2, <1>3, <2>1
    <2>4. BeforeAt(g, F, l, c, w, z[1], z[2], 0)
      BY <1>1, <2>1, <2>2, <2>3 DEF BeforeAt
    <2> QED
      BY <1>7, <2>3, <2>4
  <1>10. ASSUME NEW a, NEW k, <<a, k>> \in I, k \in 0 .. (n - 1)
        PROVE  <<T[<<a, k>>], k + 1>> \in I
    <2>1. PICK y : y = <<LI!AddBefore(a[1], l, a[2], w[Len(w) - k]), LI!Where(a[1], l, a[2])>>
      OBVIOUS
    <2>2. k \in Nat /\ k < Len(w) /\ k + 1 \in 0 .. n
      BY <1>3, <1>10
    <2>3. BeforeAt(g, F, l, c, w, y[1], y[2], k + 1)
      BY <1>2, <1>3, <1>4, <1>6, <1>10, <2>1, <2>2, LIBeforeStep
    <2>4. y \in LIHeap \X LI!Nodes
      BY <2>1, <2>3 DEF BeforeAt, Copied, Good
    <2> QED
      BY <1>7, <1>8, <1>10, <2>1, <2>2, <2>3, <2>4
  <1>11. \E f : f = [k \in 0 .. n |-> IF k = 0 THEN z
                      ELSE LET a == f[k - 1] IN <<LI!AddBefore(a[1], l, a[2], g.data[s[Len(s) + 1 - k]]), LI!Where(a[1], l, a[2])>>]
    <2>0. PICK f : Runs(f, n, I, T, z)
      BY <1>3, <1>9, <1>10, LILoop
    <2>1. /\ f = [k \in 0 .. n |-> f[k]] /\ f[0] = z
          /\ \A k \in 0 .. (n - 1) : f[k + 1] = T[<<f[k], k>>]
          /\ \A k \in 0 .. n : <<f[k], k>> \in I
      BY <2>0, Zenon DEF Runs
    <2>2. ASSUME NEW k \in 0 .. n, k # 0
          PROVE  f[k] = LET a == f[k - 1] IN <<LI!AddBefore(a[1], l, a[2], g.data[s[Len(s) + 1 - k]]), LI!Where(a[1], l, a[2])>>
      <3>1. PICK d : d = k - 1
        OBVIOUS
      <3>2. /\ d \in 0 .. (n - 1) /\ d \in 0 .. n /\ d + 1 = k /\ k \in 1 .. n
            /\ Len(w) - d = Len(s) + 1 - k /\ Len(s) + 1 - k \in 1 .. n
        <4>1. n \in Nat /\ Len(w) = n /\ Len(s) = n /\ k \in 1 .. n
          BY <1>1, <1>3, <2>2
        <4>2. d \in 0 .. (n - 1) /\ d \in 0 .. n /\ d + 1 = k /\ n - d = n + 1 - k
              /\ n + 1 - k \in 1 .. n
          BY <3>1, <4>1
        <4> QED
          BY <4>1, <4>2
      <3>3. f[k] = <<LI!AddBefore(f[d][1], l, f[d][2], w[Len(w) - d]), LI!Where(f[d][1], l, f[d][2])>>
        <4>1. f[d + 1] = T[<<f[d], d>>] /\ <<f[d], d>> \in I
          BY <2>1, <3>2
        <4>2. f[k] = T[<<f[d], d>>]
          BY <3>2, <4>1
        <4> QED
          BY <1>8, <4>1, <4>2
      <3> QED
        BY <1>3, <3>1, <3>2, <3>3
    <2>3. f = [k \in 0 .. n |-> IF k = 0 THEN z
                      ELSE LET a == f[k - 1] IN <<LI!AddBefore(a[1], l, a[2], g.data[s[Len(s) + 1 - k]]), LI!Where(a[1], l, a[2])>>]
      BY <2>1, <2>2, Zenon
    <2> QED
      BY <2>3
  <1>12. u = [k \in 0 .. n |-> IF k = 0 THEN z
                      ELSE LET a == u[k - 1] IN <<LI!AddBefore(a[1], l, a[2], g.data[s[Len(s) + 1 - k]]), LI!Where(a[1], l, a[2])>>]
    BY <1>11, Zenon
  <1> HIDE DEF u
  <1>13. <<u[n], n>> \in I
    <2>1. u[0] = z
      BY <1>3, <1>12
    <2>2. ASSUME NEW k \in 0 .. (n - 1), <<u[k], k>> \in I PROVE u[k + 1] = T[<<u[k], k>>]
      <3>1. /\ k + 1 \in 0 .. n /\ k + 1 # 0 /\ k + 1 - 1 = k /\ k + 1 \in 1 .. n
            /\ Len(w) - k = Len(s) + 1 - (k + 1) /\ Len(w) - k \in 1 .. n
        <4>1. Len(s) = n /\ Len(w) = n /\ n \in Nat
          BY <1>1, <1>3
        <4> QED
          BY <4>1
      <3>2. u[k + 1] = <<LI!AddBefore(u[k][1], l, u[k][2], w[Len(w) - k]), LI!Where(u[k][1], l, u[k][2])>>
        <4>1. PICK d : d = k + 1
          OBVIOUS
        <4>2. d \in 0 .. n /\ d # 0 /\ d - 1 = k
          BY <3>1, <4>1
        <4>3. u[d] = LET a == u[d - 1] IN <<LI!AddBefore(a[1], l, a[2], g.data[s[Len(s) + 1 - d]]), LI!Where(a[1], l, a[2])>>
          BY <1>12, <4>2
        <4>4. g.data[s[Len(s) + 1 - (k + 1)]] = w[Len(w) - k]
          BY <1>3, <3>1
        <4> QED
          BY <4>1, <4>2, <4>3, <4>4
      <3> QED
        BY <1>8, <2>2, <3>2
    <2> QED
      BY <1>3, <1>9, <1>10, <2>1, <2>2, LILoopStays
  <1>14. PICK A, j : j \in 0 .. n /\ Copied(g, F, u[n][1], A, l, c, w, Len(w) - j, j)
    <2>1. BeforeAt(g, F, l, c, w, u[n][1], u[n][2], n)
      BY <1>6, <1>13
    <2> QED
      BY <1>1, <2>1 DEF BeforeAt
  <1>15. /\ Len(w) - j \in Nat /\ j \in Nat /\ Len(w) - j + j <= Len(w)
         /\ Len(w) - j = 0 \/ Len(w) - j + j = Len(w)
    BY <1>3, <1>14
  <1>16. CopiesIn(g, u[n][1], F, l, w)
    BY <1>2, <1>3, <1>4, <1>14, <1>15, LICopiesIn
  <1> QED
    BY <1>1, <1>5, <1>16

(***************************************************************************)
(* What the lists tell, and every call.                                    *)
(***************************************************************************)
ObjectsOf(g) == [l \in li_Lists |-> [i \in 1 .. Len(LI!Forward(g, l)) |-> g.data[LI!Forward(g, l)[i]]]]

LEMMA LIObjects ==
  ASSUME NEW g, NEW F, NEW C, NEW O, Good(g, F, C, O)
  PROVE  ObjectsOf(g) = View(g, F)
  <1>1. \A l \in li_Lists : LI!Forward(g, l) = F[l]
    BY LIWalks
  <1> QED
    BY <1>1 DEF ObjectsOf, View

(* The step leads to a good heap that tells W.                             *)
Tells(m, W) == \E G, c, o : Good(m, G, c, o) /\ NoneHeld(o) /\ View(m, G) = W

LEMMA LITells ==
  ASSUME NEW W, Tells(li_h', W)
  PROVE  LIInv' /\ LI!objects' = W
  <1>1. PICK G, c, o : Good(li_h', G, c, o) /\ NoneHeld(o) /\ View(li_h', G) = W
    BY DEF Tells
  <1>2. ObjectsOf(li_h') = W
    BY <1>1, LIObjects
  <1>3. LI!objects' = W
    BY <1>2 DEF LI!objects, ObjectsOf
  <1> QED
    BY <1>1, <1>3 DEF LIInv

LEMMA LITellsNow ==
  ASSUME NEW F, NEW C, NEW O, Good(li_h, F, C, O)
  PROVE  /\ LI!objects = View(li_h, F) /\ F \in Chains /\ li_h.data \in [LI!Nodes -> LIData]
         /\ \A l \in li_Lists : Len(LI!objects[l]) = Len(F[l]) /\ Len(F[l]) \in Nat
  <1>1. ObjectsOf(li_h) = View(li_h, F)
    BY LIObjects
  <1>2. LI!objects = View(li_h, F)
    BY <1>1 DEF LI!objects, ObjectsOf
  <1>3. F \in Chains /\ li_h.data \in [LI!Nodes -> LIData]
    BY LIHeapTypes DEF Good, LIData
  <1> QED
    BY <1>2, <1>3, LIView, LIChain

LEMMA LIInserts ==
  ASSUME NEW F, NEW C, NEW O, Good(li_h, F, C, O), NEW l \in li_Lists, NEW o \in li_Objects,
         NEW i \in 1 .. Len(F[l]) + 1, Adds(li_h, li_h', F, l, i, o)
  PROVE  LIInv' /\ LI!S!Insert(l)
  <1>1. LI!objects = View(li_h, F) /\ Len(LI!objects[l]) = Len(F[l])
    BY LITellsNow
  <1>2. Tells(li_h', Put(LI!objects, l, LI!S!Inserted(LI!objects[l], i, o)))
    BY <1>1 DEF Adds, Tells
  <1>3. LIInv' /\ LI!objects' = Put(LI!objects, l, LI!S!Inserted(LI!objects[l], i, o))
    BY <1>2, LITells
  <1>4. i \in 1 .. Len(LI!objects[l]) + 1
    BY <1>1
  <1> QED
    BY <1>3, <1>4 DEF LI!S!Insert, Put

LEMMA LIAddsTell ==
  ASSUME NEW F, NEW C, NEW O, Good(li_h, F, C, O), NoneHeld(O), NEW l \in li_Lists, NEW o \in li_Objects,
         LI!CanMake(li_h, l)
  PROVE  /\ li_h' = LI!AddTail(li_h, l, o) => LIInv' /\ LI!S!Insert(l)
         /\ li_h' = LI!AddHead(li_h, l, o) => LIInv' /\ LI!S!Insert(l)
         /\ \A p \in LI!Positions(l) : li_h' = LI!AddAfter(li_h, l, p, o) => LIInv' /\ LI!S!Insert(l)
         /\ \A p \in LI!Positions(l) : li_h' = LI!AddBefore(li_h, l, p, o) => LIInv' /\ LI!S!Insert(l)
  <1>1. Len(F[l]) \in Nat /\ LI!Forward(li_h, l) = F[l]
    BY LITellsNow, LIWalks
  <1>2. ASSUME li_h' = LI!AddTail(li_h, l, o) PROVE LIInv' /\ LI!S!Insert(l)
    <2>1. Len(F[l]) + 1 \in 1 .. Len(F[l]) + 1
      BY <1>1
    <2>2. Adds(li_h, LI!AddTail(li_h, l, o), F, l, Len(F[l]) + 1, o)
      BY LIAddTail
    <2> QED
      BY <1>2, <2>1, <2>2, LIInserts
  <1>3. ASSUME li_h' = LI!AddHead(li_h, l, o) PROVE LIInv' /\ LI!S!Insert(l)
    <2>1. 1 \in 1 .. Len(F[l]) + 1
      BY <1>1
    <2>2. Adds(li_h, LI!AddHead(li_h, l, o), F, l, 1, o)
      BY LIAddHead
    <2> QED
      BY <1>3, <2>1, <2>2, LIInserts
  <1>4. ASSUME NEW p \in LI!Positions(l), li_h' = LI!AddAfter(li_h, l, p, o) PROVE LIInv'
        /\ LI!S!Insert(l)
    <2>1. PICK i \in 1 .. Len(F[l]) : p = F[l][i]
      BY <1>1 DEF LI!Positions, LI!On
    <2>2. i + 1 \in 1 .. Len(F[l]) + 1
      BY <1>1
    <2>3. Adds(li_h, LI!AddAfter(li_h, l, F[l][i], o), F, l, i + 1, o)
      BY LIAddAfter
    <2> QED
      BY <1>4, <2>1, <2>2, <2>3, LIInserts
  <1>5. ASSUME NEW p \in LI!Positions(l), li_h' = LI!AddBefore(li_h, l, p, o) PROVE LIInv'
        /\ LI!S!Insert(l)
    <2>1. PICK i \in 1 .. Len(F[l]) : p = F[l][i]
      BY <1>1 DEF LI!Positions, LI!On
    <2>2. i \in 1 .. Len(F[l]) + 1
      BY <1>1
    <2>3. Adds(li_h, LI!AddBefore(li_h, l, F[l][i], o), F, l, i, o)
      BY LIAddBefore
    <2> QED
      BY <1>5, <2>1, <2>2, <2>3, LIInserts
  <1> QED
    BY <1>2, <1>3, <1>4, <1>5

LEMMA LIAddsNothing ==
  ASSUME NEW l \in li_Lists, NEW o, NEW p, ~LI!CanMake(li_h, l)
  PROVE  /\ LI!AddTail(li_h, l, o) = li_h /\ LI!AddHead(li_h, l, o) = li_h
         /\ LI!AddAfter(li_h, l, p, o) = li_h /\ LI!AddBefore(li_h, l, p, o) = li_h
  BY DEF LI!AddTail, LI!AddHead, LI!AddAfter, LI!AddBefore, LI!Between

LEMMA LIBecomes ==
  ASSUME NEW F, NEW C, NEW O, Good(li_h, F, C, O), NEW l \in li_Lists, NEW v, Becomes(li_h, li_h', F, l, v)
  PROVE  LIInv' /\ LI!objects' = Put(LI!objects, l, v)
  <1>1. LI!objects = View(li_h, F)
    BY LITellsNow
  <1>2. Tells(li_h', Put(LI!objects, l, v))
    BY <1>1 DEF Becomes, Tells
  <1> QED
    BY <1>2, LITells

LEMMA LIChangeTells ==
  ASSUME NEW F, NEW C, NEW O, Good(li_h, F, C, O), NoneHeld(O), NEW l \in li_Lists, LI!Change(l)
  PROVE  li_h' = li_h \/ (LIInv' /\ LI!S!Next)
  <1>1. /\ LI!objects = View(li_h, F) /\ Len(LI!objects[l]) = Len(F[l]) /\ Len(F[l]) \in Nat
        /\ LI!Forward(li_h, l) = F[l]
    BY LITellsNow, LIWalks
  <1>2. CASE \E o \in li_Objects :
               \/ li_h' = LI!AddTail(li_h, l, o)
               \/ li_h' = LI!AddHead(li_h, l, o)
               \/ \E p \in LI!Positions(l) \cup {LI!NULL} : \/ li_h' = LI!AddAfter(li_h, l, p, o)
                                                          \/ li_h' = LI!AddBefore(li_h, l, p, o)
    <2>1. PICK o \in li_Objects :
               \/ li_h' = LI!AddTail(li_h, l, o)
               \/ li_h' = LI!AddHead(li_h, l, o)
               \/ \E p \in LI!Positions(l) \cup {LI!NULL} : \/ li_h' = LI!AddAfter(li_h, l, p, o)
                                                          \/ li_h' = LI!AddBefore(li_h, l, p, o)
      BY <1>2
    <2>2. CASE ~LI!CanMake(li_h, l)
      <3>1. /\ LI!AddTail(li_h, l, o) = li_h /\ LI!AddHead(li_h, l, o) = li_h
            /\ \A p : LI!AddAfter(li_h, l, p, o) = li_h /\ LI!AddBefore(li_h, l, p, o) = li_h
        BY <2>2, LIAddsNothing
      <3>2. li_h' = li_h
        BY <2>1, <3>1, Zenon
      <3> QED
        BY <3>2
    <2>3. CASE LI!CanMake(li_h, l)
      <3>1. LI!AddAfter(li_h, l, LI!NULL, o) = LI!AddHead(li_h, l, o)
            /\ LI!AddBefore(li_h, l, LI!NULL, o) = LI!AddTail(li_h, l, o)
        BY DEF LI!AddAfter, LI!AddBefore
      <3>2. LIInv' /\ LI!S!Insert(l)
        BY <2>1, <2>3, <3>1, LIAddsTell
      <3> QED
        BY <3>2 DEF LI!S!Next
    <2> QED
      BY <2>2, <2>3
  <1>3. CASE \E p \in LI!Positions(l) : li_h' = LI!RemoveNode(li_h, l, p)
    <2>1. PICK p \in LI!Positions(l) : li_h' = LI!RemoveNode(li_h, l, p)
      BY <1>3
    <2>2. PICK i \in 1 .. Len(F[l]) : p = F[l][i]
      BY <1>1 DEF LI!Positions, LI!On
    <2>3. Becomes(li_h, LI!RemoveNode(li_h, l, F[l][i]), F, l, LI!S!Without(View(li_h, F)[l], i))
      BY LIRemoveNode
    <2>4. LIInv' /\ LI!objects' = Put(LI!objects, l, LI!S!Without(LI!objects[l], i))
      BY <1>1, <2>1, <2>2, <2>3, LIBecomes
    <2>5. LI!S!Drop(l)
      BY <1>1, <2>4 DEF LI!S!Drop, Put
    <2> QED
      BY <2>4, <2>5 DEF LI!S!Next
  <1>4. CASE li_h' = LI!RemoveAll(li_h, l)
    <2>1. Becomes(li_h, LI!RemoveAll(li_h, l), F, l, <<>>)
      BY LIRemoveAll
    <2>2. LIInv' /\ LI!objects' = Put(LI!objects, l, <<>>)
      BY <1>4, <2>1, LIBecomes
    <2>3. LI!S!Clear(l)
      BY <2>2 DEF LI!S!Clear, Put
    <2> QED
      BY <2>2, <2>3 DEF LI!S!Next
  <1>5. CASE li_h' = LI!ReverseList(li_h, l)
    <2>1. Becomes(li_h, LI!ReverseList(li_h, l), F, l, LI!S!Reversed(View(li_h, F)[l]))
      BY LIReverseList
    <2>2. LIInv' /\ LI!objects' = Put(LI!objects, l, LI!S!Reversed(LI!objects[l]))
      BY <1>1, <1>5, <2>1, LIBecomes
    <2>3. LI!S!Flip(l)
      BY <2>2 DEF LI!S!Flip, Put
    <2> QED
      BY <2>2, <2>3 DEF LI!S!Next
  <1> QED
    BY <1>2, <1>3, <1>4, <1>5 DEF LI!Change

LEMMA LICopies ==
  ASSUME NEW F, NEW C, NEW O, Good(li_h, F, C, O), NEW l \in li_Lists, NEW m \in li_Lists,
         CopiesIn(li_h, li_h', F, l, View(li_h, F)[m])
  PROVE  LIInv' /\ LI!S!Copy(l, m)
  <1>1. LI!objects = View(li_h, F)
    BY LITellsNow
  <1>2. PICK i \in 0 .. Len(LI!objects[l]), j \in 0 .. Len(LI!objects[m]) :
          \E y \in {SubSeq(LI!objects[m], 1, j), SubSeq(LI!objects[m], j + 1, Len(LI!objects[m]))} :
            Becomes(li_h, li_h', F, l, SubSeq(LI!objects[l], 1, i) \o y
                                         \o SubSeq(LI!objects[l], i + 1, Len(LI!objects[l])))
    BY <1>1 DEF CopiesIn
  <1>3. PICK y \in {SubSeq(LI!objects[m], 1, j), SubSeq(LI!objects[m], j + 1, Len(LI!objects[m]))} :
            Becomes(li_h, li_h', F, l, SubSeq(LI!objects[l], 1, i) \o y
                                         \o SubSeq(LI!objects[l], i + 1, Len(LI!objects[l])))
    BY <1>2
  <1>4. LIInv' /\ LI!objects' = Put(LI!objects, l, SubSeq(LI!objects[l], 1, i) \o y
                                                     \o SubSeq(LI!objects[l], i + 1, Len(LI!objects[l])))
    BY <1>3, LIBecomes
  <1> QED
    BY <1>4 DEF LI!S!Copy, Put

(* The front and the back of a list, told of its nodes and its objects.    *)
LEMMA LIMovesTell ==
  ASSUME NEW F, NEW C, NEW O, Good(li_h, F, C, O), NEW l \in li_Lists, NEW m \in li_Lists, l # m,
         NEW i \in 0 .. Len(F[l]), NEW f, NEW r,
         f = SubSeq(F[l], 1, i), r = SubSeq(F[l], i + 1, Len(F[l])),
         \/ BecomesBoth(li_h, li_h', F, l, Of(li_h.data, r), m, Of(li_h.data, F[m]) \o Of(li_h.data, f))
         \/ BecomesBoth(li_h, li_h', F, l, Of(li_h.data, f), m, Of(li_h.data, r) \o Of(li_h.data, F[m]))
  PROVE  LIInv' /\ LI!S!Move(l, m)
  <1>1. /\ LI!objects = View(li_h, F) /\ F \in Chains /\ li_h.data \in [LI!Nodes -> LIData]
        /\ Len(LI!objects[l]) = Len(F[l]) /\ Len(F[l]) \in Nat
    BY LITellsNow
  <1>2. LI!objects[l] = Of(li_h.data, F[l]) /\ LI!objects[m] = Of(li_h.data, F[m])
    BY <1>1 DEF View, Of
  <1>3. F[l] \in NodeSeq
    BY <1>1, LIChain DEF NodeSeq
  <1>4. PICK a, b : a = SubSeq(LI!objects[l], 1, i)
        /\ b = SubSeq(LI!objects[l], i + 1, Len(LI!objects[l]))
    OBVIOUS
  <1>5. Of(li_h.data, f) = a
    <2>1. 1 \in Nat /\ i \in Nat /\ 1 <= 1 /\ 1 <= i + 1 /\ i <= Len(F[l])
      BY <1>1
    <2>2. Of(li_h.data, SubSeq(F[l], 1, i)) = SubSeq(Of(li_h.data, F[l]), 1, i)
      BY <1>1, <1>3, <2>1, LIOfSub, Zenon DEF NodeSeq
    <2> QED
      BY <1>2, <1>4, <2>2
  <1>6. Of(li_h.data, r) = b
    <2>1. /\ i + 1 \in Nat /\ 1 <= i + 1 /\ i + 1 <= Len(F[l]) + 1 /\ Len(F[l]) <= Len(F[l])
      BY <1>1
    <2>2. Of(li_h.data, SubSeq(F[l], i + 1, Len(F[l]))) = SubSeq(Of(li_h.data, F[l]), i + 1, Len(F[l]))
      BY <1>1, <1>3, <2>1, LIOfSub, Zenon DEF NodeSeq
    <2> QED
      BY <1>1, <1>2, <1>4, <2>2
  <1>7. CASE BecomesBoth(li_h, li_h', F, l, Of(li_h.data, r), m, Of(li_h.data, F[m]) \o Of(li_h.data, f))
    <2>1. Tells(li_h', Put(Put(LI!objects, l, b), m, LI!objects[m] \o a))
      BY <1>1, <1>2, <1>5, <1>6, <1>7 DEF BecomesBoth, Tells
    <2>2. LIInv' /\ LI!objects' = Put(Put(LI!objects, l, b), m, LI!objects[m] \o a)
      BY <2>1, LITells
    <2>3. LI!objects' = [LI!objects EXCEPT ![m] = @ \o a, ![l] = b]
      BY <2>2 DEF Put, LI!objects
    <2> QED
      BY <1>1, <1>4, <2>2, <2>3, Zenon DEF LI!S!Move
  <1>8. CASE BecomesBoth(li_h, li_h', F, l, Of(li_h.data, f), m, Of(li_h.data, r) \o Of(li_h.data, F[m]))
    <2>1. Tells(li_h', Put(Put(LI!objects, l, a), m, b \o LI!objects[m]))
      BY <1>1, <1>2, <1>5, <1>6, <1>8 DEF BecomesBoth, Tells
    <2>2. LIInv' /\ LI!objects' = Put(Put(LI!objects, l, a), m, b \o LI!objects[m])
      BY <2>1, LITells
    <2>3. LI!objects' = [LI!objects EXCEPT ![m] = b \o @, ![l] = a]
      BY <2>2 DEF Put, LI!objects
    <2> QED
      BY <1>1, <1>4, <2>2, <2>3 DEF LI!S!Move
  <1> QED
    BY <1>7, <1>8

LEMMA LIChangeBothTells ==
  ASSUME NEW F, NEW C, NEW O, Good(li_h, F, C, O), NoneHeld(O), NEW l \in li_Lists,
         NEW m \in li_Lists \ {l}, LI!ChangeBoth(l, m)
  PROVE  LIInv' /\ LI!S!Next
  <1>1. m \in li_Lists /\ l # m /\ LI!Forward(li_h, l) = F[l] /\ Len(F[l]) \in Nat
        /\ F[l] \in Seq(LI!Nodes)
    BY LITellsNow, LIWalks, LIChain
  <1>2. \A p \in LI!Positions(l) : \E i \in 1 .. Len(F[l]) : p = F[l][i]
    BY <1>1 DEF LI!Positions, LI!On
  <1>3. CASE li_h' = LI!AddListToTail(li_h, l, m)
    <2>1. CopiesIn(li_h, LI!AddListToTail(li_h, l, m), F, l, View(li_h, F)[m])
      BY <1>1, LICopyTail
    <2> QED
      BY <1>1, <1>3, <2>1, LICopies DEF LI!S!Next
  <1>4. CASE li_h' = LI!AddListToHead(li_h, l, m)
    <2>1. CopiesIn(li_h, LI!AddListToHead(li_h, l, m), F, l, View(li_h, F)[m])
      BY <1>1, LICopyHead
    <2> QED
      BY <1>1, <1>4, <2>1, LICopies DEF LI!S!Next
  <1>5. CASE \E p \in LI!Positions(l) : li_h' = LI!AddListAfter(li_h, l, p, m) \/ li_h' = LI!AddListBefore(li_h, l, p, m)
    <2>1. PICK i \in 1 .. Len(F[l]) : \/ li_h' = LI!AddListAfter(li_h, l, F[l][i], m)
                                      \/ li_h' = LI!AddListBefore(li_h, l, F[l][i], m)
      BY <1>2, <1>5
    <2>2. CopiesIn(li_h, LI!AddListAfter(li_h, l, F[l][i], m), F, l, View(li_h, F)[m])
      BY <1>1, LICopyAfter
    <2>3. CopiesIn(li_h, LI!AddListBefore(li_h, l, F[l][i], m), F, l, View(li_h, F)[m])
      BY <1>1, LICopyBefore
    <2>4. CopiesIn(li_h, li_h', F, l, View(li_h, F)[m])
      BY <2>1, <2>2, <2>3
    <2> QED
      BY <1>1, <2>4, LICopies DEF LI!S!Next
  <1>6. CASE \E p \in LI!Positions(l) : li_h' = LI!MoveToTail(li_h, l, p, m) \/ li_h' = LI!MoveToHead(li_h, l, p, m)
    <2>1. PICK i \in 1 .. Len(F[l]) : \/ li_h' = LI!MoveToTail(li_h, l, F[l][i], m)
                                      \/ li_h' = LI!MoveToHead(li_h, l, F[l][i], m)
      BY <1>2, <1>6
    <2>2. CASE li_h' = LI!MoveToTail(li_h, l, F[l][i], m)
      <3>1. i \in 0 .. Len(F[l])
        BY <1>1
      <3>2. PICK f, r : f = SubSeq(F[l], 1, i) /\ r = SubSeq(F[l], i + 1, Len(F[l]))
        OBVIOUS
      <3>3. Cut(F[l], i, f, r)
        BY <1>1, <3>1, <3>2, LICutAt
      <3>4. BecomesBoth(li_h, LI!MoveToTail(li_h, l, F[l][i], m), F, l, Of(li_h.data, r), m,
                        Of(li_h.data, F[m]) \o Of(li_h.data, f))
        BY <1>1, <3>3, LIMoveToTail
      <3> QED
        <4>1. LIInv' /\ LI!S!Move(l, m)
          BY <1>1, <2>2, <3>1, <3>2, <3>4, LIMovesTell
        <4> QED
          BY <1>1, <4>1 DEF LI!S!Next
    <2>3. CASE li_h' = LI!MoveToHead(li_h, l, F[l][i], m)
      <3>1. PICK d : d = i - 1
        OBVIOUS
      <3>2. d \in 0 .. Len(F[l])
        BY <1>1, <3>1
      <3>3. PICK f, r : f = SubSeq(F[l], 1, d) /\ r = SubSeq(F[l], d + 1, Len(F[l]))
        OBVIOUS
      <3>4. Cut(F[l], d, f, r)
        BY <1>1, <3>2, <3>3, LICutAt
      <3>5. BecomesBoth(li_h, LI!MoveToHead(li_h, l, F[l][i], m), F, l, Of(li_h.data, f), m,
                        Of(li_h.data, r) \o Of(li_h.data, F[m]))
        BY <1>1, <3>1, <3>4, LIMoveToHead
      <3> QED
        <4>1. LIInv' /\ LI!S!Move(l, m)
          BY <1>1, <2>3, <3>2, <3>3, <3>5, LIMovesTell
        <4> QED
          BY <1>1, <4>1 DEF LI!S!Next
    <2> QED
      BY <2>1, <2>2, <2>3
  <1> QED
    BY <1>3, <1>4, <1>5, <1>6 DEF LI!ChangeBoth

LEMMA LIStep ==
  ASSUME LIInv, [LI!Next]_(LI!vars)
  PROVE  LIInv' /\ [LI!S!Next]_(LI!objects)
  <1>1. PICK F, C, O : Good(li_h, F, C, O) /\ NoneHeld(O)
    BY DEF LIInv
  <1>2. CASE li_h' = li_h
    <2>1. LIInv' /\ LI!objects' = LI!objects
      BY <1>2 DEF LIInv, LI!objects, LI!Forward
    <2> QED
      BY <2>1
  <1>3. CASE LI!Next
    <2>1. PICK l \in li_Lists : LI!Change(l) \/ \E m \in li_Lists \ {l} : LI!ChangeBoth(l, m)
      BY <1>3 DEF LI!Next
    <2>2. CASE LI!Change(l)
      BY <1>1, <1>2, <2>2, LIChangeTells
    <2>3. CASE \E m \in li_Lists \ {l} : LI!ChangeBoth(l, m)
      BY <1>1, <2>3, LIChangeBothTells
    <2> QED
      BY <2>1, <2>2, <2>3
  <1> QED
    BY <1>2, <1>3 DEF LI!vars

LEMMA LIStart ==
  ASSUME LI!Init
  PROVE  LIInv /\ LI!S!Init
  <1>1. PICK F, O : F = [l \in li_Lists |-> <<>>] /\ O = [x \in LI!Nodes |-> Free]
    OBVIOUS
  <1>2. li_h \in LIHeap
    BY LINodes DEF LI!Init, LIHeap, Ends
  <1>3. F \in Chains
    BY <1>1 DEF Chains
  <1>4. ASSUME NEW l \in li_Lists PROVE GoodList(li_h, l, F[l]) /\ GoodCache(li_h, l, F[l])
    <2>1. F[l] = <<>> /\ Len(<<>>) = 0 /\ 0 <= li_CacheSize
      BY <1>1, ListAssumption
    <2>2. li_h.first[l] = LI!NULL /\ li_h.last[l] = LI!NULL /\ li_h.count[l] = 0
          /\ li_h.head[l] = LI!NULL /\ li_h.used[l] = 0
      BY DEF LI!Init
    <2> QED
      BY <2>1, <2>2 DEF GoodList, GoodCache, Once, Linked, LinkedBack, Front, End
  <1>5. ASSUME NEW l \in li_Lists, NEW x \in LI!Nodes
        PROVE  /\ In(x, F[l]) <=> O[x] = OnList(l)
               /\ In(x, F[l]) <=> O[x] = InCache(l)
    BY <1>1, LIApart DEF In
  <1>6. \A x \in LI!Nodes : x \in li_h.live <=> O[x] # Free
    BY <1>1 DEF LI!Init
  <1>7. Placed(li_h, F, F, O)
    BY <1>4, <1>5, <1>6 DEF Placed
  <1>8. Good(li_h, F, F, O)
    BY <1>1, <1>2, <1>3, <1>7, LIPlacesOf DEF Good, LIKnown
  <1>9. NoneHeld(O)
    BY <1>1, LIApart DEF NoneHeld
  <1>10. LI!objects = View(li_h, F)
    BY <1>8, LITellsNow
  <1>11. LI!objects = [l \in li_Lists |-> <<>>]
    BY <1>1, <1>10 DEF View
  <1> QED
    BY <1>8, <1>9, <1>11 DEF LIInv, LI!S!Init

LEMMA LISafe ==
  ASSUME LIInv
  PROVE  LI!Sound
  <1>1. PICK F, C, O : Good(li_h, F, C, O) /\ NoneHeld(O)
    BY DEF LIInv
  <1>2. \A l \in li_Lists : /\ LI!Forward(li_h, l) = F[l] /\ LI!Cached(li_h, l) = C[l]
                            /\ LI!Backward(li_h, l) = LI!S!Reversed(F[l])
    BY <1>1, LIWalks
  <1>3. \A l \in li_Lists : GoodList(li_h, l, F[l]) /\ GoodCache(li_h, l, C[l])
    BY <1>1, Zenon DEF Good, Placed
  <1> DEFINE chains == {<<l, "list">> : l \in li_Lists} \cup {<<l, "cache">> : l \in li_Lists}
             Chain(c) == IF c[2] = "list" THEN LI!Forward(li_h, c[1]) ELSE LI!Cached(li_h, c[1])
             Place(c) == IF c[2] = "list" THEN OnList(c[1]) ELSE InCache(c[1])
  <1>4. \A l \in li_Lists : /\ LI!Backward(li_h, l) = LI!S!Reversed(LI!Forward(li_h, l))
                            /\ li_h.count[l] = Len(LI!Forward(li_h, l))
                            /\ li_h.used[l] = Len(LI!Cached(li_h, l))
                            /\ li_h.used[l] <= li_CacheSize
    BY <1>2, <1>3, Zenon DEF GoodList, GoodCache
  <1>5. ASSUME NEW c \in chains
        PROVE  /\ Chain(c) \in Seq(LI!Nodes) /\ Once(Chain(c))
               /\ \A x \in LI!Nodes : In(x, Chain(c)) <=> O[x] = Place(c)
    <2>1. CASE \E l \in li_Lists : c = <<l, "list">>
      <3>1. PICK l \in li_Lists : c = <<l, "list">>
        BY <2>1
      <3>2. Chain(c) = F[l] /\ Place(c) = OnList(l)
        BY <1>2, <3>1
      <3>3. F[l] \in Seq(LI!Nodes) /\ Once(F[l]) /\ \A x \in LI!Nodes : In(x, F[l]) <=> O[x] = OnList(l)
        BY <1>1, <1>3 DEF Good, Placed, Chains, GoodList
      <3> HIDE DEF Chain, Place
      <3> QED
        BY <3>2, <3>3
    <2>2. CASE \E l \in li_Lists : c = <<l, "cache">>
      <3>1. PICK l \in li_Lists : c = <<l, "cache">>
        BY <2>2
      <3>2. Chain(c) = C[l] /\ Place(c) = InCache(l)
        BY <1>2, <3>1
      <3>3. C[l] \in Seq(LI!Nodes) /\ Once(C[l]) /\ \A x \in LI!Nodes : In(x, C[l]) <=> O[x] = InCache(l)
        BY <1>1, <1>3 DEF Good, Placed, Chains, GoodCache
      <3> HIDE DEF Chain, Place
      <3> QED
        BY <3>2, <3>3
    <2> QED
      BY <2>1, <2>2
  <1>6. ASSUME NEW c \in chains, NEW d \in chains, c # d PROVE Place(c) # Place(d)
    BY <1>6, LIApart
  <1>7. \A x \in LI!Nodes : x \in li_h.live <=> \E c \in chains : O[x] = Place(c)
    <2>1. \A x \in LI!Nodes : x \in li_h.live <=> O[x] # Free
      BY <1>1 DEF Good, Placed
    <2>2. \A x \in LI!Nodes : O[x] # Held /\ O[x] \in LISpots
      BY <1>1 DEF NoneHeld, Good, LIKnown
    <2>3. ASSUME NEW x \in LI!Nodes, O[x] # Free PROVE \E c \in chains : O[x] = Place(c)
      <3>1. CASE \E l \in li_Lists : O[x] = OnList(l)
        <4>1. PICK l \in li_Lists : O[x] = OnList(l)
          BY <3>1
        <4>2. <<l, "list">> \in chains /\ Place(<<l, "list">>) = O[x]
          BY <4>1
        <4> QED
          BY <4>2
      <3>2. CASE \E l \in li_Lists : O[x] = InCache(l)
        <4>1. PICK l \in li_Lists : O[x] = InCache(l)
          BY <3>2
        <4>2. <<l, "cache">> \in chains /\ Place(<<l, "cache">>) = O[x]
          BY <4>1
        <4> QED
          BY <4>2
      <3> QED
        BY <2>2, <2>3, <3>1, <3>2 DEF LISpots
    <2>4. ASSUME NEW c \in chains PROVE Place(c) # Free
      BY LIApart
    <2> HIDE DEF chains, Place
    <2> QED
      BY <2>1, <2>3, <2>4
  <1>8. li_h.live \subseteq LI!Nodes
    BY <1>1, LIHeapTypes DEF Good
  <1>9. \A c \in chains : \A x : x \in LI!On(Chain(c)) <=> x \in LI!Nodes /\ O[x] = Place(c)
    <2> SUFFICES ASSUME NEW c \in chains, NEW x
                 PROVE  x \in LI!On(Chain(c)) <=> x \in LI!Nodes /\ O[x] = Place(c)
      OBVIOUS
    <2>1. PICK s : s = Chain(c)
      OBVIOUS
    <2>2. s \in Seq(LI!Nodes) /\ \A y \in LI!Nodes : In(y, s) <=> O[y] = Place(c)
      BY <1>5, <2>1
    <2>3. x \in LI!On(s) <=> In(x, s)
      BY DEF LI!On, In
    <2>4. In(x, s) => x \in LI!Nodes
      BY <2>2, LISeq DEF In
    <2> HIDE DEF Chain, Place
    <2> QED
      BY <2>1, <2>2, <2>3, <2>4
  <1>10. \A c \in chains : /\ Len(Chain(c)) <= li_N
                           /\ \A i, j \in 1 .. Len(Chain(c)) : Chain(c)[i] = Chain(c)[j] => i = j
    <2> HIDE DEF chains, Chain, Place
    <2> SUFFICES ASSUME NEW c \in chains
                 PROVE  /\ Len(Chain(c)) <= li_N
                        /\ \A i, j \in 1 .. Len(Chain(c)) : Chain(c)[i] = Chain(c)[j] => i = j
      OBVIOUS
    <2>1. Chain(c) \in Seq(LI!Nodes) /\ Once(Chain(c))
      BY <1>5
    <2> QED
      BY <2>1, LILength DEF Once
  <1> HIDE DEF Place
  <1>11. \A c, d \in chains : c # d => LI!On(Chain(c)) \cap LI!On(Chain(d)) = {}
    <2> HIDE DEF chains, Chain
    <2> QED
      BY <1>6, <1>9
  <1>12. li_h.live = UNION {LI!On(Chain(c)) : c \in chains}
    <2> HIDE DEF chains, Chain
    <2> QED
      BY <1>7, <1>8, <1>9
  <1> QED
    BY <1>4, <1>10, <1>11, <1>12 DEF LI!Sound

-----------------------------------------------------------------------------
(***************************************************************************)
(* The units of MCClock together.                                          *)
(***************************************************************************)

(* Every step of MCClock is a step of this unit or leaves it alone.        *)
LEMMA CLMoves == [MCNext]_all => [CL!Next]_(CL!vars)
  <1>1. unit # "clock" /\ Rest => UNCHANGED CL!vars
    BY DEF Rest, clVars, CL!vars, CL!time, CL!schedule, CL!object, CL!thread
  <1>2. UNCHANGED all => UNCHANGED CL!vars
    BY DEF all, clVars, CL!vars, CL!time, CL!schedule, CL!object, CL!thread
  <1>3. MCNext => CL!Next \/ (unit # "clock" /\ Rest)
    BY DEF MCNext
  <1> QED
    BY <1>1, <1>2, <1>3

LEMMA ENMoves == [MCNext]_all => [EN!Next]_(EN!vars)
  <1>1. unit # "enumerators" /\ Rest => UNCHANGED EN!vars
    BY DEF Rest, enVars, EN!vars
  <1>2. UNCHANGED all => UNCHANGED EN!vars
    BY DEF all, enVars, EN!vars
  <1>3. MCNext => EN!Next \/ (unit # "enumerators" /\ Rest)
    BY DEF MCNext
  <1> QED
    BY <1>1, <1>2, <1>3

LEMMA LIMoves == [MCNext]_all => [LI!Next]_(LI!vars)
  <1>1. unit # "list" /\ Rest => UNCHANGED LI!vars
    BY DEF Rest, liVars, LI!vars
  <1>2. UNCHANGED all => UNCHANGED LI!vars
    BY DEF all, liVars, LI!vars
  <1>3. MCNext => LI!Next \/ (unit # "list" /\ Rest)
    BY DEF MCNext
  <1> QED
    BY <1>1, <1>2, <1>3

(* Every reachable state satisfies the clock's inductive invariant.        *)
LEMMA CLAlways == MCSpec => []CLInv
  <1>1. MCInit => CLInv
    BY CLStart DEF MCInit
  <1>2. CLInv /\ [MCNext]_all => CLInv'
    BY CLMoves, CLStep
  <1> QED
    BY <1>1, <1>2, PTL DEF MCSpec

(* The clock's variables keep their types and m_dwAdviseCount the length   *)
(* of the list (AddAdvisePacket, Unadvise, Advise).                        *)
THEOREM ClockTypeCorrect == MCSpec => []CL!TypeOK
  <1>1. CLInv => CL!TypeOK
    BY DEF CLInv
  <1> QED
    BY <1>1, CLAlways, PTL

(* AddAdvisePacket and ShuntHead keep the list in order of time.           *)
THEOREM SortedCorrect == MCSpec => []CL!Sorted
  <1>1. CLInv => CL!Sorted
    BY DEF CLInv
  <1> QED
    BY <1>1, CLAlways, PTL

(* AdviseThread never sleeps past the head of the list.                    *)
THEOREM NoOversleepCorrect == MCSpec => []CL!NoOversleep
  <1>1. CLInv => CL!NoOversleep
    BY DEF CLInv
  <1> QED
    BY <1>1, CLAlways, PTL

(* The schedule is ordered, and the thread never sleeps past its head.     *)
THEOREM ScheduleKeptCorrect == MCSpec => []ScheduleKept
  <1>1. CLInv => ScheduleKept
    BY DEF CLInv, ScheduleKept, CL!ScheduleKept
  <1> QED
    BY <1>1, CLAlways, PTL

(* An enumerator gives every pin once and types of one list only             *)
(* (amfilter.cpp), and every node of a list is in that list or in its cache, *)
(* once, with both chains the same and the count right (wxlist.cpp).         *)
THEOREM ListsSoundCorrect == MCSpec => []ListsSound
  <1> DEFINE Inv == ENInv /\ LIInv
  <1>1. MCInit => Inv
    BY ENStart, LIStart DEF MCInit
  <1>2. Inv /\ [MCNext]_all => Inv'
    BY ENMoves, ENStep, LIMoves, LIStep
  <1>3. Inv => ListsSound
    BY ENSafe, LISafe DEF ListsSound
  <1> QED
    BY <1>1, <1>2, <1>3, PTL DEF MCSpec

(* The lists change as ListSpec says, whatever memory is missing and however *)
(* nodes are cached (wxlist.cpp).                                            *)
THEOREM InListOrderCorrect == MCSpec => InListOrder
  <1>1. MCInit => LIInv
    BY LIStart DEF MCInit
  <1>2. LIInv /\ [MCNext]_all => LIInv'
    BY LIMoves, LIStep
  <1>3. LIInv /\ [MCNext]_all => [unit = "list" => [LI!S!Next]_(LI!objects)]_all
    BY LIMoves, LIStep
  <1> QED
    BY <1>1, <1>2, <1>3, PTL DEF MCSpec, InListOrder
=============================================================================
