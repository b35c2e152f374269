--------------------------- MODULE AudioRenderer ---------------------------
(***************************************************************************)
(* COpenALFilter and CAudioInputPin (OpenALAudioRenderer.cpp) on their     *)
(* base classes CBaseFilter and CBaseInputPin (amfilter.cpp), around the   *)
(* frame hand-over of module Mixer.                                        *)
(*                                                                         *)
(* Four threads meet here:                                                 *)
(*   application  Run, Pause, Stop                        takes F, then M  *)
(*   flusher      BeginFlush, EndFlush                    takes F; R       *)
(*   streaming    Receive, EndOfStream                    takes R, F; R, M *)
(*   sound        Mix                                     takes none       *)
(* F is the critical section of the filter, R the pin's m_receiveMutex, M  *)
(* the critical section of the mixer (free when no Mixer!Receive is in     *)
(* progress).  The pin's own critical section is only taken inside R.      *)
(***************************************************************************)
EXTENDS Integers, Sequences

CONSTANTS Desired, MaxSample, Bits, Tags, NoData   (* as in Mixer          *)

ASSUME Assumption ==
  Desired \in Nat \ {0} /\ MaxSample \in Nat \ {0} /\ NoData \notin Tags

VARIABLES
  streaming, nBits, queue, ready, request, rpc, left, tag,
  mpc, mixBits, pos, samples, broken,   (* of Mixer                        *)
  state,         (* m_State                                                *)
  flushing,      (* m_bFlushing                                            *)
  runTimeError,  (* m_bRunTimeError                                        *)
  typeChanged,   (* AM_SAMPLE_TYPECHANGED in m_SampleProps                 *)
  lockF, lockR,  (* which thread owns F, R                                 *)
  apc,           (* where the application is in Run, Pause or Stop         *)
  fpc,           (* where the flusher is in BeginFlush ... EndFlush        *)
  spc,           (* where the streaming thread is in the pin's Receive     *)
  complete,      (* EC_COMPLETE has been sent                              *)
  committed,     (* external: the allocator of the connection is committed *)
  armed          (* the sound thread is past its test of IsStreaming       *)

mixer   == <<streaming, nBits, queue, ready, request, rpc, left, tag,
             mpc, mixBits, pos, samples, broken>>
pin     == <<flushing, runTimeError, typeChanged>>
outside == <<complete, committed, armed>>
vars    == <<mixer, state, pin, lockF, lockR, apc, fpc, spc, outside>>

M == INSTANCE Mixer

TypeOK ==
  /\ M!TypeOK
  /\ state \in {"Stopped", "Paused", "Running"}
  /\ flushing \in BOOLEAN /\ runTimeError \in BOOLEAN /\ typeChanged \in BOOLEAN
  /\ lockF \in {"none", "app"}
  /\ lockR \in {"none", "flusher", "stream"}
  /\ apc \in {"idle", "start", "pause", "stop", "paused"}
  /\ fpc \in {"idle", "barrier", "clear", "flushed"}
  /\ spc \in {"idle", "check", "type", "clear", "mixer", "inside"}
  /\ complete \in BOOLEAN /\ committed \in BOOLEAN /\ armed \in BOOLEAN

Init ==
  /\ M!Init
  /\ state = "Stopped"
  /\ flushing = FALSE /\ runTimeError = FALSE /\ typeChanged = FALSE
  /\ lockF = "none" /\ lockR = "none"
  /\ apc = "idle" /\ fpc = "idle" /\ spc = "idle"
  /\ complete = FALSE /\ committed = FALSE /\ armed = FALSE

----------------------------------------------------------------------------
(* The application.  F is held from the call to the return; the one wait   *)
(* inside is for M.                                                        *)

AppStep(from, to) ==
  /\ apc = from /\ apc' = to
  /\ lockF' = IF to = "idle" THEN "none" ELSE "app"
  /\ UNCHANGED <<pin, lockR, fpc, spc, outside>>

(* CBaseFilter::Run makes the filter Running (through Paused if it was     *)
(* Stopped) before the mixer is started.                                   *)
Run ==
  /\ lockF = "none"
  /\ AppStep("idle", IF state = "Running" THEN "idle" ELSE "start")
  /\ state' = "Running"
  /\ UNCHANGED mixer

RunStart ==
  /\ AppStep("start", "idle")
  /\ M!StartStreaming
  /\ UNCHANGED state

(* Faulty: tells the base class first.                                     *)
PauseBaseFirst ==
  /\ lockF = "none"
  /\ AppStep("idle", IF state = "Running" THEN "pause" ELSE "idle")
  /\ state' = "Paused"
  /\ UNCHANGED mixer

(* From Running, wait for M first.                                         *)
Pause ==
  /\ lockF = "none"
  /\ AppStep("idle", IF state = "Running" THEN "pause" ELSE "idle")
  /\ state' = IF state = "Running" THEN "Running" ELSE "Paused"
  /\ UNCHANGED mixer

PauseStop ==
  /\ AppStep("pause", "idle")
  /\ M!StopStreaming
  /\ state' = "Paused"

(* Stop of a running filter calls Pause; the pins' Inactive is overridden  *)
(* and does nothing.                                                       *)
Stop ==
  /\ lockF = "none" /\ state # "Stopped"
  /\ AppStep("idle", IF state = "Running" THEN "stop" ELSE "idle")
  /\ state' = IF state = "Running" THEN "Running" ELSE "Stopped"
  /\ UNCHANGED mixer

StopPause ==
  /\ AppStep("stop", "paused")
  /\ M!StopStreaming
  /\ state' = "Paused"

StopInactive ==
  /\ AppStep("paused", "idle")
  /\ state' = "Stopped"
  /\ UNCHANGED mixer

----------------------------------------------------------------------------
(* The flusher.                                                            *)

FlushStep(from, to) ==
  /\ fpc = from /\ fpc' = to
  /\ UNCHANGED <<state, typeChanged, lockF, apc, spc, committed, armed>>

(* CBaseInputPin::BeginFlush.  The source starts a new stream.             *)
BeginFlush ==
  /\ lockF = "none"
  /\ FlushStep("idle", "barrier")
  /\ flushing' = TRUE
  /\ complete' = FALSE
  /\ UNCHANGED <<mixer, runTimeError, lockR>>

(* Faulty: does not wait for the Receive in progress.                      *)
FlushNoBarrier ==
  /\ FlushStep("barrier", "clear")
  /\ lockR' = "flusher"
  /\ UNCHANGED <<mixer, flushing, runTimeError, complete>>

FlushBarrier ==
  /\ lockR = "none"
  /\ FlushStep("barrier", "clear")
  /\ lockR' = "flusher"
  /\ UNCHANGED <<mixer, flushing, runTimeError, complete>>

FlushClear ==
  \/ /\ FlushStep("clear", "clear")
     /\ M!PopOne
     /\ UNCHANGED <<flushing, runTimeError, lockR, complete>>
  \/ /\ queue = << >>
     /\ FlushStep("clear", "flushed")
     /\ lockR' = "none"
     /\ UNCHANGED <<mixer, flushing, runTimeError, complete>>

EndFlush ==
  /\ lockF = "none"
  /\ FlushStep("flushed", "idle")
  /\ flushing' = FALSE
  /\ runTimeError' = FALSE
  /\ UNCHANGED <<mixer, lockR, complete>>

----------------------------------------------------------------------------
(* The streaming thread.                                                   *)

StreamStep(from, to) ==
  /\ spc = from /\ spc' = to
  /\ lockR' = IF to = "idle" THEN "none" ELSE "stream"
  /\ UNCHANGED <<state, flushing, lockF, apc, fpc, committed, armed>>

(* The source commits the allocator before it can fetch a sample           *)
(* (external); nothing in this filter decommits it.                        *)
Commit ==
  /\ state # "Stopped" /\ ~committed
  /\ committed' = TRUE
  /\ UNCHANGED <<mixer, state, pin, lockF, lockR, apc, fpc, spc, complete, armed>>

Receive ==
  /\ lockR = "none" /\ committed /\ ~complete
  /\ StreamStep("idle", "check")
  /\ UNCHANGED <<mixer, runTimeError, typeChanged, complete>>

(* CBaseInputPin::Receive answers S_FALSE during a flush, which is not a   *)
(* failure: the sample goes on, with the properties of an earlier one.     *)
(* Otherwise the sample's own properties are read, and a changed type may  *)
(* be refused.                                                             *)
Check(changed, accepted) ==
  LET rejects == state = "Stopped" \/ (~flushing /\ runTimeError)
      refused == ~rejects /\ ~flushing /\ changed /\ ~accepted
      props   == IF rejects \/ flushing THEN typeChanged ELSE changed
  IN  /\ StreamStep("check", IF rejects \/ refused THEN "idle"
                             ELSE IF props THEN "type" ELSE "mixer")
      /\ typeChanged' = props
      /\ runTimeError' = (runTimeError \/ refused)
      /\ complete' = (complete \/ refused)
      /\ UNCHANGED mixer

(* SetMediaType, under F, then the clear of the queue.                     *)
SetMediaType ==
  /\ lockF = "none"
  /\ StreamStep("type", "clear")
  /\ \E b \in Bits : M!WriteBits(b)
  /\ UNCHANGED <<runTimeError, typeChanged, complete>>

TypeClear ==
  \/ /\ StreamStep("clear", "clear")
     /\ M!PopOne
     /\ UNCHANGED <<runTimeError, typeChanged, complete>>
  \/ /\ queue = << >>
     /\ StreamStep("clear", "mixer")
     /\ UNCHANGED <<mixer, runTimeError, typeChanged, complete>>

MixerReceive ==
  /\ StreamStep("mixer", "inside")
  /\ \E n \in 0..MaxSample, rest \in BOOLEAN, t \in Tags : M!Receive(n, rest, t)
  /\ UNCHANGED <<runTimeError, typeChanged, complete>>

MixerReceiveSteps ==
  /\ M!ReceiveSteps
  /\ UNCHANGED <<state, pin, lockF, lockR, apc, fpc, spc, outside>>

(* Faulty: an early return that keeps the receive lock.                    *)
ReturnLocked ==
  /\ rpc = "idle"
  /\ spc = "inside" /\ spc' = "idle"
  /\ UNCHANGED <<mixer, state, pin, lockF, lockR, apc, fpc, outside>>

ReceiveReturn ==
  /\ rpc = "idle"
  /\ StreamStep("inside", "idle")
  /\ UNCHANGED <<mixer, runTimeError, typeChanged, complete>>

(* No lock, and no test of m_bFlushing.                                    *)
EndOfStream ==
  /\ spc = "idle" /\ ~complete /\ committed
  /\ complete' = TRUE
  /\ UNCHANGED <<mixer, state, pin, lockF, lockR, apc, fpc, spc, committed, armed>>

----------------------------------------------------------------------------
(* The sound thread tests IsStreaming, perhaps waits for a free buffer,    *)
(* and calls Mix.                                                          *)
SoundTop ==
  /\ streaming /\ ~armed /\ mpc = "idle"
  /\ armed' = TRUE
  /\ UNCHANGED <<mixer, state, pin, lockF, lockR, apc, fpc, spc, complete, committed>>

SoundCall ==
  /\ armed
  /\ armed' = FALSE
  /\ \E b \in Bits : M!CallMix(b)
  /\ UNCHANGED <<state, pin, lockF, lockR, apc, fpc, spc, complete, committed>>

SoundMix ==
  /\ M!MixSteps
  /\ UNCHANGED <<state, pin, lockF, lockR, apc, fpc, spc, outside>>

----------------------------------------------------------------------------
AppCalls == Run \/ Pause \/ Stop
AppGoesOn == RunStart \/ PauseStop \/ StopPause \/ StopInactive

StreamGoesOn ==
  \/ \E changed, accepted \in BOOLEAN : Check(changed, accepted)
  \/ SetMediaType \/ TypeClear \/ MixerReceive \/ MixerReceiveSteps
  \/ ReceiveReturn

Sound == SoundTop \/ SoundCall \/ SoundMix

Next ==
  \/ AppCalls \/ AppGoesOn
  \/ BeginFlush \/ FlushBarrier \/ FlushClear \/ EndFlush
  \/ Commit \/ Receive \/ StreamGoesOn \/ EndOfStream
  \/ Sound

Spec == Init /\ [][Next]_vars

(* A thread inside a call goes on; one that waits for a lock which is free *)
(* again and again gets it in the end; the sound thread never stops.       *)
Fairness ==
  /\ SF_vars(AppGoesOn)
  /\ SF_vars(FlushBarrier) /\ WF_vars(FlushClear)
  /\ SF_vars(StreamGoesOn)
  /\ WF_vars(Sound)

FairSpec == Spec /\ Fairness

----------------------------------------------------------------------------
(* The mixer is used as it expects: what the pin does to its queue and to  *)
(* its bitness never happens while a Receive is copying.                   *)
MixerSpec == M!Spec

(* The mixer streams only in a running filter, and with no control call in *)
(* progress exactly then.                                                  *)
StreamingFollowsState ==
  /\ streaming => state = "Running"
  /\ lockF = "none" => (streaming <=> state = "Running")

(* No sample is on its way through the mixer once Pause has stopped it:    *)
(* Pause waits for the Receive in progress.                                *)
PauseDrains == rpc # "idle" => streaming /\ lockR = "stream"

(* Between the calls of the application, the flusher and the source the    *)
(* mixer streams as the state says, and a paused filter has nothing in it. *)
StreamsAsTold == TypeOK /\ StreamingFollowsState /\ PauseDrains

(* Run, Pause and Stop return, although Pause waits for a Receive that     *)
(* waits for the sound thread.                                             *)
ControlReturns == apc # "idle" ~> apc = "idle"

(* BeginFlush returns, although it waits for Receive too.                  *)
FlushReturns == fpc = "barrier" ~> fpc = "flushed"

(* Every Receive returns to the source.                                    *)
ReceiveReturns == spc # "idle" ~> spc = "idle"

(* Whoever waits for whom: every call of the filter and its pin returns.   *)
CallsReturn == ControlReturns /\ FlushReturns /\ ReceiveReturns

(* Between the barrier of BeginFlush and EndFlush no sample enters the     *)
(* queue ("Subsequent ones will be rejected because m_bFlushing == TRUE"). *)
FlushRejects ==
  [][Len(queue') > Len(queue) => fpc \notin {"clear", "flushed"}]_vars

=============================================================================
