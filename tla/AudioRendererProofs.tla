------------------------ MODULE AudioRendererProofs ------------------------
(***************************************************************************)
(* Proofs about the filter and its pin: who owns which lock when, how the  *)
(* mixer's streaming flag follows the filter's state, and that the filter  *)
(* drives the mixer only as module Mixer allows.                           *)
(***************************************************************************)
EXTENDS AudioRenderer, TLAPS

(* Where each thread is, and the locks it holds there.                     *)
Locks ==
  /\ lockF = IF apc = "idle" THEN "none" ELSE "app"
  /\ lockR = "stream" <=> spc # "idle"
  /\ lockR = "flusher" <=> fpc = "clear"
  /\ rpc # "idle" => spc = "inside" /\ streaming

(* How far the mixer is behind the filter's state during a control call.   *)
Control ==
  /\ apc \in {"idle", "start", "pause", "stop", "paused"}
  /\ apc = "idle" => (streaming <=> state = "Running")
  /\ apc = "start" => ~streaming /\ state = "Running"
  /\ apc \in {"pause", "stop"} => streaming /\ state = "Running"
  /\ apc = "paused" => ~streaming /\ state = "Paused"

Booleans == streaming \in BOOLEAN

Inductive == Booleans /\ Locks /\ Control

USE DEF mixer, pin, outside

LEMMA InitInductive == Init => Inductive
BY DEF Init, M!Init, Inductive, Booleans, Locks, Control

LEMMA StepInductive == Inductive /\ [Next]_vars => Inductive'
<1> SUFFICES ASSUME Inductive, [Next]_vars PROVE Inductive'
  OBVIOUS
<1> USE DEF Inductive, Booleans, Locks, Control
<1>1. CASE Run \/ Pause \/ Stop
  <2>1. CASE Run
    BY <2>1 DEF Run, AppStep
  <2>2. CASE Pause
    BY <2>2 DEF Pause, AppStep
  <2>3. CASE Stop
    BY <2>3 DEF Stop, AppStep
  <2> QED
    BY <1>1, <2>1, <2>2, <2>3
<1>2. CASE AppGoesOn
  <2> USE DEF AppStep, M!StartStreaming, M!StopStreaming, M!MixerLockFree,
              M!recvVars
  <2>1. CASE RunStart
    BY <2>1 DEF RunStart
  <2>2. CASE PauseStop
    BY <2>2 DEF PauseStop
  <2>3. CASE StopPause
    BY <2>3 DEF StopPause
  <2>4. CASE StopInactive
    BY <2>4 DEF StopInactive
  <2> QED
    BY <1>2, <2>1, <2>2, <2>3, <2>4 DEF AppGoesOn
<1>3. CASE BeginFlush \/ FlushBarrier \/ FlushClear \/ EndFlush
  BY <1>3 DEF BeginFlush, FlushBarrier, FlushClear, EndFlush, FlushStep,
              M!PopOne, M!recvVars
<1>4. CASE Commit \/ Receive \/ EndOfStream \/ UNCHANGED vars
  BY <1>4 DEF Commit, Receive, StreamStep, EndOfStream, vars
<1>5. ASSUME NEW changed \in BOOLEAN, NEW accepted \in BOOLEAN,
             Check(changed, accepted)
      PROVE  Inductive'
  BY <1>5 DEF Check, StreamStep
<1>6. CASE SetMediaType \/ TypeClear \/ ReceiveReturn
  BY <1>6 DEF SetMediaType, TypeClear, ReceiveReturn, StreamStep,
              M!WriteBits, M!PopOne, M!recvVars
<1>7. CASE MixerReceive
  BY <1>7 DEF MixerReceive, StreamStep, M!Receive, M!MixerLockFree, M!recvVars
<1>8. CASE MixerReceiveSteps
  BY <1>8 DEF MixerReceiveSteps, M!ReceiveSteps, M!Push, M!SignalReady,
              M!SeeRequest, M!TakeRequest
<1>9. CASE SoundTop \/ SoundCall
  BY <1>9 DEF SoundTop, SoundCall, M!CallMix, M!recvVars
<1>10. CASE SoundMix
  BY <1>10 DEF SoundMix, M!MixSteps, M!CheckQueue, M!RequestSamples,
               M!EnterWait, M!TestReady, M!TakeReady, M!TestWait, M!Pop,
               M!ReturnMix, M!recvVars
<1> QED
  BY <1>1, <1>2, <1>3, <1>4, <1>5, <1>6, <1>7, <1>8, <1>9, <1>10
  DEF Next, AppCalls, StreamGoesOn, Sound

(* The inductive invariant holds.                                          *)
THEOREM InductiveCorrect == Spec => []Inductive
BY InitInductive, StepInductive, PTL DEF Spec

(* The mixer streams only in a running filter.                             *)
THEOREM StreamingFollowsStateCorrect == Spec => []StreamingFollowsState
<1>1. Inductive => StreamingFollowsState
  BY DEF Inductive, Locks, Control, StreamingFollowsState
<1> QED
  BY <1>1, InductiveCorrect, PTL

(* Pause leaves no sample on its way through the mixer.                    *)
THEOREM PauseDrainsCorrect == Spec => []PauseDrains
<1>1. Inductive => PauseDrains
  BY DEF Inductive, Locks, PauseDrains
<1> QED
  BY <1>1, InductiveCorrect, PTL

----------------------------------------------------------------------------
(* Every step of the filter is a step of the mixer as module Mixer has it, *)
(* or leaves the mixer alone.                                              *)
LEMMA StepMixer == Inductive /\ [Next]_vars => [M!Next]_(M!vars)
<1> SUFFICES ASSUME Inductive, [Next]_vars PROVE M!Next \/ UNCHANGED M!vars
  OBVIOUS
<1> USE DEF M!vars, M!recvVars, M!mixVars
<1>0. (spc # "inside" => M!MixerLockFree) /\ (fpc = "clear" => spc = "idle")
  BY DEF Inductive, Locks, M!MixerLockFree
<1>1. CASE Run \/ Pause \/ Stop \/ StopInactive
  BY <1>1 DEF Run, Pause, Stop, StopInactive
<1>2. CASE RunStart \/ PauseStop \/ StopPause
  BY <1>2 DEF RunStart, PauseStop, StopPause, M!Next, M!Control
<1>3. CASE BeginFlush \/ FlushBarrier \/ EndFlush
  BY <1>3 DEF BeginFlush, FlushBarrier, EndFlush
<1>4. CASE FlushClear
  BY <1>0, <1>4 DEF FlushClear, FlushStep, M!Next, M!Pin, M!ClearOne
<1>5. CASE Commit \/ Receive \/ EndOfStream \/ UNCHANGED vars
  BY <1>5 DEF Commit, Receive, EndOfStream, vars
<1>6. ASSUME NEW changed \in BOOLEAN, NEW accepted \in BOOLEAN,
             Check(changed, accepted)
      PROVE  UNCHANGED M!vars
  BY <1>6 DEF Check
<1>7. CASE SetMediaType
  BY <1>0, <1>7 DEF SetMediaType, StreamStep, M!Next, M!Pin, M!SetBits
<1>8. CASE TypeClear \/ ReceiveReturn
  BY <1>0, <1>8 DEF TypeClear, ReceiveReturn, StreamStep, M!Next, M!Pin,
              M!ClearOne
<1>9. CASE MixerReceive
  BY <1>9 DEF MixerReceive, M!Next, M!Streaming
<1>10. CASE MixerReceiveSteps
  BY <1>10 DEF MixerReceiveSteps, M!Next, M!Streaming
<1>11. CASE SoundTop
  BY <1>11 DEF SoundTop
<1>12. CASE SoundCall \/ SoundMix
  BY <1>12 DEF SoundCall, SoundMix, M!Next, M!Sound
<1> QED
  BY <1>1, <1>2, <1>3, <1>4, <1>5, <1>6, <1>7, <1>8, <1>9, <1>10, <1>11, <1>12
  DEF Next, AppCalls, AppGoesOn, StreamGoesOn, Sound

(* The filter drives the mixer as module Mixer has it.                     *)
THEOREM RefinesMixer == Spec => MixerSpec
<1>1. Init => M!Init
  BY DEF Init
<1> QED
  BY <1>1, StepMixer, InductiveCorrect, PTL DEF Spec, MixerSpec, M!Spec

----------------------------------------------------------------------------
(* The mixer's types, with the shape of its two loops.                     *)
MixerTypes ==
  /\ M!TypeOK
  /\ IF rpc = "copy" THEN left > 0 /\ tag \in Tags ELSE left = 0
  /\ mpc # "pop" => pos = 1

LEMMA MixerTypesStep == MixerTypes /\ [M!Next]_(M!vars) => MixerTypes'
<1> USE Assumption DEF M!ReceivePCs, M!WaitPCs, M!MixPCs, M!recvVars, M!mixVars
<1> SUFFICES ASSUME MixerTypes, [M!Next]_(M!vars) PROVE MixerTypes'
  OBVIOUS
<1> USE DEF MixerTypes, M!TypeOK
<1>1. CASE M!StartStreaming \/ M!StopStreaming
  BY <1>1 DEF M!StartStreaming, M!StopStreaming
<1>2. ASSUME NEW n \in 0..MaxSample, NEW rest \in BOOLEAN, NEW t \in Tags,
             M!Receive(n, rest, t)
      PROVE  MixerTypes'
  BY <1>2 DEF M!Receive
<1>3. CASE M!Push
  <2>1. left' \in 0..MaxSample /\ queue' \in Seq(Tags)
    BY <1>3 DEF M!Push
  <2> QED
    BY <1>3, <2>1 DEF M!Push
<1>4. CASE M!SignalReady \/ M!SeeRequest \/ M!TakeRequest
  BY <1>4 DEF M!SignalReady, M!SeeRequest, M!TakeRequest
<1>5. CASE M!ClearOne
  BY <1>5 DEF M!ClearOne, M!PopOne
<1>6. ASSUME NEW b \in Bits, M!SetBits(b) \/ M!CallMix(b) PROVE MixerTypes'
  BY <1>6 DEF M!SetBits, M!WriteBits, M!CallMix
<1>7. CASE M!CheckQueue \/ M!RequestSamples \/ M!EnterWait
  BY <1>7 DEF M!CheckQueue, M!RequestSamples, M!EnterWait
<1>8. CASE M!TestReady \/ M!TakeReady \/ M!TestWait
  BY <1>8 DEF M!TestReady, M!TakeReady, M!TestWait
<1>9. CASE M!Pop
  <2>1. queue # << >> => Tail(queue) \in Seq(Tags) /\ Head(queue) \in Tags
    OBVIOUS
  <2>2. pos' \in 1..(Desired + 1) /\ (mpc' # "pop" => pos' = 1)
    BY <1>9 DEF M!Pop
  <2>3. queue' \in Seq(Tags)
    BY <1>9, <2>1 DEF M!Pop
  <2>4. samples' \in [1..Desired -> Tags \cup {NoData}]
    <3>1. CASE queue = << >>
      BY <1>9, <3>1 DEF M!Pop
    <3>2. CASE queue # << >>
      BY <1>9, <2>1, <3>2 DEF M!Pop
    <3> QED
      BY <3>1, <3>2
  <2> QED
    BY <1>9, <2>2, <2>3, <2>4 DEF M!Pop
<1>10. CASE M!ReturnMix \/ UNCHANGED M!vars
  BY <1>10 DEF M!ReturnMix, M!vars
<1> QED
  BY <1>1, <1>2, <1>3, <1>4, <1>5, <1>6, <1>7, <1>8, <1>9, <1>10
  DEF M!Next, M!Control, M!Streaming, M!ReceiveSteps, M!Pin, M!Sound, M!MixSteps

(* The types of what the filter and its pin add to the mixer.              *)
FilterTypes ==
  /\ state \in {"Stopped", "Paused", "Running"}
  /\ flushing \in BOOLEAN /\ runTimeError \in BOOLEAN /\ typeChanged \in BOOLEAN
  /\ lockF \in {"none", "app"}
  /\ lockR \in {"none", "flusher", "stream"}
  /\ apc \in {"idle", "start", "pause", "stop", "paused"}
  /\ fpc \in {"idle", "barrier", "clear", "flushed"}
  /\ spc \in {"idle", "check", "type", "clear", "mixer", "inside"}
  /\ complete \in BOOLEAN /\ committed \in BOOLEAN /\ armed \in BOOLEAN

LEMMA FilterTypesStep == FilterTypes /\ [Next]_vars => FilterTypes'
<1> SUFFICES ASSUME FilterTypes, [Next]_vars PROVE FilterTypes'
  OBVIOUS
<1> USE DEF FilterTypes
<1>1. CASE AppCalls \/ AppGoesOn
  BY <1>1 DEF AppCalls, AppGoesOn, Run, Pause, Stop, RunStart, PauseStop, StopPause,
              StopInactive, AppStep
<1>2. CASE BeginFlush \/ FlushBarrier \/ FlushClear \/ EndFlush
  BY <1>2 DEF BeginFlush, FlushBarrier, FlushClear, EndFlush, FlushStep
<1>3. CASE Commit \/ Receive \/ EndOfStream \/ UNCHANGED vars
  BY <1>3 DEF Commit, Receive, StreamStep, EndOfStream, vars
<1>4. ASSUME NEW changed \in BOOLEAN, NEW accepted \in BOOLEAN,
             Check(changed, accepted)
      PROVE  FilterTypes'
  BY <1>4 DEF Check, StreamStep
<1>5. CASE SetMediaType \/ TypeClear \/ MixerReceive \/ ReceiveReturn
  BY <1>5 DEF SetMediaType, TypeClear, MixerReceive, ReceiveReturn, StreamStep
<1>6. CASE MixerReceiveSteps \/ Sound
  BY <1>6 DEF MixerReceiveSteps, Sound, SoundTop, SoundCall, SoundMix
<1> QED
  BY <1>1, <1>2, <1>3, <1>4, <1>5, <1>6 DEF Next, StreamGoesOn

(* Every variable of the filter, its pin and the mixer keeps to its type.  *)
THEOREM TypeCorrect == Spec => []TypeOK
<1>1. Init => MixerTypes /\ FilterTypes
  <2> SUFFICES ASSUME Init PROVE MixerTypes /\ FilterTypes
    OBVIOUS
  <2> USE Assumption DEF Init, M!Init
  <2>1. queue \in Seq(Tags) /\ left \in 0..MaxSample /\ pos \in 1..(Desired + 1)
    OBVIOUS
  <2>2. samples \in [1..Desired -> Tags \cup {NoData}]
    OBVIOUS
  <2> QED
    BY <2>1, <2>2 DEF MixerTypes, FilterTypes, M!TypeOK, M!ReceivePCs, M!MixPCs
<1>2. MixerTypes /\ FilterTypes => TypeOK
  BY DEF MixerTypes, FilterTypes, TypeOK
<1> QED
  BY <1>1, <1>2, StepMixer, MixerTypesStep, FilterTypesStep, InductiveCorrect, PTL
  DEF Spec

(* The mixer streams as the state says, and Pause leaves nothing in it.    *)
THEOREM StreamsAsToldCorrect == Spec => []StreamsAsTold
BY TypeCorrect, StreamingFollowsStateCorrect, PauseDrainsCorrect, PTL
DEF StreamsAsTold
=============================================================================
