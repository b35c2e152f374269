------------------------------- MODULE Mixer -------------------------------
(***************************************************************************)
(* CMixer (OpenALAudioRenderer.cpp): the hand-over of audio frames from    *)
(* the upstream streaming thread, which calls Receive, to the sound        *)
(* thread, which calls Mix.  The two meet in m_sample_queue and in two     *)
(* flags, m_samples_ready and m_request_samples, each waited on with a     *)
(* time-out and never protected by a common lock.                          *)
(*                                                                         *)
(* The queue holds whole frames (CopyWaveform cuts a sample down to whole  *)
(* frames and Mix asks for whole frames).  A frame carries the tag of the  *)
(* sample it came from and nothing else.                                   *)
(*                                                                         *)
(* CMixer's critical section is held by Receive from its entry to its      *)
(* return; Start/StopStreaming hold it for the length of one step.  Hence  *)
(* it is free exactly when no Receive is in progress.                      *)
(***************************************************************************)
EXTENDS Integers, Sequences

CONSTANTS
  Desired,     (* frames asked for by one Mix (m_desired_bytes, in frames) *)
  MaxSample,   (* longest media sample, in whole frames                    *)
  Bits,        (* the values of m_nBitsPerSample                           *)
  Tags,        (* what distinguishes one sample's frames from another's    *)
  NoData       (* content of a position of the vector never written        *)

ASSUME DesiredAssumption   == Desired \in Nat \ {0}
ASSUME MaxSampleAssumption == MaxSample \in Nat \ {0}
ASSUME TagsAssumption      == NoData \notin Tags

VARIABLES
  streaming,   (* m_bStreaming                                             *)
  nBits,       (* m_nBitsPerSample                                         *)
  queue,       (* m_sample_queue                                           *)
  ready,       (* m_samples_ready                                          *)
  request,     (* m_request_samples                                        *)
  rpc,         (* where the streaming thread is in Receive/CopyWaveform    *)
  left,        (* frames CopyWaveform has still to push                    *)
  tag,         (* tag of the sample being copied                           *)
  mpc,         (* where the sound thread is in Mix/WaitForFrames           *)
  mixBits,     (* num_of_bits, the argument of WaitForFrames               *)
  pos,         (* loop index of the pop loop of Mix                        *)
  samples,     (* the caller's vector, reused from one Mix to the next     *)
  broken       (* this Mix gave up its wait or raced with a clear          *)

recvVars == <<rpc, left, tag>>
mixVars  == <<mpc, mixBits, pos, samples>>
vars == <<streaming, nBits, queue, ready, request, recvVars, mixVars, broken>>

ReceivePCs == {"idle", "copy", "signal", "await", "take"}
WaitPCs    == {"enter", "wait", "test"}
MixPCs     == {"idle", "check", "request", "take", "pop"} \cup WaitPCs

TypeOK ==
  /\ streaming \in BOOLEAN
  /\ nBits \in Bits
  /\ queue \in Seq(Tags)
  /\ ready \in BOOLEAN
  /\ request \in BOOLEAN
  /\ rpc \in ReceivePCs
  /\ left \in 0..MaxSample
  /\ tag \in Tags \cup {NoData}
  /\ mpc \in MixPCs
  /\ mixBits \in Bits
  /\ pos \in 1..(Desired + 1)
  /\ samples \in [1..Desired -> Tags \cup {NoData}]
  /\ broken \in BOOLEAN

(* m_nBitsPerSample has no initializer: any value.                         *)
Init ==
  /\ streaming = FALSE
  /\ nBits \in Bits
  /\ queue = << >>
  /\ ready = FALSE
  /\ request = FALSE
  /\ rpc = "idle" /\ left = 0 /\ tag = NoData
  /\ mpc = "idle" /\ mixBits \in Bits /\ pos = 1
  /\ samples = [i \in 1..Desired |-> NoData]
  /\ broken = FALSE

(* The critical section of CMixer.                                         *)
MixerLockFree == rpc = "idle"

----------------------------------------------------------------------------
(* Start and stop, called by the filter's Run and Pause.                   *)

StartStreaming ==
  /\ MixerLockFree
  /\ streaming' = TRUE
  /\ UNCHANGED <<nBits, queue, ready, request, recvVars, mixVars, broken>>

(* Faulty: does not take the critical section.                             *)
StopUnlocked ==
  /\ streaming' = FALSE
  /\ UNCHANGED <<nBits, queue, ready, request, recvVars, mixVars, broken>>

StopStreaming ==
  /\ MixerLockFree
  /\ streaming' = FALSE
  /\ UNCHANGED <<nBits, queue, ready, request, recvVars, mixVars, broken>>

----------------------------------------------------------------------------
(* The streaming thread: Receive and CopyWaveform.                         *)

(* Faulty: a sample without one whole frame enters the push loop.          *)
ReceiveEmptyToo(n, rest, t) ==
  /\ MixerLockFree
  /\ IF streaming /\ (n > 0 \/ rest)
     THEN rpc' = "copy" /\ left' = n /\ tag' = t
     ELSE UNCHANGED recvVars
  /\ UNCHANGED <<streaming, nBits, queue, ready, request, mixVars, broken>>

(* A sample of n whole frames, rest: some bytes more than that.  It is     *)
(* dropped when it is empty and when the mixer is not streaming.           *)
Receive(n, rest, t) ==
  /\ MixerLockFree
  /\ IF streaming /\ (n > 0 \/ rest)
     THEN /\ rpc' = IF n > 0 THEN "copy" ELSE "signal"
          /\ left' = n
          /\ tag' = t
     ELSE UNCHANGED recvVars
  /\ UNCHANGED <<streaming, nBits, queue, ready, request, mixVars, broken>>

Push ==
  /\ rpc = "copy"
  /\ queue' = Append(queue, tag)
  /\ left' = left - 1
  /\ rpc' = IF left = 1 THEN "signal" ELSE "copy"
  /\ UNCHANGED <<streaming, nBits, ready, request, tag, mixVars, broken>>

(* Faulty: notifies without raising the flag.                              *)
SignalWithoutFlag ==
  /\ rpc = "signal"
  /\ rpc' = "await"
  /\ UNCHANGED <<streaming, nBits, queue, ready, request, left, tag, mixVars, broken>>

SignalReady ==
  /\ rpc = "signal"
  /\ ready' = TRUE
  /\ rpc' = "await"
  /\ UNCHANGED <<streaming, nBits, queue, request, left, tag, mixVars, broken>>

(* Faulty: the wait ends at its time-out.                                  *)
SeeTimeout ==
  /\ rpc = "await"
  /\ rpc' = "take"
  /\ UNCHANGED <<streaming, nBits, queue, ready, request, left, tag, mixVars, broken>>

(* The wait for a request; a time-out of the wait only re-reads the flag.  *)
(* The flag is tested in one step and reset in a later one: the mutex held *)
(* here is not taken by the thread that raises the flag.                   *)
SeeRequest ==
  /\ rpc = "await"
  /\ request
  /\ rpc' = "take"
  /\ UNCHANGED <<streaming, nBits, queue, ready, request, left, tag, mixVars, broken>>

TakeRequest ==
  /\ rpc = "take"
  /\ request' = FALSE
  /\ rpc' = "idle"
  /\ UNCHANGED <<streaming, nBits, queue, ready, left, tag, mixVars, broken>>

(* What the pin does to the mixer between two samples: SetMediaType writes *)
(* m_nBitsPerSample, and m_sample_queue.clear() is a loop of pops that is  *)
(* not synchronized with Mix.                                              *)
WriteBits(b) ==
  /\ nBits' = b
  /\ UNCHANGED <<streaming, queue, ready, request, recvVars, mixVars, broken>>

PopOne ==
  /\ queue # << >>
  /\ queue' = Tail(queue)
  /\ broken' = (broken \/ mpc # "idle")
  /\ UNCHANGED <<streaming, nBits, ready, request, recvVars, mixVars>>

(* The pin does neither while a Receive is in progress; the pin's locks    *)
(* see to that, and module AudioRenderer shows it.                         *)
SetBits(b) == MixerLockFree /\ WriteBits(b)
ClearOne   == MixerLockFree /\ PopOne

----------------------------------------------------------------------------
(* The sound thread: Mix and WaitForFrames.                                *)

CallMix(b) ==
  /\ mpc = "idle"
  /\ mpc' = "check"
  /\ mixBits' = b
  /\ broken' = FALSE
  /\ UNCHANGED <<streaming, nBits, queue, ready, request, recvVars, pos, samples>>

(* Faulty: one frame short.                                                *)
CheckQueueShort ==
  /\ mpc = "check"
  /\ mpc' = IF Len(queue) < Desired - 1 THEN "request" ELSE "pop"
  /\ UNCHANGED <<streaming, nBits, queue, ready, request, recvVars, mixBits,
                 pos, samples, broken>>

CheckQueue ==
  /\ mpc = "check"
  /\ mpc' = IF Len(queue) < Desired THEN "request" ELSE "pop"
  /\ UNCHANGED <<streaming, nBits, queue, ready, request, recvVars, mixBits,
                 pos, samples, broken>>

RequestSamples ==
  /\ mpc = "request"
  /\ request' = TRUE
  /\ mpc' = "enter"
  /\ UNCHANGED <<streaming, nBits, queue, ready, recvVars, mixBits, pos,
                 samples, broken>>

(* WaitForFrames refuses to start a wait when the mixer is not streaming.  *)
EnterWait ==
  /\ mpc = "enter"
  /\ mpc' = IF streaming THEN "wait" ELSE "pop"
  /\ broken' = (broken \/ ~streaming)
  /\ UNCHANGED <<streaming, nBits, queue, ready, request, recvVars, mixBits,
                 pos, samples>>

TestReady ==
  /\ mpc = "wait"
  /\ mpc' = IF ready THEN "take" ELSE "test"
  /\ UNCHANGED <<streaming, nBits, queue, ready, request, recvVars, mixBits,
                 pos, samples, broken>>

(* Faulty: waits on without asking for another sample.                     *)
TakeReadyOnly ==
  /\ mpc = "take"
  /\ ready' = FALSE
  /\ mpc' = "enter"
  /\ UNCHANGED <<streaming, nBits, queue, request, recvVars, mixBits, pos,
                 samples, broken>>

TakeReady ==
  /\ mpc = "take"
  /\ ready' = FALSE
  /\ mpc' = "check"
  /\ UNCHANGED <<streaming, nBits, queue, request, recvVars, mixBits, pos,
                 samples, broken>>

(* Faulty: does not look at m_bStreaming again.                            *)
TestWaitBitness ==
  LET giveUp == mixBits # nBits
  IN  /\ mpc = "test"
      /\ mpc' = IF giveUp THEN "pop" ELSE "wait"
      /\ broken' = (broken \/ giveUp)
      /\ UNCHANGED <<streaming, nBits, queue, ready, request, recvVars,
                     mixBits, pos, samples>>

(* The two reasons to give up a wait: no longer streaming, or a new        *)
(* bitness.  Otherwise wait_for times out or is notified and looks again.  *)
TestWait ==
  LET giveUp == ~streaming \/ mixBits # nBits
  IN  /\ mpc = "test"
      /\ mpc' = IF giveUp THEN "pop" ELSE "wait"
      /\ broken' = (broken \/ giveUp)
      /\ UNCHANGED <<streaming, nBits, queue, ready, request, recvVars,
                     mixBits, pos, samples>>

(* One turn of the pop loop.  try_pop on an empty queue leaves the         *)
(* position of the vector as an earlier Mix left it.                       *)
Pop ==
  /\ mpc = "pop"
  /\ pos <= Desired
  /\ pos' = pos + 1
  /\ IF queue # << >>
     THEN /\ samples' = [samples EXCEPT ![pos] = Head(queue)]
          /\ queue' = Tail(queue)
     ELSE UNCHANGED <<samples, queue>>
  /\ UNCHANGED <<streaming, nBits, ready, request, recvVars, mpc, mixBits,
                 broken>>

(* Mix reports Desired frames, whatever the loop found.                    *)
ReturnMix ==
  /\ mpc = "pop"
  /\ pos = Desired + 1
  /\ mpc' = "idle"
  /\ pos' = 1
  /\ UNCHANGED <<streaming, nBits, queue, ready, request, recvVars, mixBits,
                 samples, broken>>

----------------------------------------------------------------------------
Control == StartStreaming \/ StopStreaming

ReceiveSteps == Push \/ SignalReady \/ SeeRequest \/ TakeRequest

Streaming ==
  \/ \E n \in 0..MaxSample, rest \in BOOLEAN, t \in Tags : Receive(n, rest, t)
  \/ ReceiveSteps

Pin == ClearOne \/ \E b \in Bits : SetBits(b)

MixSteps ==
  \/ CheckQueue \/ RequestSamples \/ EnterWait \/ TestReady \/ TakeReady \/ TestWait
  \/ Pop \/ ReturnMix

Sound == MixSteps \/ \E b \in Bits : CallMix(b)

Next == Control \/ Streaming \/ Pin \/ Sound

Spec == Init /\ [][Next]_vars

(* The sound thread never stops calling Mix while it plays, and the        *)
(* streaming thread finishes a Receive it has begun.  Nothing obliges the  *)
(* source to send a sample or the application to start or stop.            *)
Fairness ==
  /\ WF_vars(Sound)
  /\ WF_vars(ReceiveSteps)

FairSpec == Spec /\ Fairness

----------------------------------------------------------------------------
(* The two threads never wait for each other: when Receive waits for a     *)
(* request while Mix waits for samples, one of the two flags is up and     *)
(* lets one of them go on.                                                 *)
NoMutualWait ==
  (rpc = "await" /\ mpc \in WaitPCs) => (request \/ ready)

(* A Mix whose wait was not given up and that no clear disturbed fills     *)
(* every position: its pop loop never finds the queue empty.               *)
NoUnderfill ==
  (mpc = "pop" /\ ~broken) => Len(queue) >= Desired + 1 - pos

(* m_sample_queue has no capacity.  The hand-shake alone bounds it: one    *)
(* sample per request, requests only while a Mix is short of frames, and   *)
(* one request left over from a wait that was given up.                    *)
QueueBound == Len(queue) <= Desired - 1 + 3 * MaxSample

(* The queue between CopyWaveform and Mix, for the whole of its life: what *)
(* is in it has its type, Mix finds what it has waited for, and Receive    *)
(* adds no more than the hand-shake lets it.                               *)
QueueSound == TypeOK /\ NoUnderfill /\ QueueBound

(* Receive returns: it is never left waiting for a request, so the         *)
(* critical section it holds, which Pause needs, is always given back.     *)
ReceiveReturns == rpc # "idle" ~> rpc = "idle"

(* Once the mixer has stopped streaming, a Mix in progress comes back even *)
(* if no sample ever arrives (or the mixer is started again).              *)
MixReturnsAfterStop == ~streaming ~> (mpc = "idle" \/ streaming)
=============================================================================
