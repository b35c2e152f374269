----------------------------- MODULE SoundLoop -----------------------------
(***************************************************************************)
(* COpenALStream (OpenALStream.cpp): the sound thread, its ring of AL      *)
(* buffers and the life of the object that owns both.                      *)
(*                                                                         *)
(* The thread takes frames from the mixer, puts them in the next buffer of *)
(* the ring and queues that buffer on the AL source; the AL device plays   *)
(* the queue on its own.  Any thread may change the format (frequency,     *)
(* bitness, speaker layout) between two steps, without a lock.             *)
(*                                                                         *)
(* The AL library is external: its source, its queue and the device that   *)
(* plays it are modelled from the calls SoundLoop makes.  The errors of AL *)
(* are only logged by the code, so a refused call changes nothing.         *)
(***************************************************************************)
EXTENDS Integers, Sequences

CONSTANTS
  NumBuffers,  (* num_buffers                                              *)
  Latency,     (* m_latency, in ms                                         *)
  Formats,     (* records with a field freq: what the set... calls write   *)
  NoData       (* content of a buffer fresh from palGenBuffers             *)

ASSUME NumBuffersAssumption == NumBuffers \in Nat \ {0}
ASSUME LatencyAssumption    == Latency \in Nat
ASSUME FormatsAssumption    ==
  NoData \notin Formats /\ \A f \in Formats : f.freq \in Nat

VARIABLES
  streaming,   (* CMixer's m_bStreaming                                    *)
  fmt,         (* m_frequency, m_bitness, m_speaker_layout                 *)
  life,        (* progress of the destructor                               *)
  runThread,   (* m_run_thread                                             *)
  pc,          (* where the sound thread is                                *)
  past,        (* past_frequency, past_bitness, past_speaker_layout        *)
  frames,      (* frames_per_buffer                                        *)
  next,        (* next_buffer                                              *)
  num,         (* num_buffers_queued                                       *)
  got,         (* num_buffers_processed                                    *)
  context,     (* external: there is a current AL context                  *)
  alq,         (* external: the buffers queued on m_source                 *)
  done,        (* external: how many of them are processed                 *)
  play,        (* external: state of m_source                              *)
  data         (* external: format of the data held by each buffer         *)

control == <<streaming, fmt>>
object  == <<life, runThread>>
locals  == <<past, frames, next, num, got>>
al      == <<context, alq, done, play, data>>
vars    == <<control, object, pc, locals, al>>

Slots == 0 .. NumBuffers - 1

ThreadPCs == {"none", "start", "generate", "top", "check", "reset", "measure",
              "record", "query", "unqueue", "mix", "fill", "queue", "play",
              "ended"}

FramesPerBuffer(f) ==
  ((f.freq \div 1000) * (IF Latency > 0 THEN Latency ELSE 1)) \div NumBuffers

Queued == {alq[i] : i \in 1..Len(alq)}

TypeOK ==
  /\ streaming \in BOOLEAN
  /\ fmt \in Formats
  /\ life \in {"alive", "closing", "joining", "gone"}
  /\ runThread \in BOOLEAN
  /\ pc \in ThreadPCs
  /\ past \in Formats
  /\ frames \in Nat
  /\ next \in Slots
  /\ num \in 0..NumBuffers
  /\ got \in 0..NumBuffers
  /\ context \in BOOLEAN
  /\ alq \in Seq(Slots)
  /\ done \in 0..Len(alq)
  /\ play \in {"initial", "playing", "stopped"}
  /\ data \in [Slots -> Formats \cup {NoData}]

Init ==
  /\ streaming = FALSE
  /\ fmt \in Formats /\ past = fmt
  /\ life = "alive"
  /\ runThread = FALSE
  /\ pc = "none"
  /\ frames = 0 /\ next = 0 /\ num = 0 /\ got = 0
  /\ context = TRUE
  /\ alq = << >> /\ done = 0 /\ play = "initial"
  /\ data = [s \in Slots |-> NoData]

----------------------------------------------------------------------------
(* The rest of the filter.                                                 *)

(* One of setFrequency, setSpeakerLayout, setBitness.                      *)
SetFormat(f) ==
  /\ life = "alive"
  /\ fmt' = f
  /\ UNCHANGED <<streaming, object, pc, locals, al>>

(* COpenALFilter::Run starts the mixer, then the device.                   *)
StartStreaming ==
  /\ life = "alive"
  /\ streaming' = TRUE
  /\ UNCHANGED <<fmt, object, pc, locals, al>>

StopStreaming ==
  /\ streaming' = FALSE
  /\ UNCHANGED <<fmt, object, pc, locals, al>>

(* num_buffers_queued is a member and keeps its value; the other locals    *)
(* are set by the thread before they are read.                             *)
StartDevice ==
  /\ life = "alive" /\ streaming
  /\ ~runThread /\ pc \in {"none", "ended"}
  /\ runThread' = TRUE
  /\ pc' = "start"
  /\ UNCHANGED <<control, life, locals, al>>

(* The destructor: CloseDevice (StopDevice, Destroy), then join.  The      *)
(* graph has stopped the filter before it releases it.                     *)
StopDevice ==
  /\ life = "alive" /\ ~streaming
  /\ life' = "closing"
  /\ runThread' = FALSE
  /\ UNCHANGED <<control, pc, locals, al>>

Destroy ==
  /\ life = "closing"
  /\ life' = "joining"
  /\ context' = FALSE
  /\ alq' = << >> /\ done' = 0 /\ play' = "initial"
  /\ data' = [s \in Slots |-> NoData]
  /\ UNCHANGED <<control, runThread, pc, locals>>

Join ==
  /\ life = "joining"
  /\ pc \in {"none", "ended"}
  /\ life' = "gone"
  /\ UNCHANGED <<control, runThread, pc, locals, al>>

----------------------------------------------------------------------------
(* The AL device (external) plays one more buffer of the queue.  A source  *)
(* that has played its whole queue stops.                                  *)
Render ==
  /\ play = "playing" /\ done < Len(alq)
  /\ done' = done + 1
  /\ play' = IF done + 1 = Len(alq) THEN "stopped" ELSE "playing"
  /\ UNCHANGED <<control, object, pc, locals, context, alq, data>>

----------------------------------------------------------------------------
(* The sound thread, SoundLoop.                                            *)

Goto(from, to) ==
  /\ pc = from
  /\ pc' = to
  /\ UNCHANGED <<control, object>>

Start ==
  /\ Goto("start", "generate")
  /\ past' = fmt
  /\ UNCHANGED <<frames, next, num, got, al>>

Generate ==
  /\ Goto("generate", "top")
  /\ frames' = FramesPerBuffer(fmt)
  /\ next' = 0
  /\ IF context
     THEN /\ data' = [s \in Slots |-> NoData]
          /\ alq' = << >> /\ done' = 0 /\ play' = "initial"
     ELSE UNCHANGED <<data, alq, done, play>>
  /\ UNCHANGED <<past, num, got, context>>

(* Faulty: waits for the mixer to stream before it looks at m_run_thread.  *)
TopStreaming ==
  /\ streaming
  /\ Goto("top", IF runThread THEN "check" ELSE "ended")
  /\ UNCHANGED <<locals, al>>

(* while (m_run_thread) and the test of IsStreaming; when the mixer is not *)
(* streaming the thread sleeps and looks again.                            *)
Top ==
  /\ ~runThread \/ streaming
  /\ Goto("top", IF runThread THEN "check" ELSE "ended")
  /\ UNCHANGED <<locals, al>>

CheckFormat ==
  /\ Goto("check", IF past # fmt THEN "reset" ELSE "query")
  /\ UNCHANGED <<locals, al>>

(* Faulty: starts the ring over without emptying the source's queue.       *)
ResetCount ==
  /\ Goto("reset", "measure")
  /\ next' = 0
  /\ num' = 0
  /\ UNCHANGED <<past, frames, got, al>>

(* Stop the source, empty its queue, replace its buffers.                  *)
Reset ==
  /\ Goto("reset", "measure")
  /\ next' = 0
  /\ num' = 0
  /\ IF context
     THEN /\ alq' = << >> /\ done' = 0 /\ play' = "stopped"
          /\ data' = [s \in Slots |-> NoData]
     ELSE UNCHANGED <<alq, done, play, data>>
  /\ UNCHANGED <<past, frames, got, context>>

Measure ==
  /\ Goto("measure", "record")
  /\ frames' = FramesPerBuffer(fmt)
  /\ UNCHANGED <<past, next, num, got, al>>

Record ==
  /\ Goto("record", "query")
  /\ past' = fmt
  /\ UNCHANGED <<frames, next, num, got, al>>

(* Faulty: lets one buffer too many through.                               *)
BlockedLate == num > NumBuffers /\ done = 0

(* All buffers taken and none processed: sleep and start over.             *)
Blocked == num = NumBuffers /\ done = 0

Query ==
  /\ Goto("query", IF Blocked THEN "top" ELSE IF done > 0 THEN "unqueue" ELSE "mix")
  /\ got' = done
  /\ UNCHANGED <<past, frames, next, num, al>>

Unqueue ==
  /\ Goto("unqueue", "mix")
  /\ num' = num - got
  /\ IF context
     THEN /\ alq' = SubSeq(alq, got + 1, Len(alq))
          /\ done' = done - got
     ELSE UNCHANGED <<alq, done>>
  /\ UNCHANGED <<past, frames, next, got, context, play, data>>

(* Mix reports the frames it was asked for; none asked for, none buffered. *)
MixReturns ==
  /\ Goto("mix", IF frames = 0 THEN "top" ELSE "fill")
  /\ UNCHANGED <<locals, al>>

(* palBufferData, with the format of this instant; AL refuses a buffer     *)
(* that is queued.                                                         *)
Fill ==
  /\ Goto("fill", "queue")
  /\ data' = IF context /\ next \notin Queued
             THEN [data EXCEPT ![next] = fmt] ELSE data
  /\ UNCHANGED <<locals, context, alq, done, play>>

(* Faulty: the index is not wrapped.                                       *)
QueueNoWrap ==
  /\ Goto("queue", "play")
  /\ alq' = IF context /\ (alq = << >> \/ data[alq[1]] = data[next])
            THEN Append(alq, next) ELSE alq
  /\ num' = num + 1
  /\ next' = next + 1
  /\ UNCHANGED <<past, frames, got, context, done, play, data>>

(* Faulty: the index follows the count instead of the ring.                *)
QueueByCount ==
  /\ Goto("queue", "play")
  /\ alq' = IF context /\ (alq = << >> \/ data[alq[1]] = data[next])
            THEN Append(alq, next) ELSE alq
  /\ num' = num + 1
  /\ next' = (num + 1) % NumBuffers
  /\ UNCHANGED <<past, frames, got, context, done, play, data>>

(* palSourceQueueBuffers; AL refuses a buffer whose format is not that of  *)
(* the queue.  The slot is counted and passed either way.                  *)
QueueBuffer ==
  /\ Goto("queue", "play")
  /\ alq' = IF context /\ (alq = << >> \/ data[alq[1]] = data[next])
            THEN Append(alq, next) ELSE alq
  /\ num' = num + 1
  /\ next' = (next + 1) % NumBuffers
  /\ UNCHANGED <<past, frames, got, context, done, play, data>>

(* Faulty: starts the source once only.                                    *)
ResumeOnce ==
  /\ Goto("play", "top")
  /\ IF context /\ play = "initial"
     THEN /\ play' = IF alq = << >> THEN "stopped" ELSE "playing"
          /\ done' = 0
     ELSE UNCHANGED <<play, done>>
  /\ UNCHANGED <<locals, context, alq, data>>

(* palSourcePlay on a source that is not playing starts at the head of its *)
(* queue: buffers already processed become pending again.                  *)
Resume ==
  /\ Goto("play", "top")
  /\ IF context /\ play # "playing"
     THEN /\ play' = IF alq = << >> THEN "stopped" ELSE "playing"
          /\ done' = 0
     ELSE UNCHANGED <<play, done>>
  /\ UNCHANGED <<locals, context, alq, data>>

----------------------------------------------------------------------------
Environment ==
  \/ \E f \in Formats : SetFormat(f)
  \/ StartStreaming \/ StopStreaming
  \/ StartDevice \/ StopDevice

Teardown == Destroy \/ Join

Thread ==
  \/ Start \/ Generate \/ Top \/ CheckFormat \/ Reset \/ Measure \/ Record
  \/ Query \/ Unqueue \/ MixReturns \/ Fill \/ QueueBuffer \/ Resume

Next == Environment \/ Teardown \/ Render \/ Thread

Spec == Init /\ [][Next]_vars

(* The thread runs, its calls of Mix return (Mixer!MixReturnsAfterStop, or *)
(* a source that delivers), the device plays, a destructor goes on.        *)
Fairness ==
  /\ WF_vars(Thread)
  /\ WF_vars(Render)
  /\ WF_vars(Teardown)

FairSpec == Spec /\ Fairness

----------------------------------------------------------------------------
(* How many slots of the ring a buffer lies behind next_buffer.            *)
Behind(b) == IF b < next THEN next - b ELSE next - b + NumBuffers

(* The buffer about to be filled is not queued on the source, whatever     *)
(* became of earlier buffers and formats.                                  *)
NoRefill == pc = "fill" => next \notin Queued

(* num_buffers_queued never counts fewer buffers than are queued, so that  *)
(* taking the processed ones from it cannot go below zero (it is unsigned).*)
CountCovers ==
  /\ Len(alq) <= num
  /\ pc = "unqueue" => got <= num

(* Buffers are queued, hence played, in the order of the ring.             *)
RingOrder ==
  \A i, j \in 1..Len(alq) : i < j => Behind(alq[j]) < Behind(alq[i])

(* The ring as SoundLoop keeps it in next_buffer and num_buffers_queued,   *)
(* and as the source has it, through formats that change at any instant.   *)
RingSafe == TypeOK /\ NoRefill /\ CountCovers /\ RingOrder

(* The thread waits for the device only when every buffer of the ring is   *)
(* queued on the source ("Block until we have a free buffer").             *)
BlocksOnlyWhenFull == (pc = "query" /\ Blocked /\ context) => Len(alq) = NumBuffers

(* While the thread is to run and the mixer streams, the device is, again  *)
(* and again, playing.                                                     *)
SoundComesOut ==
  runThread /\ streaming ~> play = "playing" \/ ~runThread \/ ~streaming

(* The destructor gets past its join.                                      *)
DestructorReturns == life = "closing" ~> life = "gone"
=============================================================================
