-------------------------- MODULE SoundLoopProofs --------------------------
(***************************************************************************)
(* Proofs about the ring of SoundLoop, for every number of buffers, every  *)
(* latency and every set of formats.  Window is the inductive invariant:   *)
(* it says where in the ring the queued buffers can be, although refused   *)
(* buffers leave gaps between them.                                        *)
(***************************************************************************)
EXTENDS SoundLoop, TLAPS

(* The i-th oldest queued buffer is at most num - i + 1 slots behind next; *)
(* without a context there is no queue.                                    *)
Window ==
  /\ ~context => alq = << >>
  /\ \A i \in 1..Len(alq) : Behind(alq[i]) + (i - 1) <= num
  /\ RingOrder

(* A thread that is past its query has a slot to fill, and has seen as     *)
(* processed no more than what is.                                         *)
Room ==
  /\ pc \in {"mix", "fill", "queue"} => num < NumBuffers
  /\ pc = "unqueue" => got > 0 /\ got <= num /\ (context => got <= done)

Inductive == TypeOK /\ Window /\ Room

USE NumBuffersAssumption, LatencyAssumption, FormatsAssumption
USE DEF ThreadPCs

----------------------------------------------------------------------------
(* One turn of the ring.                                                   *)
LEMMA Turn ==
  ASSUME NEW n \in Slots
  PROVE  (n + 1) % NumBuffers = IF n + 1 = NumBuffers THEN 0 ELSE n + 1
BY DEF Slots

LEMMA Frames == \A f \in Formats : FramesPerBuffer(f) \in Nat
<1> TAKE f \in Formats
<1>1. f.freq \in Nat
  OBVIOUS
<1>2. (f.freq \div 1000) \in Nat
  BY <1>1
<1>3. \A m \in Nat : (f.freq \div 1000) * m \in Nat
  BY <1>2
<1>4. \A m \in Nat : m \div NumBuffers \in Nat
  OBVIOUS
<1> QED
  BY <1>3, <1>4 DEF FramesPerBuffer

(* A buffer is between one slot and the whole ring behind next_buffer.     *)
LEMMA BehindRange ==
  ASSUME TypeOK, NEW b \in Slots
  PROVE  Behind(b) \in 1..NumBuffers /\ (Behind(b) = NumBuffers <=> b = next)
BY DEF TypeOK, Slots, Behind
----------------------------------------------------------------------------
LEMMA InitInductive == Init => Inductive
<1> SUFFICES ASSUME Init PROVE Inductive
  OBVIOUS
<1> USE DEF Init
<1>1. alq \in Seq(Slots) /\ done \in 0..Len(alq)
  OBVIOUS
<1>2. next \in Slots /\ num \in 0..NumBuffers /\ got \in 0..NumBuffers
  BY DEF Slots
<1>3. data \in [Slots -> Formats \cup {NoData}]
  OBVIOUS
<1>4. Window /\ Room
  BY DEF Window, RingOrder, Room
<1> QED
  BY <1>1, <1>2, <1>3, <1>4 DEF Inductive, TypeOK

(* Steps that empty the queue or leave it as it is.                        *)
LEMMA QuietWindow ==
  ASSUME Inductive,
         \/ alq' = << >>
         \/ /\ alq' = alq /\ context' = context
            /\ num' = num /\ next' = next
  PROVE  Window'
BY DEF Inductive, Window, RingOrder, Behind

LEMMA TypeStep == Inductive /\ [Next]_vars => TypeOK'
<1> SUFFICES ASSUME Inductive, [Next]_vars PROVE TypeOK'
  OBVIOUS
<1> USE DEF Inductive, TypeOK, control, object, locals, al
<1>1. CASE Environment
  <2>1. ASSUME NEW f \in Formats, SetFormat(f) PROVE TypeOK'
    BY <2>1 DEF SetFormat
  <2>2. CASE StartStreaming \/ StopStreaming
    BY <2>2 DEF StartStreaming, StopStreaming
  <2>3. CASE StartDevice \/ StopDevice
    BY <2>3 DEF StartDevice, StopDevice
  <2> QED
    BY <1>1, <2>1, <2>2, <2>3 DEF Environment
<1>2. CASE Teardown \/ Generate \/ Reset
  <2>1. << >> \in Seq(Slots) /\ 0 \in 0..Len(<< >>) /\ 0 \in Slots
    BY DEF Slots
  <2>2. [s \in Slots |-> NoData] \in [Slots -> Formats \cup {NoData}]
    OBVIOUS
  <2>3. CASE Teardown
    BY <2>1, <2>2, <2>3 DEF Teardown, Destroy, Join
  <2>4. CASE Generate
    BY <2>1, <2>2, <2>4, Frames DEF Generate, Goto
  <2>5. CASE Reset
    <3>1. CASE context
      BY <2>1, <2>2, <2>5, <3>1 DEF Reset, Goto
    <3>2. CASE ~context
      BY <2>1, <2>5, <3>2 DEF Reset, Goto
    <3> QED
      BY <3>1, <3>2
  <2> QED
    BY <1>2, <2>3, <2>4, <2>5
<1>3. CASE Render
  BY <1>3 DEF Render
<1>4. CASE Start \/ Top \/ CheckFormat \/ Measure \/ Record \/ MixReturns
  BY <1>4, Frames DEF Start, Top, CheckFormat, Measure, Record, MixReturns, Goto
<1>5. CASE Query
  <2>1. done <= NumBuffers
    <3>1. CASE Len(alq) = 0
      BY <3>1
    <3>2. CASE Len(alq) > 0
      <4>1. Behind(alq[Len(alq)]) >= 1
        BY <3>2, BehindRange
      <4>2. Behind(alq[Len(alq)]) \in Int
        BY <3>2, BehindRange
      <4> QED
        BY <3>2, <4>1, <4>2 DEF Window
    <3> QED
      BY <3>1, <3>2
  <2> QED
    BY <1>5, <2>1 DEF Query, Goto
<1>6. CASE Unqueue
  <2>1. num' \in 0..NumBuffers
    BY <1>6 DEF Unqueue, Goto, Room
  <2>2. CASE context
    <3>1. got <= done /\ got > 0
      BY <1>6, <2>2 DEF Unqueue, Goto, Room
    <3>2. alq' = SubSeq(alq, got + 1, Len(alq)) /\ done' = done - got
      BY <1>6, <2>2 DEF Unqueue
    <3>3. alq' \in Seq(Slots) /\ Len(alq') = Len(alq) - got
      BY <3>1, <3>2
    <3> QED
      BY <1>6, <2>1, <3>1, <3>2, <3>3 DEF Unqueue, Goto
  <2>3. CASE ~context
    BY <1>6, <2>1, <2>3 DEF Unqueue, Goto
  <2> QED
    BY <2>2, <2>3
<1>7. CASE Fill
  BY <1>7 DEF Fill, Goto
<1>8. CASE QueueBuffer
  <2>1. next' \in Slots
    BY <1>8, Turn DEF QueueBuffer, Slots
  <2>2. num' \in 0..NumBuffers
    BY <1>8 DEF QueueBuffer, Goto, Room
  <2>3. alq' \in Seq(Slots) /\ done' \in 0..Len(alq')
    <3>1. Append(alq, next) \in Seq(Slots) /\ Len(Append(alq, next)) = Len(alq) + 1
      OBVIOUS
    <3> QED
      BY <1>8, <3>1 DEF QueueBuffer
  <2> QED
    BY <1>8, <2>1, <2>2, <2>3 DEF QueueBuffer, Goto
<1>9. CASE Resume
  BY <1>9 DEF Resume, Goto
<1>10. CASE UNCHANGED vars
  BY <1>10 DEF vars
<1> QED
  BY <1>1, <1>2, <1>3, <1>4, <1>5, <1>6, <1>7, <1>8, <1>9, <1>10
  DEF Next, Thread
----------------------------------------------------------------------------
(* The queue is never longer than num_buffers_queued.                      *)
LEMMA Covered ==
  ASSUME TypeOK, Window
  PROVE  Len(alq) <= num
<1>1. CASE Len(alq) = 0
  BY <1>1 DEF TypeOK
<1>2. CASE Len(alq) > 0
  <2>1. Len(alq) \in 1..Len(alq) /\ alq[Len(alq)] \in Slots
    BY <1>2 DEF TypeOK
  <2>2. Behind(alq[Len(alq)]) \in 1..NumBuffers
    BY <2>1, BehindRange
  <2> QED
    BY <2>1, <2>2 DEF Window, TypeOK
<1> QED
  BY <1>1, <1>2 DEF TypeOK

LEMMA RoomStep == Inductive /\ [Next]_vars => Room'
<1> SUFFICES ASSUME Inductive, [Next]_vars PROVE Room'
  OBVIOUS
<1> USE DEF Inductive, TypeOK, Room, control, object, locals, al
<1>1. CASE Environment \/ Teardown \/ Render \/ UNCHANGED vars
  BY <1>1 DEF Environment, SetFormat, StartStreaming, StopStreaming,
              StartDevice, StopDevice, Teardown, Destroy, Join, Render, vars
<1>2. CASE Query
  <2>1. done <= num
    BY Covered
  <2> QED
    BY <1>2, <2>1 DEF Query, Goto, Blocked
<1>3. CASE Unqueue
  BY <1>3 DEF Unqueue, Goto
<1>4. CASE \/ Start \/ Generate \/ Top \/ CheckFormat \/ Reset \/ Measure
           \/ Record
  BY <1>4 DEF Start, Generate, Top, CheckFormat, Reset, Measure, Record, Goto
<1>5. CASE MixReturns \/ Fill \/ QueueBuffer \/ Resume
  BY <1>5 DEF MixReturns, Fill, QueueBuffer, Resume, Goto
<1> QED
  BY <1>1, <1>2, <1>3, <1>4, <1>5 DEF Next, Thread

(* Behind, after the step.                                                 *)
BehindAfter(b) == IF b < next' THEN next' - b ELSE next' - b + NumBuffers

LEMMA WindowAfter ==
  ASSUME ~context' => alq' = << >>,
         \A i \in 1..Len(alq') : BehindAfter(alq'[i]) + (i - 1) <= num',
         \A i, j \in 1..Len(alq') :
           i < j => BehindAfter(alq'[j]) < BehindAfter(alq'[i])
  PROVE  Window'
BY DEF Window, RingOrder, Behind, BehindAfter

LEMMA WindowStep == Inductive /\ [Next]_vars => Window'
<1> SUFFICES ASSUME Inductive, [Next]_vars PROVE Window'
  OBVIOUS
<1> USE DEF control, object, locals, al
<1>1. CASE Environment \/ Join \/ Render \/ UNCHANGED vars
  <2>1. UNCHANGED <<num, next, context, alq>>
    BY <1>1 DEF Environment, SetFormat, StartStreaming, StopStreaming,
                StartDevice, StopDevice, Join, Render, vars
  <2> QED
    BY <2>1, QuietWindow
<1>2. CASE \/ Start \/ Top \/ CheckFormat \/ Measure \/ Record \/ Query
           \/ MixReturns \/ Fill \/ Resume
  <2>1. UNCHANGED <<num, next, context, alq>>
    BY <1>2 DEF Start, Top, CheckFormat, Measure, Record, Query, MixReturns,
                Fill, Resume
  <2> QED
    BY <2>1, QuietWindow
<1>3. CASE Generate \/ Reset \/ Destroy
  <2>1. alq' = << >>
    BY <1>3 DEF Generate, Reset, Destroy, Inductive, Window
  <2> QED
    BY <2>1, QuietWindow
<1>4. CASE Unqueue
  <2>1. CASE ~context
    <3>1. alq' = << >>
      BY <1>4, <2>1 DEF Unqueue, Inductive, Window
    <3> QED
      BY <3>1, QuietWindow
  <2>2. CASE context
    <3>1. got \in 1..Len(alq) /\ num' = num - got /\ next' = next
          /\ context' = context
      BY <1>4, <2>2 DEF Unqueue, Goto, Inductive, Room, TypeOK
    <3>2. alq' = SubSeq(alq, got + 1, Len(alq))
      BY <1>4, <2>2 DEF Unqueue
    <3>3. /\ Len(alq') = Len(alq) - got
          /\ \A i \in 1..Len(alq') : alq'[i] = alq[i + got]
      BY <3>1, <3>2 DEF Inductive, TypeOK
    <3>4. \A i \in 1..Len(alq') :
             /\ i + got \in 1..Len(alq)
             /\ BehindAfter(alq'[i]) = Behind(alq[i + got])
      BY <3>1, <3>3 DEF Behind, BehindAfter, Inductive, TypeOK
    <3>5. \A i \in 1..Len(alq) : Behind(alq[i]) \in Int
      BY BehindRange DEF Inductive, TypeOK
    <3>6. \A i \in 1..Len(alq') : BehindAfter(alq'[i]) + (i - 1) <= num'
      BY <3>1, <3>4, <3>5 DEF Inductive, Window, TypeOK
    <3>7. \A i, j \in 1..Len(alq') :
            i < j => BehindAfter(alq'[j]) < BehindAfter(alq'[i])
      BY <3>1, <3>3, <3>4 DEF Inductive, Window, RingOrder, TypeOK
    <3> QED
      BY <2>2, <3>1, <3>6, <3>7, WindowAfter
  <2> QED
    BY <2>1, <2>2
<1>5. CASE QueueBuffer
  <2> USE DEF Inductive, TypeOK
  <2>1. num' = num + 1 /\ num < NumBuffers /\ context' = context
    BY <1>5 DEF QueueBuffer, Goto, Room
  <2>2. next' = IF next + 1 = NumBuffers THEN 0 ELSE next + 1
    BY <1>5, Turn DEF QueueBuffer
  (* What is queued already gets one slot further behind.                 *)
  <2>3. \A i \in 1..Len(alq) :
           Behind(alq[i]) \in 1..(NumBuffers - 1) /\ alq[i] \in Slots
    <3> TAKE i \in 1..Len(alq)
    <3>1. Behind(alq[i]) \in 1..NumBuffers
      BY BehindRange
    <3>2. Behind(alq[i]) + (i - 1) <= num
      BY DEF Window
    <3> QED
      BY <2>1, <3>1, <3>2
  <2>4. \A i \in 1..Len(alq) : BehindAfter(alq[i]) = Behind(alq[i]) + 1
    <3>1. \A b \in Slots :
             Behind(b) < NumBuffers => BehindAfter(b) = Behind(b) + 1
      BY <2>2 DEF Behind, BehindAfter, Slots
    <3> QED
      BY <2>3, <3>1
  <2>5. BehindAfter(next) = 1
    BY <2>2 DEF BehindAfter, Slots
  <2>6. \A i \in 1..Len(alq) : Behind(alq[i]) + (i - 1) <= num
    BY DEF Window
  <2>7. \A i, j \in 1..Len(alq) : i < j => Behind(alq[j]) < Behind(alq[i])
    BY DEF Window, RingOrder
  <2>8. CASE alq' = alq
    <3>1. ~context' => alq' = << >>
      BY <2>1, <2>8 DEF Window
    <3>2. \A i \in 1..Len(alq') : BehindAfter(alq'[i]) + (i - 1) <= num'
      <4> TAKE i \in 1..Len(alq')
      <4>1. i \in 1..Len(alq) /\ alq'[i] = alq[i]
        BY <2>8
      <4>2. Behind(alq[i]) + (i - 1) <= num /\ Behind(alq[i]) \in Int
        BY <2>3, <2>6, <4>1
      <4>3. BehindAfter(alq'[i]) = Behind(alq[i]) + 1
        BY <2>4, <4>1
      <4> QED
        BY <2>1, <4>1, <4>2, <4>3
    <3>3. \A i, j \in 1..Len(alq') :
            i < j => BehindAfter(alq'[j]) < BehindAfter(alq'[i])
      BY <2>3, <2>4, <2>7, <2>8
    <3> QED
      BY <3>1, <3>2, <3>3, WindowAfter
  <2>9. CASE alq' = Append(alq, next) /\ context
    <3>1. /\ Len(alq') = Len(alq) + 1
          /\ \A i \in 1..Len(alq) : alq'[i] = alq[i]
          /\ alq'[Len(alq) + 1] = next
      BY <2>9
    <3>2. \A i \in 1..Len(alq) : BehindAfter(alq'[i]) = Behind(alq[i]) + 1
      BY <2>4, <3>1
    <3>3. BehindAfter(alq'[Len(alq) + 1]) = 1
      BY <2>5, <3>1
    <3>4. Len(alq) <= num
      BY Covered
    <3>5. \A i \in 1..Len(alq') : BehindAfter(alq'[i]) + (i - 1) <= num'
      <4> TAKE i \in 1..Len(alq')
      <4>1. CASE i \in 1..Len(alq)
        <5>1. BehindAfter(alq'[i]) = Behind(alq[i]) + 1
          BY <3>2, <4>1
        <5>2. Behind(alq[i]) + (i - 1) <= num /\ Behind(alq[i]) \in Int
          BY <2>3, <2>6, <4>1
        <5> QED
          BY <2>1, <4>1, <5>1, <5>2
      <4>2. CASE i = Len(alq) + 1
        <5>1. BehindAfter(alq'[i]) = 1
          BY <3>3, <4>2
        <5> QED
          BY <2>1, <3>4, <4>2, <5>1
      <4> QED
        BY <3>1, <4>1, <4>2
    <3>6. \A i, j \in 1..Len(alq') :
            i < j => BehindAfter(alq'[j]) < BehindAfter(alq'[i])
      BY <2>3, <2>7, <3>1, <3>2, <3>3
    <3> QED
      BY <2>1, <2>9, <3>5, <3>6, WindowAfter
  <2> QED
    BY <1>5, <2>8, <2>9 DEF QueueBuffer
<1> QED
  BY <1>1, <1>2, <1>3, <1>4, <1>5 DEF Next, Teardown, Thread

(* The inductive invariant holds.                                          *)
THEOREM InductiveCorrect == Spec => []Inductive
<1>1. Inductive /\ [Next]_vars => Inductive'
  BY TypeStep, WindowStep, RoomStep DEF Inductive
<1> QED
  BY <1>1, InitInductive, PTL DEF Spec

----------------------------------------------------------------------------
(* Every variable keeps to its type; num_buffers_queued never wraps.       *)
THEOREM TypeCorrect == Spec => []TypeOK
<1>1. Inductive => TypeOK
  BY DEF Inductive
<1> QED
  BY <1>1, InductiveCorrect, PTL

(* SoundLoop never hands palBufferData a buffer that is queued.            *)
THEOREM NoRefillCorrect == Spec => []NoRefill
<1>1. Inductive => NoRefill
  <2> SUFFICES ASSUME Inductive, pc = "fill", NEW i \in 1..Len(alq)
               PROVE  alq[i] # next
    BY DEF NoRefill, Queued
  <2> USE DEF Inductive, TypeOK
  <2>1. Behind(alq[i]) + (i - 1) <= num /\ num < NumBuffers
    BY DEF Window, Room
  <2>2. Behind(alq[i]) # NumBuffers
    BY <2>1, BehindRange
  <2> QED
    BY <2>2, BehindRange
<1> QED
  BY <1>1, InductiveCorrect, PTL

(* num_buffers_queued covers the queue and what is about to be taken.      *)
THEOREM CountCoversCorrect == Spec => []CountCovers
<1>1. Inductive => CountCovers
  BY Covered DEF Inductive, Room, CountCovers
<1> QED
  BY <1>1, InductiveCorrect, PTL

(* Buffers play in the order of the ring.                                  *)
THEOREM RingOrderCorrect == Spec => []RingOrder
<1>1. Inductive => RingOrder
  BY DEF Inductive, Window
<1> QED
  BY <1>1, InductiveCorrect, PTL

(* The ring and the count of SoundLoop agree with the queue of the source. *)
THEOREM RingSafeCorrect == Spec => []RingSafe
BY TypeCorrect, NoRefillCorrect, CountCoversCorrect,
   RingOrderCorrect, PTL DEF RingSafe
=============================================================================
