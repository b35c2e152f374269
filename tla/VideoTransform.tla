--------------------------- MODULE VideoTransform ---------------------------
(***************************************************************************)
(* CVideoTransformFilter (vtrans.cpp): a decoder that skips frames when    *)
(* the renderer says it is late.  The streaming thread decides on every    *)
(* frame, under m_csReceive; AlterQuality comes from the renderer at any   *)
(* time.  A frame is a key frame or refers to the one before it.           *)
(***************************************************************************)
EXTENDS Integers

CONSTANTS Wait,      \* the 30 frames after which a key frame is no longer waited for
          Frame,     \* trStopAt - trStart of a frame that has time stamps
          Silly,     \* the lateness of 30 seconds, in units of Frame
          PeriodMax  \* bound on the frames from one key frame to the next

VARIABLES
  qm,         \* m_itrLate, m_nKeyFramePeriod, m_nFramesSinceKeyFrame, m_bSkipping
  waitForKey, \* m_nWaitForKey
  skipped,    \* m_bSampleSkipped
  quality,    \* m_bQualityChanged
  hole,       \* history: the decoder has missed a frame since the last key frame
  awaited,    \* history: frames decoded since a change; Wait once a key frame was
  last        \* history: the last frame and what became of it

vars == <<qm, waitForKey, skipped, quality, hole, awaited, last>>

Fresh == [late |-> 0, period |-> 0, since |-> 0, skipping |-> FALSE]
NoFrame == [frame |-> "none", timed |-> TRUE, fate |-> "none"]

\* The constructor leaves m_nWaitForKey as it finds the memory.
Init ==
  /\ qm = Fresh /\ waitForKey \in {-1, 0, 1}
  /\ skipped = FALSE /\ quality = FALSE
  /\ hole = FALSE /\ awaited = Wait /\ last = NoFrame

\* Also the end of a flush, and a change of the type of the input.
StartStreaming ==
  /\ qm' = Fresh
  /\ quality' = FALSE /\ skipped' = FALSE
  /\ hole' = FALSE /\ last' = NoFrame
  /\ UNCHANGED <<waitForKey, awaited>>

\* The test for a silly lateness looks at the one reported before.
AlterQuality ==
  /\ \E q \in {0, Frame + 1, Silly + 1} :
       qm' = [qm EXCEPT !.late = IF qm.late > Silly THEN Silly ELSE q]
  /\ UNCHANGED <<waitForKey, skipped, quality, hole, awaited, last>>

-----------------------------------------------------------------------------
(* ShouldSkipFrame, as a function of the estimates, for a frame with time  *)
(* stamps; slow says that decoding takes more than a quarter of its time.  *)

Worth(e, slow) == /\ slow /\ e.late > Frame /\ e.period > 0
                  /\ e.late > Frame * (e.period - e.since - 1)

Seen(e, key) ==
  IF key THEN [e EXCEPT !.period = IF e.period < e.since THEN e.since ELSE e.period,
                        !.since = 0, !.skipping = FALSE]
         ELSE [e EXCEPT !.period = IF e.since > e.period /\ e.period > 0 THEN e.since
                                                                         ELSE e.period]

Counted(e, skip) ==
  [e EXCEPT !.since = @ + 1, !.skipping = skip, !.late = IF skip THEN @ - Frame ELSE @]

\* Faulty: every frame is judged anew.
SkipWhileLate(e, key, slow) ==
  LET f == Seen(e, key) IN Counted(f, Worth(f, slow))

\* Once skipping, on to the next key frame.
ShouldSkipFrame(e, key, slow) ==
  LET f == Seen(e, key) IN Counted(f, f.skipping \/ Worth(f, slow))

-----------------------------------------------------------------------------
(* Receive.                                                                *)

\* The count goes down before it is looked at, and one that is not positive does
\* not reach 0; a key frame ends the wait.
WaitForKey(n, key) == IF n \in {0, 1} \/ key THEN 0 ELSE IF n > 1 THEN n - 1 ELSE n

Skip(e, frame) ==
  /\ qm' = e
  /\ quality' = TRUE /\ skipped' = TRUE
  /\ hole' = TRUE /\ last' = [frame |-> frame, timed |-> TRUE, fate |-> "skipped"]
  /\ UNCHANGED <<waitForKey, awaited>>

\* A change of the type of the output comes with StartStreaming and, like a
\* discontinuity, makes the filter wait for a key frame.  What is decoded
\* meanwhile is withheld.
Decode(e, frame, timed, change, result) ==
  LET key == frame = "key"
      n == WaitForKey(IF change = "none" THEN waitForKey ELSE Wait, key)
      drop == result = "nothing" \/ (result = "image" /\ n # 0)
      since == IF change = "none" THEN awaited ELSE 0
  IN /\ qm' = IF change = "type" THEN Fresh ELSE e
     /\ waitForKey' = n
     /\ skipped' = drop
     /\ quality' = (drop \/ (quality /\ change # "type"))
     /\ hole' = (~key /\ hole /\ change # "type")
     /\ awaited' = IF key \/ since = Wait THEN Wait ELSE since + 1
     /\ last' = [frame |-> frame, timed |-> timed,
                 fate |-> IF drop THEN "dropped"
                          ELSE IF result = "image" THEN "delivered" ELSE "failed"]

\* No buffer for the output: the error ends the stream, and the next begins anew.
Refuse(e) ==
  /\ qm' = e /\ last' = NoFrame
  /\ hole' = FALSE
  /\ UNCHANGED <<waitForKey, skipped, quality, awaited>>

Receive ==
  /\ qm.since < PeriodMax /\ qm.late > -Frame
  /\ \E frame \in {"key", "delta"}, timed, slow \in BOOLEAN :
       LET e == IF timed THEN ShouldSkipFrame(qm, frame = "key", slow) ELSE qm
       IN IF timed /\ e.skipping
            THEN Skip(e, frame)
            ELSE \/ Refuse(e)
                 \/ \E change \in {"none", "discontinuity", "type"},
                       result \in {"image", "nothing", "error"} :
                      Decode(e, frame, timed, change, result)

Next == StartStreaming \/ AlterQuality \/ Receive

Spec == Init /\ [][Next]_vars

-----------------------------------------------------------------------------
(* Properties.                                                             *)

\* The type invariant.
TypeOK ==
  /\ qm.late \in (-2 * Frame)..(Silly + 1)
  /\ qm.period \in 0..PeriodMax /\ qm.since \in 0..PeriodMax /\ qm.skipping \in BOOLEAN
  /\ waitForKey \in -1..Wait /\ awaited \in 0..Wait
  /\ {skipped, quality, hole} \subseteq BOOLEAN

\* What is delivered can be looked at: a frame that refers to one the decoder has
\* missed is delivered only if it has no time stamp, and after a change no frame is
\* delivered before a key frame, unless Wait frames have gone by.
WholeImages ==
  (last.fate = "delivered" /\ last.frame = "delta") =>
    (hole => ~last.timed) /\ awaited = Wait

\* What the comment of ShouldSkipFrame says, with no exception for such frames:
\* the code does not keep it.
SkipsToKeyFrame == (last.fate = "delivered" /\ last.frame = "delta") => ~hole

\* What the comment of AlterQuality says of the lateness it keeps.  The code does
\* not keep it.
NeverSilly == qm.late <= Silly
=============================================================================
