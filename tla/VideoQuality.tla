---------------------------- MODULE VideoQuality ----------------------------
(***************************************************************************)
(* Which frames a video renderer draws, and when: CBaseVideoRenderer       *)
(* (renbase.cpp), with the quality messages it sends and the statistics it *)
(* keeps.  Times are in tenths of a millisecond, a thousand of the code's  *)
(* units of 100 ns, so that every constant of the code is a whole number.  *)
(* The streaming thread holds the renderer's lock while it decides and     *)
(* draws, so that a frame is one step, or two when it has to wait; the     *)
(* clock, the drawing and the upstream filter are what they happen to be.  *)
(***************************************************************************)
EXTENDS Integers

CONSTANTS Duration,     \* of a frame
          Advances,     \* time from one frame's drawing to the next one's arrival
          DrawTimes,    \* time drawing takes
          Proportions,  \* that the graph's quality manager asks for
          Frames        \* bound: frames of a run

AVGPERIOD == 4
UNITS == 10000   \* a second

\* Integer division of C: towards zero.
Quot(a, b) == IF a < 0 THEN -((-a) \div b) ELSE a \div b
Milliseconds(t) == Quot(t, 10)
Average(new, old) == Quot(new + old * (AVGPERIOD - 1), AVGPERIOD)
Lower(a, b) == IF a < b THEN a ELSE b

VARIABLES
  now,         \* stream time
  next,        \* time stamp of the next frame
  q,           \* members m_trLastDraw, m_trRenderAvg and so on
  waiting,     \* frame that waits for its time: <<its start>>, or <<>>
  throttle,    \* m_trThrottle
  seen,        \* frames so far
  proportion,  \* of the last quality message
  shownAt,     \* when the last frame was drawn
  dropped,     \* the last frame was dropped
  accuracies   \* lateness of the frames that count in the statistics: how many, their sum

vars == <<now, next, q, waiting, throttle, seen, proportion, shownAt, dropped, accuracies>>

ResetStreamingTimes ==
  [LastDraw |-> -1, RenderAvg |-> 0, RenderLast |-> 0, FrameAvg |-> -1, trDuration |-> 0,
   WaitAvg |-> 0, Normal |-> 0, Earliness |-> 0, FramesDrawn |-> 0, FramesDropped |-> 0,
   TotAcc |-> 0, SumSqAcc |-> 0, SumFrameTime |-> 0, SumSqFrameTime |-> 0,
   Late |-> 0, Frame |-> 0]

Init ==
  /\ now = 0 /\ next = 0
  /\ q = ResetStreamingTimes
  /\ waiting = <<>> /\ throttle = 0 /\ seen = 0 /\ proportion = 1000
  /\ shownAt = -1 /\ dropped = FALSE /\ accuracies = <<0, 0>>

-----------------------------------------------------------------------------
\* Faulty: the sum also counts the first frames.
RecordMixed(m) ==
  LET tLate == Milliseconds(m.Late)
  IN  [m EXCEPT !.TotAcc = @ + tLate,
                !.SumSqAcc = @ + (IF m.FramesDrawn > 1 THEN tLate * tLate ELSE 0),
                !.FramesDrawn = @ + 1]

\* RecordFrameLateness, with what PreparePerformanceData has put aside.
Record(m) ==
  LET late == Milliseconds(m.Late)
      frame == Milliseconds(m.Frame)
      tLate == IF late \in -1000 .. 1000 THEN late
               ELSE IF m.FramesDrawn <= 1 THEN 0
               ELSE IF late > 0 THEN 1000 ELSE -1000
      tFrame == IF frame \in 0 .. 1000 THEN frame ELSE 1000
  IN  [m EXCEPT !.TotAcc = IF m.FramesDrawn > 1 THEN @ + tLate ELSE @,
                !.SumSqAcc = IF m.FramesDrawn > 1 THEN @ + tLate * tLate ELSE @,
                !.SumFrameTime = IF m.FramesDrawn > 2 THEN @ + tFrame ELSE @,
                !.SumSqFrameTime = IF m.FramesDrawn > 2 THEN @ + tFrame * tFrame ELSE @,
                !.FramesDrawn = @ + 1]

\* OnRenderStart, DoRenderSample, OnRenderEnd: spikes stay out of the average.
Render(m, tr) ==
  LET r == Record(m)
  IN  [r EXCEPT !.RenderAvg = IF tr < @ * 2 \/ tr < 2 * m.RenderLast THEN Average(tr, @) ELSE @,
                !.RenderLast = tr]

Draw(m, at) ==
  \E tr \in DrawTimes :
    /\ q' = Render(m, tr)
    /\ now' = at + tr + 10 * (throttle \div 10)   \* ThrottleWait, in whole milliseconds
    /\ shownAt' = at /\ dropped' = FALSE /\ waiting' = <<>>
    /\ accuracies' =
         IF m.FramesDrawn > 1 THEN <<accuracies[1] + 1, accuracies[2] + Milliseconds(m.Late)>>
         ELSE accuracies

-----------------------------------------------------------------------------
\* SendQuality: what it asks of the supplier.
SendQuality(trLate) ==
  IF q.FrameAvg < 0 THEN 1000
  ELSE IF trLate > 0
    THEN IF Milliseconds(trLate) > 500 THEN 500 ELSE 1000 - Milliseconds(trLate)
  ELSE IF q.WaitAvg > 20 /\ trLate < -20
    THEN IF q.WaitAvg >= q.FrameAvg THEN 2000
         ELSE Lower(2000, 1000 * Quot(q.FrameAvg, q.FrameAvg + 20 - q.WaitAvg))
  ELSE 1000

\* Faulty: a frame that is dropped counts as drawn.
DroppedAsDrawn(m, at, WaitAvg) ==
  [m EXCEPT !.WaitAvg = WaitAvg, !.Normal = -1, !.FramesDropped = @ + 1, !.LastDraw = at]

\* What is left of a frame that is not drawn.
Dropped(m, at, WaitAvg) ==
  [m EXCEPT !.WaitAvg = WaitAvg, !.Normal = -1, !.FramesDropped = @ + 1]

\* A frame arrives; ShouldDrawSampleNow.  The locals of the code are named as there;
\* handling is m_bSupplierHandlingQuality, the supplier's answer to the message.
Arrives(advance, handling, discontinuity) ==
  LET start == IF next >= 80 THEN next - 80 ELSE next   \* 8 ms early
      at == now + advance
      trLate == at - start
      d == q.trDuration \div 32
      changed == Duration > q.trDuration + d \/ Duration < q.trDuration - d
      FrameAvg == IF changed THEN Duration ELSE q.FrameAvg
      JustDropped == (handling /\ discontinuity) \/ q.Normal = -1
      Earliness == IF trLate > 0 THEN 0
                   ELSE IF trLate >= q.Earliness \/ JustDropped THEN trLate
                   ELSE q.Earliness - Quot(q.Earliness, 8)
      WaitAvg == Average(IF trLate < 0 THEN -trLate ELSE 0, q.WaitAvg)
      trFrame == Lower(at - q.LastDraw, UNITS)
      draws == \/ 3 * q.RenderAvg <= FrameAvg
               \/ IF handling THEN trLate <= Duration * 4 ELSE trLate + trLate < Duration
               \/ q.WaitAvg > 80
               \/ at - q.LastDraw > UNITS
      PlayASAP == /\ \/ JustDropped
                     \/ FrameAvg > Duration + Duration \div 16 /\ trLate > -(Duration * 10)
                  /\ trLate >= -9000
      m == [q EXCEPT !.trDuration = IF changed THEN Duration ELSE @,
                     !.FrameAvg = FrameAvg, !.Earliness = Earliness]
      begins == start + (IF Earliness < -Duration THEN -Duration ELSE Earliness)
  IN  [start |-> start, at |-> at, trLate |-> trLate,
       decision |-> IF ~draws THEN "drop"
                    ELSE IF PlayASAP \/ trLate >= 0 THEN "draw" ELSE "wait",
       begins |-> begins,
       members |->
         IF ~draws THEN Dropped(m, at, WaitAvg)
         ELSE IF PlayASAP
           THEN [m EXCEPT !.Normal = 0, !.WaitAvg = Quot(@ * (AVGPERIOD - 1), AVGPERIOD),
                          !.FrameAvg = Average(trFrame, @),
                          !.Late = trLate, !.Frame = trFrame, !.LastDraw = at,
                          !.Earliness = Lower(@, trLate)]
         ELSE IF trLate >= 0
           THEN [m EXCEPT !.Normal = @ + 1, !.FrameAvg = Duration, !.WaitAvg = WaitAvg,
                          !.Late = trLate, !.Frame = trFrame, !.LastDraw = at]
         ELSE [m EXCEPT !.Normal = @ + 1, !.FrameAvg = Duration, !.WaitAvg = WaitAvg,
                        !.Late = begins - start, !.Frame = begins - q.LastDraw,
                        !.LastDraw = begins]]

\* The frame f is drawn, scheduled or dropped, and the supplier is told how late it is.
Decided(f) ==
  /\ proportion' = SendQuality(f.trLate)
  /\ \/ f.decision = "draw" /\ Draw(f.members, f.at)
     \/ /\ f.decision = "wait"
        /\ q' = f.members /\ now' = f.at /\ waiting' = <<f.begins>> /\ dropped' = FALSE
        /\ UNCHANGED <<shownAt, accuracies>>
     \/ /\ f.decision = "drop"
        /\ q' = f.members /\ now' = f.at /\ dropped' = TRUE
        /\ UNCHANGED <<shownAt, waiting, accuracies>>

ShouldDrawSampleNow ==
  /\ waiting = <<>> /\ seen < Frames
  /\ \E advance \in Advances, handling \in BOOLEAN, discontinuity \in BOOLEAN :
       Decided(Arrives(advance, handling, discontinuity))
  /\ seen' = seen + 1 /\ next' = next + Duration
  /\ UNCHANGED throttle

\* The clock reaches the time the frame has been given.
DrawWaiting ==
  /\ waiting # <<>>
  /\ Draw(q, IF waiting[1] > now THEN waiting[1] ELSE now)
  /\ UNCHANGED <<next, throttle, seen, proportion>>

\* Notify: the graph's quality manager slows the renderer down.
Notify ==
  /\ \E p \in Proportions : throttle' = IF p >= 1000 THEN 0 ELSE -330 + 388880 \div (p + 167)
  /\ UNCHANGED <<now, next, q, waiting, seen, proportion, shownAt, dropped, accuracies>>

\* OnStartStreaming of another run; a frame that waited is scheduled again, as its first.
OnStartStreaming ==
  /\ seen > 0
  /\ now' = 0 /\ next' = 0 /\ q' = ResetStreamingTimes /\ throttle' = 0 /\ seen' = 0
  /\ waiting' = <<>> /\ shownAt' = -1 /\ dropped' = FALSE
  /\ accuracies' = <<0, 0>> /\ proportion' = 1000

Next == ShouldDrawSampleNow \/ DrawWaiting \/ Notify \/ OnStartStreaming

Spec == Init /\ [][Next]_vars

-----------------------------------------------------------------------------
(* The property page's figures.                                            *)

get_AvgSyncOffset == IF q.FramesDrawn <= 1 THEN 0 ELSE Quot(q.TotAcc, q.FramesDrawn - 1)

\* What GetStdDev takes the square root of, with llMulDiv.
Variance(n, sumSq, total) ==
  IF n <= 1 THEN 0 ELSE Quot(sumSq - ((total * total) \div n), n - 1)

\* The picture does not stand still: when a frame is dropped, one was drawn in the
\* second before, whatever the machine, the supplier and the throttle do; the first
\* frame of a run is never dropped.
NeverFrozen == dropped => now - shownAt <= UNITS /\ q.FramesDrawn > 0

\* The standard deviations shown are those of real numbers, and the supplier is asked
\* for no less than half and no more than twice what it sends.
FiguresReal ==
  /\ Variance(q.FramesDrawn - 1, q.SumSqAcc, q.TotAcc) >= 0
  /\ Variance(q.FramesDrawn - 2, q.SumSqFrameTime, q.SumFrameTime) >= 0
  /\ proportion \in 500 .. 2000

\* The figure shown as the average sync offset is the average of the offsets that
\* were added up.  The code does not keep it.
AverageIsAverage ==
  accuracies[1] > 0 => get_AvgSyncOffset = Quot(accuracies[2], accuracies[1])
=============================================================================
