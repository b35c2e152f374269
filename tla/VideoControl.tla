---------------------------- MODULE VideoControl ----------------------------
(***************************************************************************)
(* The rectangles of IBasicVideo: CBaseControlVideo (winctrl.cpp).  A LONG *)
(* has twice Half values and wraps; the rectangles are kept by the derived *)
(* class, which sets them to their defaults when the format changes.       *)
(* Images are stored from the bottom line to the top one.                  *)
(***************************************************************************)
EXTENDS Integers

CONSTANTS Half,    \* of the numbers a LONG has: 2^31
          Images,  \* <<width, height>> of the videos
          Extents  \* <<top, height>> asked for with all the rest at once

Long == -Half .. Half - 1
Wrap(n) == ((n + Half) % (2 * Half)) - Half

WIDTH(r) == Wrap(r.right - r.left)
HEIGHT(r) == Wrap(r.bottom - r.top)
Rect(left, top, right, bottom) ==
  [left |-> left, top |-> top, right |-> Wrap(right), bottom |-> Wrap(bottom)]

VARIABLES
  size,     \* biWidth and biHeight of the format
  Source,   \* what the derived class has for SourceRect
  Target,   \* and for TargetRect
  State     \* of the filter: paused or not

vars == <<size, Source, Target, State>>

All(s) == Rect(0, 0, s[1], s[2])

Init ==
  /\ size \in Images
  /\ Source = All(size) /\ Target = All(size)
  /\ State = "Stopped"

-----------------------------------------------------------------------------
\* Faulty: lines below the image pass.
CheckLeftAndRight(r) == r.left < r.right /\ r.left >= 0 /\ r.top >= 0 /\ r.right <= size[1]

CheckSourceRect(r) ==
  /\ r.left < r.right /\ r.left >= 0
  /\ r.top < r.bottom /\ r.top >= 0
  /\ r.right <= size[1] /\ r.bottom <= size[2]

\* Faulty: a width that overflows is taken for what is left of it.
CheckTargetSize(r) == WIDTH(r) > 0 /\ HEIGHT(r) > 0

CheckTargetRect(r) ==
  /\ r.left <= r.right /\ r.top <= r.bottom
  /\ WIDTH(r) > 0 /\ HEIGHT(r) > 0

SetSourceRect(r) ==
  /\ Source' = IF CheckSourceRect(r) THEN r ELSE Source
  /\ UNCHANGED <<size, Target, State>>

SetTargetRect(r) ==
  /\ Target' = IF CheckTargetRect(r) THEN r ELSE Target
  /\ UNCHANGED <<size, Source, State>>

\* put_SourceLeft and so on: a new left or top moves the rectangle, a new width or
\* height its other side.
WithLeft(r, new) == Rect(new, r.top, new + WIDTH(r), r.bottom)
WithTop(r, new) == Rect(r.left, new, r.right, new + HEIGHT(r))
WithWidth(r, new) == Rect(r.left, r.top, r.left + new, r.bottom)
WithHeight(r, new) == Rect(r.left, r.top, r.right, r.top + new)

put_Source ==
  \E new \in Long : \/ SetSourceRect(WithLeft(Source, new))
                    \/ SetSourceRect(WithTop(Source, new))
                    \/ SetSourceRect(WithWidth(Source, new))
                    \/ SetSourceRect(WithHeight(Source, new))

put_Destination ==
  \E new \in Long : \/ SetTargetRect(WithLeft(Target, new))
                    \/ SetTargetRect(WithTop(Target, new))
                    \/ SetTargetRect(WithWidth(Target, new))
                    \/ SetTargetRect(WithHeight(Target, new))

SetSourcePosition ==
  \E left, width \in Long, e \in Extents :
    SetSourceRect(Rect(left, e[1], left + width, e[1] + e[2]))

SetDestinationPosition ==
  \E left, width \in Long, e \in Extents :
    SetTargetRect(Rect(left, e[1], left + width, e[1] + e[2]))

SetDefaultSourcePosition == Source' = All(size) /\ UNCHANGED <<size, Target, State>>
SetDefaultDestinationPosition == Target' = All(size) /\ UNCHANGED <<size, Source, State>>

ChangeFormat ==
  /\ size' \in Images
  /\ Source' = All(size') /\ Target' = All(size')
  /\ UNCHANGED State

ChangeState == State' \in {"Stopped", "Paused"} /\ UNCHANGED <<size, Source, Target>>

Next ==
  \/ put_Source \/ put_Destination
  \/ SetSourcePosition \/ SetDestinationPosition
  \/ SetDefaultSourcePosition \/ SetDefaultDestinationPosition
  \/ ChangeFormat \/ ChangeState

Spec == Init /\ [][Next]_vars

-----------------------------------------------------------------------------
(* GetCurrentImage: only of a paused filter, as much as GetImageSize says; *)
(* CopyImage reads line by line from where the rectangle's last line is.   *)

GetImageSize == WIDTH(Source) * HEIGHT(Source)

\* Offsets CopyImage reads, of pixels one byte wide, line after line.
CopyImage ==
  LET LinesToSkip == size[2] - (Source.top + HEIGHT(Source))
      first == LinesToSkip * size[1] + Source.left
  IN  [pixel \in 0 .. GetImageSize - 1 |->
         first + (pixel \div WIDTH(Source)) * size[1] + (pixel % WIDTH(Source))]

GetCurrentImage == IF State = "Paused" THEN CopyImage ELSE <<>>

\* Where the image has the pixel in column x of line y, counted from the top.
Offset(x, y) == (size[2] - 1 - y) * size[1] + x

\* Whatever the application asks for, in whatever order and however its numbers
\* overflow: the source rectangle is not empty and inside the image, so that
\* GetCurrentImage copies just its pixels; the target rectangle is not empty, and has
\* a width and a height that a LONG can hold.
RectanglesSound ==
  /\ State = "Paused" =>
       {GetCurrentImage[i] : i \in DOMAIN GetCurrentImage} =
       {Offset(p[1], p[2]) : p \in (Source.left .. Source.right - 1) \X
                                   (Source.top .. Source.bottom - 1)}
  /\ 0 <= Source.left /\ Source.left < Source.right /\ Source.right <= size[1]
  /\ 0 <= Source.top /\ Source.top < Source.bottom /\ Source.bottom <= size[2]
  /\ Target.right - Target.left \in Long \ {0} /\ Target.left < Target.right
  /\ Target.bottom - Target.top \in Long \ {0} /\ Target.top < Target.bottom
=============================================================================
