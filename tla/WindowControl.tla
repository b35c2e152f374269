--------------------------- MODULE WindowControl ---------------------------
(***************************************************************************)
(* The place of the video window, as IVideoWindow lets an application      *)
(* change it: CBaseControlWindow (winctrl.cpp).  Windows tells where the   *)
(* window is in coordinates of the screen and is told where to put it in   *)
(* those of the parent.  One thread of the application; it shows a window  *)
(* that is to be the parent before it makes it the parent.                 *)
(***************************************************************************)
EXTENDS Integers

CONSTANTS Coordinates,  \* coordinates and sizes the application asks for
          Origin,       \* where the owner has its upper left corner on the screen
          Screen        \* SM_CXSCREEN and SM_CYSCREEN

VARIABLES
  place,     \* the window, in coordinates of its parent
  parent,    \* GetParent(m_hwnd) # NULL
  owner,     \* m_hwndOwner # NULL
  visible,   \* WS_VISIBLE
  topmost,   \* WS_EX_TOPMOST
  step,      \* where DoSetWindowStyle is
  WindowRect, \* its local of that name
  asked      \* what the application has asked for: the place and whether it is shown

vars == <<place, parent, owner, visible, topmost, step, WindowRect, asked>>

Places == [left : Coordinates, top : Coordinates, width : Coordinates, height : Coordinates]
Moved(rect, by) == [rect EXCEPT !.left = @ + by, !.top = @ + by]

Init ==
  /\ place \in {[left |-> 0, top |-> 0, width |-> n, height |-> n] : n \in Coordinates}
  /\ parent = FALSE /\ owner = FALSE
  /\ visible = FALSE /\ topmost = FALSE
  /\ step = "none" /\ WindowRect = place
  /\ asked = [place |-> place, shown |-> FALSE]

GetWindowRect == IF parent THEN Moved(place, Origin) ELSE place

\* Faulty: the place on the screen is used as it is.
NotMapped(rect) == rect

\* MapWindowPoints to the parent, if there is one.
MapWindowPoints(rect) == IF parent THEN Moved(rect, -Origin) ELSE rect

Idle == step = "none"

\* put_Left, put_Top, put_Width, put_Height: one dimension; the others as they are.
put(dimension) ==
  /\ Idle
  /\ \E new \in Coordinates :
       /\ place' = [MapWindowPoints(GetWindowRect) EXCEPT ![dimension] = new]
       /\ asked' = [asked EXCEPT !.place[dimension] = new]
  /\ UNCHANGED <<parent, owner, visible, topmost, step, WindowRect>>

SetWindowPosition ==
  /\ Idle
  /\ place' \in Places
  /\ asked' = [asked EXCEPT !.place = place']
  /\ UNCHANGED <<parent, owner, visible, topmost, step, WindowRect>>

\* put_Owner, with WS_CHILD; the window keeps its coordinates.
put_Owner ==
  /\ Idle
  /\ owner' \in BOOLEAN /\ parent' = owner'
  /\ UNCHANGED <<place, visible, topmost, step, WindowRect, asked>>

\* put_Visible and put_WindowState.
put_Visible ==
  /\ Idle
  /\ visible' \in BOOLEAN
  /\ asked' = [asked EXCEPT !.shown = visible']
  /\ UNCHANGED <<place, parent, owner, topmost, step, WindowRect>>

\* DoSetWindowStyle: a window that can be seen is drawn again where it is; ...
DoSetWindowStyle ==
  /\ WindowRect' = GetWindowRect
  /\ step' = IF visible THEN "none" ELSE "move away"
  /\ UNCHANGED <<place, parent, owner, visible, asked>>

put_WindowStyle == Idle /\ DoSetWindowStyle /\ UNCHANGED topmost

\* put_WindowStyleEx: WS_EX_TOPMOST is set by a message, and alone is all there is to do.
put_WindowStyleEx ==
  /\ Idle
  /\ topmost' \in BOOLEAN
  /\ \/ DoSetWindowStyle
     \/ topmost' /\ UNCHANGED <<place, parent, owner, visible, step, WindowRect, asked>>

\* ... another is drawn where nobody sees it, hidden, and moved back.
MoveAway ==
  /\ step = "move away" /\ step' = "show"
  /\ place' = [place EXCEPT !.left = Screen, !.top = Screen]
  /\ UNCHANGED <<parent, owner, visible, topmost, WindowRect, asked>>

Show ==
  /\ step \in {"show", "hide"}
  /\ step' = IF step = "show" THEN "hide" ELSE "move back"
  /\ visible' = (step = "show")
  /\ UNCHANGED <<place, parent, owner, topmost, WindowRect, asked>>

MoveBack ==
  /\ step = "move back" /\ step' = "none"
  /\ place' = MapWindowPoints(WindowRect)
  /\ UNCHANGED <<parent, owner, visible, topmost, WindowRect, asked>>

Next ==
  \/ \E dimension \in {"left", "top", "width", "height"} : put(dimension)
  \/ SetWindowPosition \/ put_Owner \/ put_Visible
  \/ put_WindowStyle \/ put_WindowStyleEx \/ MoveAway \/ Show \/ MoveBack

Spec == Init /\ [][Next]_vars

-----------------------------------------------------------------------------
\* Between calls the window is where the last calls have put it, dimension by
\* dimension, whatever owner and styles it was given since, and is shown as asked;
\* a hidden window is seen by nobody while its style changes.
WindowAsAsked ==
  /\ Idle => place = asked.place /\ visible = asked.shown
  /\ visible /\ ~asked.shown => place.left >= Screen /\ place.top >= Screen
=============================================================================
