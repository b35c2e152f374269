---------------------------- MODULE VideoWindow ----------------------------
(***************************************************************************)
(* The window of a video renderer and what is drawn in it: CBaseWindow,    *)
(* CImagePalette, CDrawImage, CImageAllocator (winutil.cpp).  The window   *)
(* thread has made the window and handles its messages; the streaming      *)
(* thread changes formats and draws; the application's thread changes      *)
(* properties and closes the window.  The window is changed from another   *)
(* thread by messages, and a thread that sends one waits for the answer.   *)
(***************************************************************************)
EXTENDS Integers, FiniteSets

CONSTANTS Palettes,   \* the palettes a video format may have
          Samples,    \* samples of the CImageAllocator
          Changes     \* bound: how often the format changes

None == "none"   \* no palette, no lock owner, no message
PALETTE_VERSION == 1
NoSample == <<0, None>>

VARIABLES
  exists,      \* the system has the window
  hwnd,        \* m_hwnd # NULL
  dcs,         \* m_hdc and m_MemoryDC
  activated,   \* m_bActivated
  post,        \* m_bDoPostToDestroy
  noRealize,   \* m_bNoRealize
  window,      \* who holds m_WindowLock
  palette,     \* who holds m_PaletteLock
  wpal,        \* CBaseWindow::m_hPalette
  hpal,        \* CImagePalette::m_hPalette
  live,        \* the palettes GDI has
  format,      \* palette of the connection's media type
  version,     \* m_PaletteVersion
  changes,     \* format changes so far
  sample,      \* per sample: its PaletteVersion and colour table, or NoSample
  shown,       \* colour table of the last image drawn, with the format's palette
  inbox,       \* messages to the window: <<kind, who waits for the answer>>
  thread       \* per thread: where it is

vars == <<exists, hwnd, dcs, activated, post, noRealize, window, palette, wpal, hpal, live,
          format, version, changes, sample, shown, inbox, thread>>

windowVars == <<exists, hwnd, dcs, activated, post, noRealize>>
imageVars == <<format, version, changes, sample, shown>>

Init ==
  /\ exists = FALSE /\ hwnd = FALSE /\ dcs = FALSE /\ activated = FALSE
  /\ post \in BOOLEAN /\ noRealize \in BOOLEAN
  /\ window = None /\ palette = None
  /\ wpal = None /\ hpal = None /\ live = {}
  /\ format = None /\ version = PALETTE_VERSION /\ changes = 0
  /\ sample = [s \in Samples |-> NoSample]
  /\ shown = <<None, None>>
  /\ inbox = {}
  /\ thread = [window |-> "prepare", stream |-> "idle", app |-> "idle"]

At(t, place) == thread[t] = place
Goes(t, place) == thread' = [thread EXCEPT ![t] = place]

-----------------------------------------------------------------------------
(* The window thread.                                                      *)

\* PrepareWindow, DoCreateWindow and InitialiseWindow.
PrepareWindow ==
  /\ At("window", "prepare")
  /\ exists' = TRUE /\ hwnd' = TRUE /\ dcs' = TRUE
  /\ Goes("window", "pump")
  /\ UNCHANGED <<activated, post, noRealize, window, palette, wpal, hpal, live, inbox>>
  /\ UNCHANGED imageVars

\* The message the window thread takes next: those sent come before those posted.
Received(m) == m \in inbox /\ (m[2] = None => \A other \in inbox : other[2] = None)

\* The window thread goes back to its messages; who has sent one goes on.
Answered(sender) ==
  thread' = [thread EXCEPT !.window = "pump",
                           !.stream = IF sender = "stream" THEN "set" ELSE @]

\* WndProc, OnReceiveMessage and OnPaletteChange for m_RealizePalette.
OnRealizePalette ==
  /\ At("window", "pump") /\ exists
  /\ \E m \in inbox :
       /\ Received(m) /\ m[1] = "realize"
       /\ inbox' = inbox \ {m}
       /\ IF hwnd THEN Goes("window", IF m[2] = None THEN "realise" ELSE "answer")
                  ELSE Answered(m[2])
  /\ UNCHANGED <<windowVars, imageVars, window, palette, wpal, hpal, live>>

\* DoRealisePalette selects m_hPalette under its lock, which it does not hold while
\* the palette is realised.
DoRealisePalette ==
  /\ thread.window \in {"realise", "answer"} /\ palette = None
  /\ Answered(IF At("window", "answer") THEN "stream" ELSE None)
  /\ UNCHANGED <<windowVars, imageVars, window, palette, wpal, hpal, live, inbox>>

\* MsgDestroy: DoneWithWindow on the window thread, with InactivateWindow and
\* UninitialiseWindow.  The system forgets the other messages of the window, and
\* answers who has sent one.
OnDestroy ==
  /\ At("window", "pump")
  /\ \E m \in inbox : Received(m) /\ m[1] = "destroy"
  /\ exists' = FALSE /\ hwnd' = FALSE /\ dcs' = FALSE /\ activated' = FALSE
  /\ inbox' = {}
  /\ thread' = [thread EXCEPT !.app = "closed",
                              !.stream = IF @ = "sent" THEN "set" ELSE @]
  /\ UNCHANGED <<post, noRealize, window, palette, wpal, hpal, live, imageVars>>

-----------------------------------------------------------------------------
(* The streaming thread: a new format, and PreparePalette.  The renderer's *)
(* lock keeps RemovePalette of another thread out.                         *)

\* CImagePalette::ShouldUpdate: not if neither has a palette or both the same.
ShouldUpdate(new) == new # format

ChangeFormat ==
  /\ At("stream", "idle") /\ hwnd /\ At("app", "idle") /\ changes < Changes
  /\ changes' = changes + 1
  /\ \E new \in Palettes \cup {None} :
       /\ format' = new
       /\ IF ShouldUpdate(new) THEN Goes("stream", "remove") ELSE UNCHANGED thread
  /\ UNCHANGED <<windowVars, window, palette, wpal, hpal, live, version, sample, shown, inbox>>

\* RemovePalette takes the palette lock; with no palette there is no more to do.
LockToRemove(t, place, next) ==
  /\ At(t, place) /\ palette = None
  /\ IF hpal = None THEN Goes(t, next) /\ UNCHANGED palette
                    ELSE Goes(t, "unset") /\ palette' = t
  /\ UNCHANGED <<windowVars, imageVars, window, wpal, hpal, live, inbox>>

\* Faulty: only the device contexts forget the palette, not the window.
UnsetFromDCs(t) ==
  /\ At(t, "unset") /\ window = None
  /\ Goes(t, "delete")
  /\ UNCHANGED <<windowVars, imageVars, window, palette, wpal, hpal, live, inbox>>

\* UnsetPalette, with the window lock as well.
UnsetPalette(t) ==
  /\ At(t, "unset") /\ window = None
  /\ wpal' = None
  /\ Goes(t, "delete")
  /\ UNCHANGED <<windowVars, imageVars, window, palette, hpal, live, inbox>>

DeletePalette(t, next) ==
  /\ At(t, "delete")
  /\ live' = live \ {hpal} /\ hpal' = None /\ palette' = None
  /\ Goes(t, next)
  /\ UNCHANGED <<windowVars, imageVars, window, wpal, inbox>>

\* MakePalette under the palette lock, unless the new format has none.
MakePalette ==
  /\ At("stream", "make")
  /\ IF format = None THEN Goes("stream", "idle") /\ UNCHANGED <<hpal, live>>
     ELSE /\ palette = None
          /\ hpal' = format /\ live' = live \cup {format}
          /\ Goes("stream", "install")
  /\ UNCHANGED <<windowVars, imageVars, window, palette, wpal, inbox>>

\* CBaseWindow::SetPalette: under both locks, ...
LockWindow ==
  /\ At("stream", "install") /\ window = None
  /\ window' = "stream"
  /\ Goes("stream", "install2")
  /\ UNCHANGED <<windowVars, imageVars, palette, wpal, hpal, live, inbox>>

\* Faulty: sends the message with both locks held.
SetPaletteLocked ==
  /\ At("stream", "install2") /\ palette = None
  /\ palette' = "stream"
  /\ wpal' = hpal
  /\ Goes("stream", "sent") /\ inbox' = inbox \cup {<<"realize", "stream">>}
  /\ UNCHANGED <<windowVars, imageVars, window, hpal, live>>

\* ... then without any lock asks the window thread to realise it, or selects it.
SetPalette ==
  /\ At("stream", "install2") /\ palette = None
  /\ window' = None
  /\ wpal' = hpal
  /\ IF noRealize THEN Goes("stream", "set") /\ UNCHANGED inbox
     ELSE IF exists THEN Goes("stream", "sent") /\ inbox' = inbox \cup {<<"realize", "stream">>}
     ELSE Goes("stream", "set") /\ UNCHANGED inbox
  /\ UNCHANGED <<windowVars, imageVars, palette, hpal, live>>

\* Faulty: the version stays.
KeepPaletteVersion ==
  /\ At("stream", "set")
  /\ Goes("stream", "idle")
  /\ UNCHANGED <<windowVars, imageVars, window, palette, wpal, hpal, live, inbox>>

IncrementPaletteVersion ==
  /\ At("stream", "set")
  /\ version' = version + 1
  /\ Goes("stream", "idle")
  /\ UNCHANGED <<windowVars, window, palette, wpal, hpal, live, format, changes, sample, shown,
                 inbox>>

\* CImageAllocator::Alloc, all or some of the samples; their DIB sections have the
\* colour table of the format at that time.
Alloc ==
  /\ At("stream", "idle") /\ \A s \in Samples : sample[s] = NoSample
  /\ \E made \in SUBSET Samples \ {{}} :
       sample' = [s \in Samples |-> IF s \in made THEN <<PALETTE_VERSION, format>> ELSE NoSample]
  /\ UNCHANGED <<windowVars, window, palette, wpal, hpal, live, format, version, changes, shown,
                 inbox, thread>>

\* CImageAllocator::Free
Free ==
  /\ At("stream", "idle")
  /\ sample' = [s \in Samples |-> NoSample]
  /\ UNCHANGED <<windowVars, window, palette, wpal, hpal, live, format, version, changes, shown,
                 inbox, thread>>

\* DrawImage and FastRender.
DrawImage ==
  /\ At("stream", "idle") /\ dcs
  /\ \E s \in Samples :
       /\ sample[s] # NoSample
       /\ IF sample[s][1] < version
            THEN sample' = [sample EXCEPT ![s] = <<version, format>>]   \* UpdateColourTable
            ELSE UNCHANGED sample
       /\ shown' = <<sample'[s][2], format>>
  /\ UNCHANGED <<windowVars, window, palette, wpal, hpal, live, format, version, changes, inbox,
                 thread>>

-----------------------------------------------------------------------------
(* The application's thread.                                               *)

ActivateWindow ==
  /\ At("app", "idle") /\ hwnd
  /\ activated' = TRUE
  /\ UNCHANGED <<exists, hwnd, dcs, post, noRealize, window, palette, wpal, hpal, live,
                 imageVars, inbox, thread>>

\* put_BackgroundPalette posts a message, under the window lock.
put_BackgroundPalette ==
  /\ At("app", "idle") /\ exists /\ window = None
  /\ inbox' = inbox \cup {<<"realize", None>>}
  /\ UNCHANGED <<windowVars, imageVars, window, palette, wpal, hpal, live, thread>>

\* The connection is broken: no more formats and images, RemovePalette.
BreakConnect ==
  /\ At("app", "idle") /\ hwnd /\ At("stream", "idle")
  /\ Goes("app", "remove")
  /\ UNCHANGED <<windowVars, imageVars, window, palette, wpal, hpal, live, inbox>>

\* CBaseWindow::DoneWithWindow on a thread that does not own the window.
DoneWithWindow ==
  /\ At("app", "close")
  /\ IF exists THEN /\ inbox' = inbox \cup {<<"destroy", IF post THEN None ELSE "app">>}
                    /\ Goes("app", "waits")
               ELSE Goes("app", "closed") /\ UNCHANGED inbox
  /\ UNCHANGED <<windowVars, imageVars, window, palette, wpal, hpal, live>>

WindowDone ==
  /\ At("app", "closed")
  /\ hwnd' = FALSE
  /\ dcs' = FALSE
  /\ Goes("app", "done")
  /\ UNCHANGED <<exists, activated, post, noRealize, window, palette, wpal, hpal, live, imageVars,
                 inbox>>

WindowThread == PrepareWindow \/ OnRealizePalette \/ DoRealisePalette \/ OnDestroy

PreparePalette ==
  \/ LockToRemove("stream", "remove", "make") \/ UnsetPalette("stream")
  \/ DeletePalette("stream", "make")
  \/ MakePalette \/ LockWindow \/ SetPalette \/ IncrementPaletteVersion

Streaming == ChangeFormat \/ Alloc \/ Free \/ DrawImage

Closing ==
  \/ LockToRemove("app", "remove", "close") \/ UnsetPalette("app")
  \/ DeletePalette("app", "close")
  \/ DoneWithWindow \/ WindowDone

Next ==
  \/ WindowThread \/ PreparePalette \/ Streaming \/ Closing
  \/ ActivateWindow \/ put_BackgroundPalette \/ BreakConnect

Spec == Init /\ [][Next]_vars

-----------------------------------------------------------------------------
(* Properties.                                                             *)

\* Unless somebody holds the palette lock, the window's palette is one that GDI
\* has: no thread selects or realises a palette that has been deleted.
PaletteLives == palette = None /\ wpal # None => wpal \in live

\* An image is drawn with the colours of the format it came with.
RightColours == shown[2] # None => shown[1] = shown[2]

\* A thread at work, or the window thread with a message, is not waiting for a lock.
CanGoOn ==
  \/ At("window", "prepare")
  \/ At("window", "pump") /\ \E m \in inbox : Received(m) /\ (m[1] = "realize" => exists)
  \/ thread.window \in {"realise", "answer"} /\ palette = None
  \/ \E t \in {"stream", "app"} :
       \/ thread[t] \in {"delete", "set", "close", "closed"}
       \/ thread[t] \in {"remove", "install2"} /\ palette = None
       \/ thread[t] = "make" /\ (format = None \/ palette = None)
       \/ thread[t] \in {"unset", "install"} /\ window = None

\* Threads that take locks of each other's and wait for each other's answers never
\* all wait: who has begun something, or whoever it waits for, can go on.
NobodyStuck == thread.stream # "idle" \/ thread.app \notin {"idle", "done"} => CanGoOn
=============================================================================
