------------------------------ MODULE Seeking ------------------------------
(***************************************************************************)
(* Seeking in a stream: CSourceSeeking on the source's output pin,         *)
(* CPosPassThru and CRendererPosPassThru in the renderer (ctlutil.cpp),    *)
(* and the renderer's calls of the latter (renbase.cpp).  The derived      *)
(* source is external: ChangeStart flushes, stops its thread and streams   *)
(* from m_rtStart; ChangeStop leaves the thread to look at m_rtStop.       *)
(* Several threads of the application may seek at once.                    *)
(***************************************************************************)
EXTENDS Integers

CONSTANTS Callers,   \* threads of the application
          Duration,  \* of the media, in samples
          Seeks      \* bound: calls of SetPositions

Times == 0 .. Duration
Positioning == {"none", "absolute", "relative", "incremental"}

VARIABLES
  m_rtStart, m_rtStop,
  caller,     \* per thread: what SetPositions has left to call
  seeks,
  flusher,    \* the thread that is in ChangeStart; the others wait
  began,      \* where streaming began
  pos,        \* the next sample of the source's thread
  streaming,  \* the source's thread runs
  eos,        \* end of stream in the renderer: none, due, asked for the stop, told
  llStop,     \* local of EOS
  m_StartMedia, m_bReset

vars == <<m_rtStart, m_rtStop, caller, seeks, flusher, began, pos, streaming, eos, llStop,
          m_StartMedia, m_bReset>>

Nobody == "nobody"

Init ==
  /\ m_rtStart = 0 /\ m_rtStop = Duration
  /\ caller = [c \in Callers |-> {}] /\ seeks = 0 /\ flusher = Nobody
  /\ began = 0 /\ pos = 0 /\ streaming = TRUE
  /\ eos = "none" /\ llStop = 0
  /\ m_StartMedia = 0 /\ m_bReset = TRUE

source == <<m_rtStart, m_rtStop>>
stream == <<began, pos, streaming>>
renderer == <<eos, llStop, m_StartMedia, m_bReset>>

\* CSourceSeeking::SetPositions, which CPosPassThru hands on to it: the times are set
\* under the lock, the derived class is told without it.  A start cannot be incremental,
\* and is checked before anything is set.
SetPositions(c) ==
  /\ caller[c] = {} /\ seeks < Seeks /\ seeks' = seeks + 1
  /\ \E StartBits, StopBits \in Positioning, current, to \in Times :
       LET start == CASE StartBits = "absolute" -> current
                      [] StartBits = "relative" -> m_rtStart + current
                      [] OTHER -> m_rtStart
           stop == CASE StopBits = "absolute" -> to
                     [] StopBits = "incremental" -> start + to
                     [] StopBits = "relative" -> m_rtStop + to
                     [] OTHER -> m_rtStop
       IN  /\ StartBits # "incremental"
           /\ start <= Duration /\ stop <= Duration
           /\ m_rtStart' = start /\ m_rtStop' = stop
           /\ caller' = [caller EXCEPT ![c] = {x \in {"start", "stop"} :
                           IF x = "start" THEN StartBits # "none" ELSE StopBits # "none"}]
  /\ UNCHANGED <<stream, renderer, flusher>>

ChangeStop(c) ==
  /\ "stop" \in caller[c]
  /\ caller' = [caller EXCEPT ![c] = @ \ {"stop"}]
  /\ UNCHANGED <<source, stream, renderer, flusher, seeks>>

\* ChangeStart, and CBaseRenderer::BeginFlush: the thread is let go and stops.  The
\* renderer's lock keeps it out of EOS.
BeginFlush(c) ==
  /\ caller[c] = {"start"} /\ flusher = Nobody
  /\ eos \in {"none", "due", "told"}
  /\ flusher' = c /\ streaming' = FALSE /\ eos' = "none"
  /\ UNCHANGED <<source, caller, seeks, began, pos, llStop, m_StartMedia, m_bReset>>

\* Faulty: the media time of before the flush stays.
EndFlushKeeps(c) ==
  /\ flusher = c /\ flusher' = Nobody
  /\ caller' = [caller EXCEPT ![c] = {}]
  /\ began' = m_rtStart /\ pos' = m_rtStart /\ streaming' = TRUE
  /\ UNCHANGED <<source, seeks, renderer>>

\* CBaseRenderer::EndFlush with ResetMediaTime; the source's thread starts again.
EndFlush(c) ==
  /\ flusher = c /\ flusher' = Nobody
  /\ caller' = [caller EXCEPT ![c] = {}]
  /\ began' = m_rtStart /\ pos' = m_rtStart /\ streaming' = TRUE
  /\ m_StartMedia' = 0 /\ m_bReset' = TRUE
  /\ UNCHANGED <<source, seeks, eos, llStop>>

\* A sample, up to RegisterMediaTime in PrepareReceive.
Receive ==
  /\ streaming /\ pos < m_rtStop
  /\ m_StartMedia' = pos /\ m_bReset' = FALSE
  /\ pos' = pos + 1
  /\ UNCHANGED <<source, caller, seeks, flusher, began, streaming, eos, llStop>>

EndOfStream ==
  /\ streaming /\ pos >= m_rtStop
  /\ streaming' = FALSE /\ eos' = "due"
  /\ UNCHANGED <<source, caller, seeks, flusher, began, pos, llStop, m_StartMedia, m_bReset>>

\* CRendererPosPassThru::EOS, called by NotifyEndOfStream with the renderer's lock:
\* asks the source where the end is, unless there is no media time, ...
AskForStop ==
  /\ eos = "due" /\ flusher = Nobody
  /\ eos' = IF m_bReset THEN "told" ELSE "asked"
  /\ llStop' = IF m_bReset THEN llStop ELSE m_rtStop
  /\ UNCHANGED <<source, stream, caller, seeks, flusher, m_StartMedia, m_bReset>>

\* ... and takes it for the position.
EOS ==
  /\ eos = "asked" /\ eos' = "told"
  /\ m_StartMedia' = llStop
  /\ UNCHANGED <<source, stream, caller, seeks, flusher, llStop, m_bReset>>

\* GetCurrentPosition: the media time of the renderer; the source has no position.
GetCurrentPosition == IF m_bReset THEN {} ELSE {m_StartMedia}

Next ==
  \/ \E c \in Callers : SetPositions(c) \/ ChangeStop(c) \/ BeginFlush(c) \/ EndFlush(c)
  \/ Receive \/ EndOfStream \/ AskForStop \/ EOS

Fairness ==
  /\ \A c \in Callers : WF_vars(ChangeStop(c)) /\ SF_vars(BeginFlush(c)) /\ WF_vars(EndFlush(c))
  /\ WF_vars(Receive) /\ WF_vars(EndOfStream) /\ WF_vars(AskForStop) /\ WF_vars(EOS)

Spec == Init /\ [][Next]_vars /\ Fairness

-----------------------------------------------------------------------------
\* Of two seeks at once the one that sets its times last wins, whichever flushes
\* last; no position of before a flush is reported after it, but that of the stop at
\* the end.
SeekSettles ==
  /\ (\A c \in Callers : "start" \notin caller[c]) => began = m_rtStart
  /\ flusher = Nobody /\ eos # "told" => \A t \in GetCurrentPosition : began <= t

\* When no more is asked for, every call comes back and the stream to its end.
SeeksEnd == <>[](eos = "told" /\ \A c \in Callers : caller[c] = {})
=============================================================================
