---------------------------- MODULE StreamControl ----------------------------
(***************************************************************************)
(* CBaseStreamControl (strmctl.cpp): a pin that starts and stops its       *)
(* stream at given times.  The application calls StartAt and StopAt, the   *)
(* filter reports its state and its flushes, and the streaming thread asks *)
(* CheckStreamState what to do with each sample, waiting there while the   *)
(* sample is to be thrown away in a timely fashion.  Every method takes    *)
(* m_CritSec for the length of its step; CheckStreamState takes it only    *)
(* for CheckSampleTimes.                                                   *)
(***************************************************************************)
EXTENDS Integers

CONSTANT MaxTime   \* sample times and the times of StartAt, StopAt: 0..MaxTime

\* MAX_TIME: no start or stop is pending.
Never == MaxTime + 1

NoSample == [start |-> Never, stop |-> Never]

VARIABLES
  stream,      \* m_StreamState
  onStop,      \* m_StreamStateOnStop
  startTime,   \* m_tStartTime
  stopTime,    \* m_tStopTime
  filter,      \* m_FilterState
  flushing,    \* m_bIsFlushing
  sendExtra,   \* m_bStopSendExtra
  extraSent,   \* m_bStopExtraSent
  event,       \* m_StreamEvent, reset by the wait it ends
  spc,         \* place of the streaming thread in CheckStreamState
  sample,      \* the times of its sample
  answer,      \* what CheckStreamState has returned last
  hasClock     \* m_pRefClock is not NULL

settings == <<stream, onStop, startTime, stopTime>>
asked == <<spc, sample, answer>>
vars == <<settings, filter, flushing, sendExtra, extraSent, event, asked, hasClock>>

Init ==
  /\ stream = "FLOWING" /\ onStop = "FLOWING"
  /\ startTime = Never /\ stopTime = Never
  /\ filter = "Stopped" /\ flushing = FALSE
  /\ sendExtra = FALSE /\ extraSent = FALSE /\ event = FALSE
  /\ spc = "idle" /\ sample = NoSample /\ answer = "FLOWING"
  /\ hasClock \in BOOLEAN

-----------------------------------------------------------------------------
(* ExecuteStart, ExecuteStop and their orders, as functions of the record  *)
(* of the four settings they change.                                       *)

Settings == [stream |-> stream, onStop |-> onStop, start |-> startTime, stop |-> stopTime]

CancelStop(s) == [s EXCEPT !.stop = Never, !.onStop = "FLOWING"]
CancelStart(s) == [s EXCEPT !.start = Never]
ExecuteStop(s) == CancelStop([s EXCEPT !.stream = s.onStop])
ExecuteStart(s) == CancelStart([s EXCEPT !.stream = "FLOWING"])

Becomes(s) ==
  /\ stream' = s.stream /\ onStop' = s.onStop
  /\ startTime' = s.start /\ stopTime' = s.stop

\* Faulty: a start and a stop that are both past are taken in one order.
CheckStopLast(s, from, to) ==
  IF s.stop >= from
    THEN IF s.start >= to THEN s
         ELSE IF s.stop < s.start THEN ExecuteStart(ExecuteStop(s)) ELSE ExecuteStart(s)
    ELSE IF s.start >= to THEN ExecuteStop(s) ELSE ExecuteStop(ExecuteStart(s))

\* CheckSampleTimes for a sample of the interval from..to.
CheckSampleTimes(s, from, to) ==
  IF s.stop >= from
    THEN IF s.start >= to THEN s
         ELSE IF s.stop < s.start THEN ExecuteStart(ExecuteStop(s)) ELSE ExecuteStart(s)
    ELSE IF s.start >= to THEN ExecuteStop(s)
         ELSE IF s.start <= s.stop THEN ExecuteStop(ExecuteStart(s))
                                   ELSE ExecuteStart(ExecuteStop(s))

-----------------------------------------------------------------------------
(* The application: IAMStreamControl.                                      *)

StopAt ==
  /\ \E t \in 0..Never, e \in BOOLEAN :
       IF t = Never
         THEN /\ onStop' = "FLOWING" /\ stopTime' = Never
              /\ stream' = IF filter = "Stopped" /\ startTime < Never
                             THEN "DISCARDING" ELSE stream
              /\ sendExtra' = FALSE
              /\ UNCHANGED event
         ELSE /\ stream' = IF filter = "Stopped" /\ startTime > t THEN "FLOWING" ELSE stream
              /\ onStop' = "DISCARDING" /\ stopTime' = t
              /\ sendExtra' = e
              /\ event' = TRUE
  /\ extraSent' = FALSE
  /\ UNCHANGED <<startTime, filter, flushing, asked, hasClock>>

StopNow ==
  /\ stream' = "DISCARDING" /\ onStop' = "FLOWING" /\ stopTime' = Never
  /\ sendExtra' = FALSE /\ extraSent' = FALSE
  /\ event' = TRUE
  /\ UNCHANGED <<startTime, filter, flushing, asked, hasClock>>

StartAt ==
  /\ \E t \in 0..Never :
       IF t = Never
         THEN /\ stream' = IF filter = "Stopped" /\ stopTime < Never
                             THEN "FLOWING" ELSE stream
              /\ startTime' = Never
              /\ UNCHANGED event
         ELSE /\ stream' = IF filter = "Stopped" /\ stopTime >= t
                             THEN "DISCARDING" ELSE stream
              /\ startTime' = t
              /\ event' = TRUE
  /\ UNCHANGED <<onStop, stopTime, filter, flushing, sendExtra, extraSent, asked, hasClock>>

StartNow ==
  /\ stream' = "FLOWING" /\ startTime' = Never
  /\ event' = TRUE
  /\ UNCHANGED <<onStop, stopTime, filter, flushing, sendExtra, extraSent, asked, hasClock>>

-----------------------------------------------------------------------------
(* The filter: NotifyFilterState and Flushing.                             *)

\* Pending starts and stops are executed in their order, and the next run
\* begins by flowing.
NotifyStopped ==
  /\ filter # "Stopped"
  /\ filter' = "Stopped"
  /\ LET s == Settings
         done == CASE s.start # Never /\ s.stop = Never -> ExecuteStart(s)
                   [] s.start = Never /\ s.stop # Never -> ExecuteStop(s)
                   [] s.start # Never /\ s.stop # Never ->
                        IF s.start <= s.stop THEN ExecuteStop(ExecuteStart(s))
                                             ELSE ExecuteStart(ExecuteStop(s))
                   [] OTHER -> s
     IN Becomes([done EXCEPT !.stream = "FLOWING"])
  /\ event' = TRUE
  /\ UNCHANGED <<flushing, sendExtra, extraSent, asked, hasClock>>

NotifyActive ==
  /\ filter' \in {"Paused", "Running"} \ {filter}
  /\ event' = TRUE
  /\ UNCHANGED <<settings, flushing, sendExtra, extraSent, asked, hasClock>>

\* Faulty: leaves a waiting thread to its wait.
FlushingQuietly ==
  /\ flushing' = ~flushing
  /\ UNCHANGED <<settings, filter, sendExtra, extraSent, event, asked, hasClock>>

Flushing ==
  /\ flushing' = ~flushing
  /\ event' = TRUE
  /\ UNCHANGED <<settings, filter, sendExtra, extraSent, asked, hasClock>>

-----------------------------------------------------------------------------
(* The streaming thread: CheckStreamState.                                 *)

Rest == <<filter, flushing, sendExtra, hasClock>>
Answers(a) == spc' = "idle" /\ answer' = a /\ sample' = NoSample

Ask ==
  /\ spc = "idle"
  /\ \E a, b \in 0..MaxTime : a < b /\ sample' = [start |-> a, stop |-> b]
  /\ spc' = "look"
  /\ UNCHANGED <<settings, Rest, extraSent, event, answer>>

\* A sample without times is judged by the present state.
AskUntimed ==
  /\ spc = "idle"
  /\ answer' = IF flushing \/ filter = "Stopped" THEN "DISCARDING" ELSE stream
  /\ UNCHANGED <<settings, Rest, extraSent, event, spc, sample>>

Look ==
  /\ spc = "look"
  /\ IF flushing \/ filter = "Stopped"
       THEN Answers("DISCARDING")
       ELSE spc' = "times" /\ UNCHANGED <<sample, answer>>
  /\ UNCHANGED <<settings, Rest, extraSent, event>>

\* CheckSampleTimes, under the lock.
Times ==
  /\ spc = "times"
  /\ Becomes(CheckSampleTimes(Settings, sample.start, sample.stop))
  /\ IF stream' = "FLOWING" THEN Answers("FLOWING")
                             ELSE spc' = "test" /\ UNCHANGED <<sample, answer>>
  /\ UNCHANGED <<Rest, extraSent, event>>

\* Whether a stop is followed by an extra sample is read, and that it was is
\* written, without the lock.
TestExtra ==
  /\ spc = "test"
  /\ spc' = IF sendExtra /\ ~extraSent /\ stopTime = Never /\ filter # "Stopped"
              THEN "send" ELSE "discard"
  /\ UNCHANGED <<settings, Rest, extraSent, event, sample, answer>>

SendExtra ==
  /\ spc = "send"
  /\ extraSent' = TRUE
  /\ Answers("FLOWING")
  /\ UNCHANGED <<settings, Rest, event>>

\* How long to wait: not at all without a clock or when it is too late, for ever
\* while paused, else until the time of the sample.
Discard ==
  /\ spc = "discard"
  /\ \/ (~hasClock \/ filter # "Paused") /\ Answers("DISCARDING")
     \/ /\ hasClock
        /\ spc' = IF filter = "Paused" THEN "waitForEver" ELSE "wait"
        /\ UNCHANGED <<sample, answer>>
  /\ UNCHANGED <<settings, Rest, extraSent, event>>

Timeout ==
  /\ spc = "wait" /\ ~event
  /\ Answers("DISCARDING")
  /\ UNCHANGED <<settings, Rest, extraSent, event>>

Wake ==
  /\ spc \in {"wait", "waitForEver"} /\ event
  /\ event' = FALSE
  /\ spc' = "look"
  /\ UNCHANGED <<settings, Rest, extraSent, sample, answer>>

Check == Look \/ Times \/ TestExtra \/ SendExtra \/ Discard \/ Timeout \/ Wake

Next == StopAt \/ StopNow \/ StartAt \/ StartNow \/ NotifyStopped \/ NotifyActive
        \/ Flushing \/ Ask \/ AskUntimed \/ Check

(* Fairness: the streaming thread goes on, and time-outs run down.          *)
Fairness == WF_vars(Check)

Spec == Init /\ [][Next]_vars /\ Fairness

-----------------------------------------------------------------------------
(* Properties.                                                             *)

\* The type invariant.
TypeOK ==
  /\ {stream, onStop, answer} \subseteq {"FLOWING", "DISCARDING"}
  /\ {startTime, stopTime} \subseteq 0..Never
  /\ filter \in {"Stopped", "Paused", "Running"}
  /\ {flushing, sendExtra, extraSent, event, hasClock} \subseteq BOOLEAN
  /\ spc \in {"idle", "look", "times", "test", "send", "discard", "wait", "waitForEver"}
  /\ sample \in [start : 0..Never, stop : 0..Never]

\* A pending stop is one that will discard.
PendingStop == (stopTime # Never) <=> (onStop = "DISCARDING")

\* The rules the comment of CheckSampleTimes states: what is pending is taken in
\* the order of its time, the start first of two at one time, as far as it comes
\* before the sample; a start inside the sample is taken too, with a stop before
\* it, since a sample any part of which is to be sent is sent whole.
AsTold(s, from, to) ==
  LET startDue == s.start < to
      stopDue == s.stop < from \/ (startDue /\ s.stop < s.start)
      last == IF startDue /\ (~stopDue \/ s.start > s.stop) THEN "start"
              ELSE IF stopDue THEN "stop" ELSE "none"
  IN [stream |-> CASE last = "start" -> "FLOWING"
                   [] last = "stop" -> "DISCARDING"
                   [] OTHER -> s.stream,
      onStop |-> IF stopDue THEN "FLOWING" ELSE s.onStop,
      start |-> IF startDue THEN Never ELSE s.start,
      stop |-> IF stopDue THEN Never ELSE s.stop]

\* CheckSampleTimes does what its comment says, whatever has been set when.
SampleIsTold ==
  spc = "times" /\ spc' # "times" =>
    Becomes(AsTold(Settings, sample.start, sample.stop))
SampleAsTold == [][SampleIsTold]_vars

\* The streaming thread is not left in its wait by a flush, by a stop or by the
\* time going by while the filter runs.
WaitEnds == spc = "wait" ~> spc # "wait"
FlushWakes == (spc # "idle" /\ flushing) ~> (spc = "idle" \/ ~flushing)
StopWakes == (spc # "idle" /\ filter = "Stopped") ~> (spc = "idle" \/ filter # "Stopped")

\* An assertion of CheckSampleTimes: it is not called during a flush.  The
\* code does not keep it.
NotFlushing == spc = "times" => ~flushing
=============================================================================
