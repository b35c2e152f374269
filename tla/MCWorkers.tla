----------------------------- MODULE MCWorkers ------------------------------
(***************************************************************************)
(* The threads that hand something over or wait for one another: streaming *)
(* and sound thread in the mixer (extended here), and of the base classes  *)
(* the workers of a source stream, of a pulling pin, of a message thread   *)
(* and of deferred commands, the wait of a stream control, the block of a  *)
(* dynamic pin, the streaming thread of a transform filter and the callers *)
(* of its seeking interface.  They share nothing, so that a behaviour is   *)
(* about one of them, chosen at the start.                                 *)
(***************************************************************************)
EXTENDS Mixer, FiniteSets

CONSTANTS
  \* a source: its connected pins, and a bound on the failures
  ss_Pins, ss_FaultsMax,
  \* a pulling pin: the media's length, the reader's alignment, the size and the
  \* number of buffers, and a bound on the seeks
  pp_Length, pp_Align, pp_cbBuffer, pp_cBuffers, pp_Seeks,
  \* a message thread: the messages, and the one that ends it
  mt_Messages, mt_Last,
  \* a stream control: a bound on the times
  sc_MaxTime,
  \* a dynamic pin: the threads of the application, and the streaming threads
  dp_Callers, dp_Streams,
  \* a transform filter: the number of buffers
  tf_cBuffers,
  \* seeking: the threads of the application, the duration, a bound on the seeks
  sk_Callers, sk_Duration, sk_Seeks,
  \* deferred commands: the commands and the bounds of CmdQueue
  cq_Cmds, cq_MaxTime, cq_Clocks, cq_Runs, cq_Offset, cq_INFINITE

TwoPins == <<1, 2>>

\* Pause and Stop loop over the pins there are; a filter without pins has no loop.
ASSUME SourceAssumption ==
  Len(ss_Pins) \in Nat \ {0} /\ DOMAIN ss_Pins = 1..Len(ss_Pins) /\ ss_FaultsMax \in Nat
\* An alignment of 0 is a division by 0.
ASSUME PullAssumption ==
  /\ pp_Length \in Nat /\ pp_Align \in Nat \ {0} /\ pp_cbBuffer \in Nat
  /\ pp_cBuffers \in Nat /\ pp_Seeks \in Nat
ASSUME PinAssumption == IsFiniteSet(dp_Streams) /\ "nobody" \notin dp_Callers
ASSUME TransformAssumption == tf_cBuffers \in Nat
ASSUME SeekingAssumption == sk_Duration \in Nat /\ "nobody" \notin sk_Callers

VARIABLES
  unit,  \* the unit this behaviour is about
  ss_state, ss_cpc, ss_pin, ss_thread, ss_wpc, ss_committed, ss_faults,
  ss_halfway,
  pp_cpc, pp_state, pp_start, pp_stop, pp_sync, pp_thread, pp_wpc,
  pp_current, pp_second, pp_requests, pp_cancelled, pp_held, pp_committed,
  pp_flushing, pp_next, pp_ended, pp_refused, pp_seeks,
  mt_m_ThreadQueue, mt_m_lWaiting, mt_m_hSem, mt_unput, mt_put, mt_handled,
  mt_thread, mt_owner,
  sc_stream, sc_onStop, sc_startTime, sc_stopTime, sc_filter, sc_flushing,
  sc_sendExtra, sc_extraSent, sc_event, sc_spc, sc_sample, sc_answer,
  sc_hasClock,
  dp_block, dp_notify, dp_caller, dp_users, dp_unblock, dp_stop, dp_cpc,
  dp_event, dp_spc, dp_granted,
  tf_in, tf_out, tf_state, tf_cpc, tf_rpc, tf_flushing, tf_runTimeError,
  tf_committed, tf_eosDelivered, tf_skipped, tf_quality, tf_down,
  tf_downFlushing, tf_held,
  sk_m_rtStart, sk_m_rtStop, sk_caller, sk_seeks, sk_flusher, sk_began,
  sk_pos, sk_streaming, sk_eos, sk_llStop, sk_m_StartMedia, sk_m_bReset,
  cq_now, cq_hasClock, cq_changes, cq_running, cq_runs, cq_lists, cq_due,
  cq_advised, cq_alarm, cq_cmd, cq_user, cq_coarse, cq_pc, cq_taken,
  cq_broken

ssVars ==
  <<ss_state, ss_cpc, ss_pin, ss_thread, ss_wpc, ss_committed, ss_faults,
    ss_halfway>>
ppVars ==
  <<pp_cpc, pp_state, pp_start, pp_stop, pp_sync, pp_thread, pp_wpc,
    pp_current, pp_second, pp_requests, pp_cancelled, pp_held, pp_committed,
    pp_flushing, pp_next, pp_ended, pp_refused, pp_seeks>>
mtVars ==
  <<mt_m_ThreadQueue, mt_m_lWaiting, mt_m_hSem, mt_unput, mt_put, mt_handled,
    mt_thread, mt_owner>>
scVars ==
  <<sc_stream, sc_onStop, sc_startTime, sc_stopTime, sc_filter, sc_flushing,
    sc_sendExtra, sc_extraSent, sc_event, sc_spc, sc_sample, sc_answer,
    sc_hasClock>>
dpVars ==
  <<dp_block, dp_notify, dp_caller, dp_users, dp_unblock, dp_stop, dp_cpc,
    dp_event, dp_spc, dp_granted>>
tfVars ==
  <<tf_in, tf_out, tf_state, tf_cpc, tf_rpc, tf_flushing, tf_runTimeError,
    tf_committed, tf_eosDelivered, tf_skipped, tf_quality, tf_down,
    tf_downFlushing, tf_held>>
skVars ==
  <<sk_m_rtStart, sk_m_rtStop, sk_caller, sk_seeks, sk_flusher, sk_began,
    sk_pos, sk_streaming, sk_eos, sk_llStop, sk_m_StartMedia, sk_m_bReset>>
cqVars ==
  <<cq_now, cq_hasClock, cq_changes, cq_running, cq_runs, cq_lists, cq_due,
    cq_advised, cq_alarm, cq_cmd, cq_user, cq_coarse, cq_pc, cq_taken,
    cq_broken>>

SS == INSTANCE SourceStream WITH
  Pins <- ss_Pins, FaultsMax <- ss_FaultsMax, state <- ss_state,
  cpc <- ss_cpc, pin <- ss_pin, thread <- ss_thread, wpc <- ss_wpc,
  committed <- ss_committed, faults <- ss_faults, halfway <- ss_halfway

PP == INSTANCE PullPin WITH
  Length <- pp_Length, Align <- pp_Align, cbBuffer <- pp_cbBuffer,
  cBuffers <- pp_cBuffers, Seeks <- pp_Seeks, cpc <- pp_cpc,
  state <- pp_state, start <- pp_start, stop <- pp_stop, sync <- pp_sync,
  thread <- pp_thread, wpc <- pp_wpc, current <- pp_current,
  second <- pp_second, requests <- pp_requests, cancelled <- pp_cancelled,
  held <- pp_held, committed <- pp_committed, flushing <- pp_flushing,
  next <- pp_next, ended <- pp_ended, refused <- pp_refused,
  seeks <- pp_seeks

MT == INSTANCE MsgThread WITH
  Messages <- mt_Messages, Last <- mt_Last,
  m_ThreadQueue <- mt_m_ThreadQueue, m_lWaiting <- mt_m_lWaiting,
  m_hSem <- mt_m_hSem, unput <- mt_unput, put <- mt_put,
  handled <- mt_handled, thread <- mt_thread, owner <- mt_owner

SC == INSTANCE StreamControl WITH
  MaxTime <- sc_MaxTime, stream <- sc_stream, onStop <- sc_onStop,
  startTime <- sc_startTime, stopTime <- sc_stopTime, filter <- sc_filter,
  flushing <- sc_flushing, sendExtra <- sc_sendExtra,
  extraSent <- sc_extraSent, event <- sc_event, spc <- sc_spc,
  sample <- sc_sample, answer <- sc_answer, hasClock <- sc_hasClock

DP == INSTANCE DynamicPin WITH
  Callers <- dp_Callers, Streams <- dp_Streams, block <- dp_block,
  notify <- dp_notify, caller <- dp_caller, users <- dp_users,
  unblock <- dp_unblock, stop <- dp_stop, cpc <- dp_cpc, event <- dp_event,
  spc <- dp_spc, granted <- dp_granted

TF == INSTANCE Transform WITH
  cBuffers <- tf_cBuffers, in <- tf_in, out <- tf_out, state <- tf_state,
  cpc <- tf_cpc, rpc <- tf_rpc, flushing <- tf_flushing,
  runTimeError <- tf_runTimeError, committed <- tf_committed,
  eosDelivered <- tf_eosDelivered, skipped <- tf_skipped,
  quality <- tf_quality, down <- tf_down, downFlushing <- tf_downFlushing,
  held <- tf_held

SK == INSTANCE Seeking WITH
  Callers <- sk_Callers, Duration <- sk_Duration, Seeks <- sk_Seeks,
  m_rtStart <- sk_m_rtStart, m_rtStop <- sk_m_rtStop, caller <- sk_caller,
  seeks <- sk_seeks, flusher <- sk_flusher, began <- sk_began, pos <- sk_pos,
  streaming <- sk_streaming, eos <- sk_eos, llStop <- sk_llStop,
  m_StartMedia <- sk_m_StartMedia, m_bReset <- sk_m_bReset

CQ == INSTANCE CmdQueue WITH
  Cmds <- cq_Cmds, MaxTime <- cq_MaxTime, Clocks <- cq_Clocks,
  Runs <- cq_Runs, Offset <- cq_Offset, INFINITE <- cq_INFINITE,
  now <- cq_now, hasClock <- cq_hasClock, changes <- cq_changes,
  running <- cq_running, runs <- cq_runs, lists <- cq_lists, due <- cq_due,
  advised <- cq_advised, alarm <- cq_alarm, cmd <- cq_cmd, user <- cq_user,
  coarse <- cq_coarse, pc <- cq_pc, taken <- cq_taken, broken <- cq_broken

all == <<unit,
        vars, ssVars, ppVars, mtVars, scVars, dpVars, tfVars, skVars, cqVars>>

\* A unit that rests has one initial state.
MCInit ==
  /\ unit \in {"mixer", "source", "pull", "messages", "control", "pin",
               "transform", "seeking", "commands"}
  /\ Init /\ (unit # "mixer" => {nBits, mixBits} = {CHOOSE b \in Bits : TRUE})
  /\ SS!Init
  /\ PP!Init /\ (unit # "pull" => pp_sync)
  /\ MT!Init
  /\ SC!Init /\ (unit # "control" => sc_hasClock)
  /\ DP!Init
  /\ TF!Init /\ (unit # "transform" => tf_in /\ tf_out)
  /\ SK!Init
  /\ CQ!Init /\ (unit # "commands" => cq_coarse)

\* The other units rest.
Rest ==
  /\ UNCHANGED unit
  /\ IF unit = "mixer" THEN TRUE ELSE UNCHANGED vars
  /\ IF unit = "source" THEN TRUE ELSE UNCHANGED ssVars
  /\ IF unit = "pull" THEN TRUE ELSE UNCHANGED ppVars
  /\ IF unit = "messages" THEN TRUE ELSE UNCHANGED mtVars
  /\ IF unit = "control" THEN TRUE ELSE UNCHANGED scVars
  /\ IF unit = "pin" THEN TRUE ELSE UNCHANGED dpVars
  /\ IF unit = "transform" THEN TRUE ELSE UNCHANGED tfVars
  /\ IF unit = "seeking" THEN TRUE ELSE UNCHANGED skVars
  /\ IF unit = "commands" THEN TRUE ELSE UNCHANGED cqVars

MCNext ==
  \/ unit = "mixer" /\ Next /\ Rest
  \/ unit = "source" /\ SS!Next /\ Rest
  \/ unit = "pull" /\ PP!Next /\ Rest
  \/ unit = "messages" /\ MT!Next /\ Rest
  \/ unit = "control" /\ SC!Next /\ Rest
  \/ unit = "pin" /\ DP!Next /\ Rest
  \/ unit = "transform" /\ TF!Next /\ Rest
  \/ unit = "seeking" /\ SK!Next /\ Rest
  \/ unit = "commands" /\ CQ!Next /\ Rest

\* The fairness each module states (its Fairness), of the unit that acts.
MCFairness ==
  /\ WF_vars(unit = "mixer" /\ Sound)
  /\ WF_vars(unit = "mixer" /\ ReceiveSteps)
  /\ WF_ssVars(unit = "source" /\ SS!Goes)
  /\ \A p \in SS!Each : WF_ssVars(unit = "source" /\ SS!Work(p))
  /\ WF_ppVars(unit = "pull" /\ PP!Goes)
  /\ WF_ppVars(unit = "pull" /\ PP!Work)
  /\ WF_ppVars(unit = "pull" /\ PP!Release)
  /\ WF_mtVars(unit = "messages" /\ (MT!GetThreadMsg \/ MT!GetNothing \/ MT!Wake))
  /\ WF_mtVars(unit = "messages" /\ MT!Destroyed)
  /\ WF_scVars(unit = "control" /\ SC!Check)
  /\ \A c \in dp_Callers : WF_dpVars(unit = "pin" /\ DP!BlockReturns(c))
  /\ \A s \in dp_Streams : WF_dpVars(unit = "pin" /\ DP!WaitEnds(s))
  /\ \A s \in dp_Streams : WF_dpVars(unit = "pin" /\ DP!StopUsing(s))
  /\ SF_tfVars(unit = "transform" /\ TF!Goes)
  /\ WF_tfVars(unit = "transform" /\ TF!Streaming)
  /\ WF_tfVars(unit = "transform" /\ TF!DownRelease)
  /\ \A c \in sk_Callers : WF_skVars(unit = "seeking" /\ SK!ChangeStop(c))
  /\ \A c \in sk_Callers : SF_skVars(unit = "seeking" /\ SK!BeginFlush(c))
  /\ \A c \in sk_Callers : WF_skVars(unit = "seeking" /\ SK!EndFlush(c))
  /\ WF_skVars(unit = "seeking" /\ SK!Receive)
  /\ WF_skVars(unit = "seeking" /\ SK!EndOfStream)
  /\ WF_skVars(unit = "seeking" /\ SK!AskForStop)
  /\ WF_skVars(unit = "seeking" /\ SK!EOS)
  /\ WF_cqVars(unit = "commands" /\ CQ!Works /\ CQ!Tick)
  /\ WF_cqVars(unit = "commands" /\ CQ!Works /\ CQ!Alarm)
  /\ WF_cqVars(unit = "commands" /\ CQ!Works /\ (CQ!Worker \/ CQ!Execute))
  /\ \A c \in cq_Cmds : WF_cqVars(unit = "commands" /\ CQ!Works /\ CQ!Requeue(c))

MCSpec == MCInit /\ [][MCNext]_all /\ MCFairness

-----------------------------------------------------------------------------

(***************************************************************************)
(* Properties of several units.                                            *)
(***************************************************************************)

\* Whoever has to be waited for: Receive and, once the mixer has stopped, Mix;
\* Pause and Stop of a source and of a transform filter; Active, Inactive and Seek
\* of a pulling pin; the destructor of a message thread, and the messages before;
\* every seek of a source, whose stream comes to its end.
CallsReturn ==
  /\ ReceiveReturns /\ MixReturnsAfterStop
  /\ SS!CallsReturn /\ TF!CallsReturn /\ PP!CallsReturn
  /\ MT!MessagesHandled
  /\ unit = "seeking" => SK!SeeksEnd

\* A streaming thread is let go: by the time of a stream control, by a flush, by a
\* stop, and by the pin's being unblocked; a block asked for is granted or cancelled.
StreamingGetsOn ==
  /\ SC!WaitEnds /\ SC!FlushWakes /\ SC!StopWakes
  /\ DP!NobodyIsLeft

\* What Stop leaves of a source, a transform filter and a pulling pin: no thread
\* inside, no buffer waited for, no request unanswered, nothing committed.
StoppedIsQuiet ==
  /\ SS!TypeOK /\ SS!NothingLeft
  /\ TF!TypeOK /\ TF!QuietWhenStopped
  /\ PP!TypeOK /\ PP!NoneOutstanding

\* Samples pulled through two requests at a time, and messages of any thread, come
\* out in order, each once, and the end after the last.
HandedOverInOrder == PP!InOrder /\ MT!HandledInOrder

\* Seeking: of two seeks at once the one that sets its times last wins, and no
\* position of before a flush is reported after it.
SeekSettles == SK!SeekSettles

\* A deferred command whose time has come is invoked or taken away.
DueIsDone == CQ!DueIsDone

\* Dynamic pin: what AssertValid asserts, at every instant the lock is free.
BlockValid == DP!TypeOK /\ DP!Valid
=============================================================================
