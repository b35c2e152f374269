---------------------------- MODULE OutputQueue ----------------------------
(***************************************************************************)
(* COutputQueue (outputq.cpp), with its thread: an output pin gives it     *)
(* samples, and a thread of its own sends them downstream in batches.      *)
(* Three parties: the streaming thread of the filter, which accepts data;  *)
(* whoever controls the filter, which flushes, resets and destroys; and    *)
(* the thread.  They share a list under a lock and, outside of it, m_hr,   *)
(* m_bFlushing and the event m_evFlushComplete.                            *)
(*                                                                         *)
(* The caller keeps two promises the code relies on: control calls come    *)
(* one after the other, and no data arrives during EndFlush ("the caller   *)
(* has guaranteed no samples will arrive before EndFlush() returns").      *)
(* Every result but S_OK is treated alike and written S_FALSE.             *)
(***************************************************************************)
EXTENDS Integers, Sequences, FiniteSets

CONSTANTS
  BatchSize,   (* m_lBatchSize                                             *)
  MaxItems,    (* bound: samples, ends of stream and segments accepted     *)
  MaxList      (* bound: length of the list at which a caller holds back   *)

ASSUME BatchSizeAssumption == BatchSize \in Nat \ {0}
ASSUME MaxItemsAssumption  == MaxItems \in Nat
ASSUME MaxListAssumption   == MaxList \in Nat

VARIABLES
  exact,       (* m_bBatchExact                                            *)
  opt,         (* m_bFlushingOpt                                           *)
  list,        (* m_List                                                   *)
  batch,       (* m_ppSamples[0 .. m_nBatched - 1]                         *)
  waiting,     (* m_lWaiting                                               *)
  sem,         (* count of m_hSem                                          *)
  flushing,    (* m_bFlushing                                              *)
  flushed,     (* m_bFlushed                                               *)
  hr,          (* m_hr                                                     *)
  event,       (* m_evFlushComplete, which resets itself                   *)
  terminate,   (* m_bTerminate                                             *)
  tpc,         (* where the thread is; "loop" with the lock held           *)
  sending,     (* the batch the thread has taken out of m_ppSamples        *)
  item,        (* the packet that ended that batch                         *)
  cpc,         (* where the controlling thread is                          *)
  spc,         (* where the streaming thread is                            *)
  dflush,      (* the pin downstream is flushing                           *)
  given,       (* history: what the last call downstream carried           *)
  last,        (* history: items accepted so far                           *)
  early        (* history: a Reset returned before its packet was handled  *)

conf   == <<exact, opt>>
queue  == <<list, batch>>
signal == <<waiting, sem>>
flush  == <<flushing, flushed>>
thread == <<tpc, sending, item>>
hist   == <<given, last, early>>
vars   == <<conf, queue, signal, flush, hr, event, terminate, thread, cpc, spc,
            dflush, hist>>

Data   == {"sample", "eos", "segment"}
Item   == [kind : Data, n : 1..MaxItems]
Send   == [kind |-> "send", n |-> 0]      (* SEND_PACKET                   *)
Reset  == [kind |-> "reset", n |-> 0]     (* RESET_PACKET                  *)
None   == [kind |-> "none", n |-> 0]

TypeOK ==
  /\ exact \in BOOLEAN /\ opt \in BOOLEAN
  /\ list \in Seq(Item \cup {Send, Reset})
  /\ batch \in Seq(Item) /\ Len(batch) < BatchSize
  /\ waiting \in Nat /\ sem \in Nat
  /\ waiting + sem = (IF tpc = "wait" THEN 1 ELSE 0)
  /\ flushing \in BOOLEAN /\ flushed \in BOOLEAN
  /\ hr \in {"S_OK", "S_FALSE"}
  /\ event \in BOOLEAN /\ terminate \in BOOLEAN
  /\ tpc \in {"top", "loop", "wait", "send", "receiving", "packet", "reset", "done"}
  /\ sending \in Seq(Item) /\ Len(sending) <= BatchSize
  /\ item \in Item \cup {Reset, None}
  /\ cpc \in {"idle", "begin", "flushing", "wait", "clear", "endpin", "ok",
              "reset", "join", "gone"}
  /\ spc \in {"idle", "segment"}
  /\ dflush \in BOOLEAN
  /\ given \in Seq(Item)
  /\ last \in 0..MaxItems
  /\ early \in BOOLEAN

(* An exact batch of one is no exact batch.                                *)
Init ==
  /\ exact \in BOOLEAN /\ (exact => BatchSize > 1)
  /\ opt \in BOOLEAN
  /\ list = <<>> /\ batch = <<>>
  /\ waiting = 0 /\ sem = 0
  /\ flushing = FALSE /\ flushed = TRUE
  /\ hr = "S_OK"
  /\ event = FALSE /\ terminate = FALSE
  /\ tpc = "top" /\ sending = <<>> /\ item = None
  /\ cpc = "idle" /\ spc = "idle"
  /\ dflush = FALSE
  /\ given = <<>> /\ last = 0 /\ early = FALSE

(* The lock is free unless the thread is in its inner loop: everybody      *)
(* else's critical sections are single steps.                              *)
Unlocked == tpc # "loop"

(* Faulty: the thread goes on being counted as waiting.                    *)
NotifyWithoutReset ==
  /\ sem' = sem + waiting
  /\ UNCHANGED waiting

NotifyThread ==
  /\ sem' = sem + waiting
  /\ waiting' = 0

----------------------------------------------------------------------------
(* The thread.                                                             *)

Enter ==
  /\ tpc = "top"
  /\ tpc' = "loop"
  /\ UNCHANGED <<conf, queue, signal, flush, hr, event, terminate, sending,
                 item, cpc, spc, dflush, hist>>

(* FreeSamples, and the end of the thread.                                 *)
Terminate ==
  /\ tpc = "loop" /\ terminate
  /\ list' = <<>> /\ batch' = <<>>
  /\ tpc' = "done"
  /\ UNCHANGED <<conf, signal, flush, hr, event, terminate, sending, item, cpc,
                 spc, dflush, hist>>

(* Faulty: what has been batched stays.                                    *)
FlushList ==
  /\ tpc = "loop" /\ ~terminate /\ flushing
  /\ list' = <<>>
  /\ event' = TRUE
  /\ waiting' = waiting + 1
  /\ tpc' = "wait"
  /\ UNCHANGED <<conf, batch, sem, flush, hr, terminate, sending, item, cpc,
                 spc, dflush, hist>>

(* FreeSamples; with nothing left the thread goes to sleep.                *)
FlushQueue ==
  /\ tpc = "loop" /\ ~terminate /\ flushing
  /\ list' = <<>> /\ batch' = <<>>
  /\ event' = TRUE
  /\ waiting' = waiting + 1
  /\ tpc' = "wait"
  /\ UNCHANGED <<conf, sem, flush, hr, terminate, sending, item, cpc, spc,
                 dflush, hist>>

Looking == tpc = "loop" /\ ~terminate /\ ~flushing

(* Takes b out of the shared batch and leaves the lock.                    *)
LeaveWith(b, packet) ==
  /\ sending' = b
  /\ batch' = <<>>
  /\ item' = packet
  /\ tpc' = "send"

TakeSample ==
  /\ Looking
  /\ list # <<>> /\ Head(list).kind = "sample"
  /\ list' = Tail(list)
  /\ LET b == Append(batch, Head(list))
     IN  IF Len(b) = BatchSize
         THEN LeaveWith(b, None)
         ELSE batch' = b /\ UNCHANGED thread
  /\ UNCHANGED <<conf, signal, flush, hr, event, terminate, cpc, spc, dflush, hist>>

(* SEND_PACKET counts only with something to send.                         *)
TakeSend ==
  /\ Looking
  /\ list # <<>> /\ Head(list) = Send
  /\ list' = Tail(list)
  /\ IF batch = <<>> THEN UNCHANGED <<batch, thread>> ELSE LeaveWith(batch, None)
  /\ UNCHANGED <<conf, signal, flush, hr, event, terminate, cpc, spc, dflush, hist>>

TakePacket ==
  /\ Looking
  /\ list # <<>> /\ Head(list).kind \in {"eos", "segment", "reset"}
  /\ list' = Tail(list)
  /\ LeaveWith(batch, Head(list))
  /\ UNCHANGED <<conf, signal, flush, hr, event, terminate, cpc, spc, dflush, hist>>

(* Nothing more to come: an incomplete batch goes out.                     *)
TakeNothing ==
  /\ Looking
  /\ list = <<>> /\ ~exact /\ batch # <<>>
  /\ LeaveWith(batch, None)
  /\ UNCHANGED <<conf, list, signal, flush, hr, event, terminate, cpc, spc,
                 dflush, hist>>

Sleep ==
  /\ Looking
  /\ list = <<>> /\ (exact \/ batch = <<>>)
  /\ waiting' = waiting + 1
  /\ tpc' = "wait"
  /\ UNCHANGED <<conf, queue, sem, flush, hr, event, terminate, sending, item,
                 cpc, spc, dflush, hist>>

Wake ==
  /\ tpc = "wait" /\ sem > 0
  /\ sem' = sem - 1
  /\ tpc' = "top"
  /\ UNCHANGED <<conf, queue, waiting, flush, hr, event, terminate, sending,
                 item, cpc, spc, dflush, hist>>

(* Reads m_hr without the lock, and calls ReceiveMultiple downstream or    *)
(* releases the samples.                                                   *)
SendBatch ==
  /\ tpc = "send"
  /\ IF sending # <<>> /\ hr = "S_OK"
     THEN tpc' = "receiving" /\ given' = sending
     ELSE tpc' = "packet" /\ UNCHANGED given
  /\ sending' = <<>>
  /\ UNCHANGED <<conf, queue, signal, flush, hr, event, terminate, item, cpc,
                 spc, dflush, last, early>>

(* Faulty: the result replaces what a flush has put into m_hr.             *)
ReceivedLast(result) ==
  /\ tpc = "receiving"
  /\ hr' = result
  /\ tpc' = "packet"
  /\ UNCHANGED <<conf, queue, signal, flush, event, terminate, sending, item,
                 cpc, spc, dflush, hist>>

(* ReceiveMultiple is back; a result kept from a flush is not overwritten. *)
Received(result) ==
  /\ tpc = "receiving"
  /\ hr' = IF hr = "S_OK" THEN result ELSE hr
  /\ tpc' = "packet"
  /\ UNCHANGED <<conf, queue, signal, flush, event, terminate, sending, item,
                 cpc, spc, dflush, hist>>

(* EndOfStream and NewSegment go downstream, the first unless failing;     *)
(* RESET_PACKET restores m_hr, without the lock.                           *)
Packet ==
  /\ tpc = "packet"
  /\ given' = IF item.kind = "segment" \/ (item.kind = "eos" /\ hr = "S_OK")
              THEN <<item>> ELSE given
  /\ hr' = IF item = Reset THEN "S_OK" ELSE hr
  /\ tpc' = IF item = Reset THEN "reset" ELSE "top"
  /\ item' = None
  /\ UNCHANGED <<conf, queue, signal, flush, event, terminate, sending, cpc,
                 spc, dflush, last, early>>

PacketDone ==
  /\ tpc = "reset"
  /\ event' = TRUE
  /\ tpc' = "top"
  /\ UNCHANGED <<conf, queue, signal, flush, hr, terminate, sending, item, cpc,
                 spc, dflush, hist>>

----------------------------------------------------------------------------
(* The controlling thread.                                                 *)

(* Faulty: the thread is not told.                                         *)
BeginFlushQuietly ==
  /\ cpc = "idle" /\ Unlocked
  /\ flushing' = TRUE
  /\ hr' = "S_FALSE"
  /\ IF flushed /\ opt
     THEN cpc' = "flushing" /\ UNCHANGED event
     ELSE cpc' = "begin" /\ event' = FALSE
  /\ UNCHANGED <<conf, queue, signal, flushed, terminate, thread, spc, dflush, hist>>

(* With the optimization a flush of an unused queue goes no further.       *)
BeginFlush ==
  /\ cpc = "idle" /\ Unlocked
  /\ flushing' = TRUE
  /\ hr' = "S_FALSE"
  /\ IF flushed /\ opt
     THEN cpc' = "flushing" /\ UNCHANGED <<event, signal>>
     ELSE cpc' = "begin" /\ event' = FALSE /\ NotifyThread
  /\ UNCHANGED <<conf, queue, flushed, terminate, thread, spc, dflush, hist>>

PassBegin ==
  /\ cpc = "begin"
  /\ dflush' = TRUE
  /\ cpc' = "flushing"
  /\ UNCHANGED <<conf, queue, signal, flush, hr, event, terminate, thread, spc, hist>>

EndFlush ==
  /\ cpc = "flushing" /\ Unlocked
  /\ IF opt /\ flushed
     THEN flushing' = FALSE /\ hr' = "S_OK" /\ cpc' = "idle"
     ELSE cpc' = "wait" /\ UNCHANGED <<flushing, hr>>
  /\ UNCHANGED <<conf, queue, signal, flushed, event, terminate, thread, spc,
                 dflush, hist>>

FlushComplete ==
  /\ cpc = "wait" /\ event
  /\ event' = FALSE
  /\ cpc' = "clear"
  /\ UNCHANGED <<conf, queue, signal, flush, hr, terminate, thread, spc, dflush, hist>>

ClearFlushing ==
  /\ cpc = "clear"
  /\ flushing' = FALSE /\ flushed' = TRUE
  /\ cpc' = "endpin"
  /\ UNCHANGED <<conf, queue, signal, hr, event, terminate, thread, spc, dflush, hist>>

PassEnd ==
  /\ cpc = "endpin"
  /\ dflush' = FALSE
  /\ cpc' = "ok"
  /\ UNCHANGED <<conf, queue, signal, flush, hr, event, terminate, thread, spc, hist>>

Restore ==
  /\ cpc = "ok"
  /\ hr' = "S_OK"
  /\ cpc' = "idle"
  /\ UNCHANGED <<conf, queue, signal, flush, event, terminate, thread, spc,
                 dflush, hist>>

ResetQueue ==
  /\ cpc = "idle" /\ Unlocked
  /\ list' = Append(list, Reset)
  /\ NotifyThread
  /\ cpc' = "reset"
  /\ UNCHANGED <<conf, batch, flush, hr, event, terminate, thread, spc, dflush, hist>>

ResetPending ==
  \/ tpc = "reset"
  \/ item = Reset
  \/ \E i \in DOMAIN list : list[i] = Reset

ResetReturns ==
  /\ cpc = "reset" /\ event
  /\ event' = FALSE
  /\ early' = (early \/ ResetPending)
  /\ cpc' = "idle"
  /\ UNCHANGED <<conf, queue, signal, flush, hr, terminate, thread, spc, dflush,
                 given, last>>

(* The destructor, once the streaming thread is out.                       *)
Destroy ==
  /\ cpc = "idle" /\ spc = "idle" /\ Unlocked
  /\ terminate' = TRUE
  /\ hr' = "S_FALSE"
  /\ NotifyThread
  /\ cpc' = "join"
  /\ UNCHANGED <<conf, queue, flush, event, thread, spc, dflush, hist>>

Join ==
  /\ cpc = "join" /\ tpc = "done"
  /\ cpc' = "gone"
  /\ UNCHANGED <<conf, queue, signal, flush, hr, event, terminate, thread, spc,
                 dflush, hist>>

----------------------------------------------------------------------------
(* The streaming thread.                                                   *)

MayStream ==
  /\ spc = "idle" /\ cpc \notin {"wait", "clear", "endpin", "ok", "join", "gone"}

Room == Len(list) < MaxList

(* Entries of the list: a segment and its parameters are two.              *)
GetCount(l) ==
  Len(l) + Cardinality({i \in DOMAIN l : l[i].kind = "segment"})

(* The next k items, all of one kind.                                      *)
Fresh(kind, k) == [i \in 1..k |-> [kind |-> kind, n |-> last + i]]

Accepts(kind, k) ==
  /\ last + k <= MaxItems /\ Room
  /\ list' = list \o Fresh(kind, k)
  /\ last' = last + k

(* Faulty: a batch just filled does not wake the thread.                   *)
ReceiveMore(k) ==
  /\ MayStream /\ Unlocked /\ hr = "S_OK"
  /\ Accepts("sample", k)
  /\ flushed' = FALSE
  /\ IF ~exact \/ Len(batch) + GetCount(list') > BatchSize
     THEN NotifyThread ELSE UNCHANGED signal
  /\ UNCHANGED <<conf, batch, flushing, hr, event, terminate, thread, cpc, spc,
                 dflush, given, early>>

ReceiveMultiple(k) ==
  /\ MayStream /\ Unlocked /\ hr = "S_OK"
  /\ Accepts("sample", k)
  /\ flushed' = FALSE
  /\ IF ~exact \/ Len(batch) + GetCount(list') >= BatchSize
     THEN NotifyThread ELSE UNCHANGED signal
  /\ UNCHANGED <<conf, batch, flushing, hr, event, terminate, thread, cpc, spc,
                 dflush, given, early>>

EOS ==
  /\ MayStream /\ Unlocked /\ hr = "S_OK"
  /\ Accepts("eos", 1)
  /\ flushed' = FALSE
  /\ NotifyThread
  /\ UNCHANGED <<conf, batch, flushing, hr, event, terminate, thread, cpc, spc,
                 dflush, given, early>>

SendAnyway ==
  /\ MayStream /\ Unlocked /\ Room
  /\ list' = Append(list, Send)
  /\ NotifyThread
  /\ UNCHANGED <<conf, batch, flush, hr, event, terminate, thread, cpc, spc,
                 dflush, hist>>

(* NewSegment reads m_hr before it takes the lock.                         *)
NewSegment ==
  /\ MayStream /\ hr = "S_OK"
  /\ spc' = "segment"
  /\ UNCHANGED <<conf, queue, signal, flush, hr, event, terminate, thread, cpc,
                 dflush, hist>>

QueueSegment ==
  /\ spc = "segment" /\ Unlocked
  /\ Accepts("segment", 1)
  /\ NotifyThread
  /\ spc' = "idle"
  /\ UNCHANGED <<conf, batch, flush, hr, event, terminate, thread, cpc, dflush,
                 given, early>>

----------------------------------------------------------------------------
ThreadStep ==
  \/ Enter \/ Terminate \/ FlushQueue
  \/ TakeSample \/ TakeSend \/ TakePacket \/ TakeNothing \/ Sleep \/ Wake
  \/ SendBatch \/ Packet \/ PacketDone

Returns == \E result \in {"S_OK", "S_FALSE"} : Received(result)

Call == BeginFlush \/ EndFlush \/ ResetQueue \/ Destroy

ControlStep ==
  \/ PassBegin \/ FlushComplete \/ ClearFlushing \/ PassEnd \/ Restore
  \/ ResetReturns \/ Join

Stream ==
  \/ \E k \in 1..BatchSize : ReceiveMultiple(k)
  \/ EOS \/ SendAnyway \/ NewSegment \/ QueueSegment

Next == ThreadStep \/ Returns \/ Call \/ ControlStep \/ Stream

Spec == Init /\ [][Next]_vars

(* The threads go on.  ReceiveMultiple may block downstream for as long as *)
(* nobody flushes it or takes the filter down.                             *)
FairSpec ==
  /\ Spec
  /\ WF_vars(ThreadStep) /\ WF_vars(ControlStep) /\ WF_vars(EndFlush)
  /\ WF_vars((dflush \/ terminate) /\ Returns)

----------------------------------------------------------------------------
IsData(i) == i.kind \in Data

Datum(i) == IF IsData(i) THEN <<i>> ELSE <<>>

(* The data among the entries of a list, in their order.                   *)
DataOf(s) ==
  LET upTo[k \in 0..Len(s)] ==
        IF k = 0 THEN <<>> ELSE upTo[k - 1] \o Datum(s[k])
  IN  upTo[Len(s)]

(* Accepted and not yet given downstream, oldest first.                    *)
Pending == sending \o Datum(item) \o batch \o DataOf(list)

(* No wake-up is lost: a thread asleep without a token has nothing to do   *)
(* (no full batch, no packet, no end), and has answered the flush that     *)
(* waits for it.                                                           *)
NoLostWakeup ==
  tpc = "wait" /\ sem = 0 =>
    /\ ~terminate
    /\ cpc = "wait" => event
    /\ IF exact
       THEN /\ \A i \in DOMAIN list : list[i].kind = "sample"
            /\ Len(batch) + Len(list) < BatchSize
       ELSE list = <<>>

Holds(q) == \E i \in DOMAIN q : q[i].kind \in {"sample", "eos"}

Empty ==
  /\ ~Holds(list) /\ ~Holds(batch) /\ ~Holds(sending)
  /\ item.kind # "eos"
  /\ tpc # "receiving"

(* What the flushing optimization and the two ASSERT(!m_bFlushed) of the   *)
(* thread rest on: once m_bFlushed is set, no sample and no end of stream  *)
(* accepted before the flush is left, in the queue or on its way.          *)
FlushedMeansEmpty == flushed /\ ~early => Empty

(* The thread sleeps only on nothing to do, and a flush leaves nothing to  *)
(* be done.                                                                *)
QueueAwake == TypeOK /\ NoLostWakeup /\ FlushedMeansEmpty

(* The queue is a FIFO that drops nothing unless it is failing.            *)
Abstract == INSTANCE Fifo WITH
  pending <- Pending, given <- given, failing <- (hr # "S_OK" \/ early)
FifoSpec == Abstract!Spec

(* EndFlush comes back from its wait for the thread, whatever the thread   *)
(* was doing: also out of a call that blocks downstream until the flush.   *)
EndFlushReturns == cpc = "wait" ~> cpc = "idle"
=============================================================================
