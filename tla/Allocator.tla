----------------------------- MODULE Allocator -----------------------------
(***************************************************************************)
(* CBaseAllocator, CMemAllocator and the reference counts of CMediaSample  *)
(* (amfilter.cpp): the pool of media samples of a connection, shared by    *)
(* the threads of the two filters it connects.                             *)
(*                                                                         *)
(* One step per critical section of the allocator, and the steps outside   *)
(* of it on their own: the wait for the semaphore, the last release of a   *)
(* sample, what ReleaseBuffer does after it has left the critical section. *)
(* The free list is a set: which free sample GetBuffer takes is of no      *)
(* consequence.  A sample is a number; reallocation gives the numbers      *)
(* 1..m_lCount.                                                            *)
(***************************************************************************)
EXTENDS Integers, FiniteSets

CONSTANTS
  Threads,     (* threads that use the allocator or its samples            *)
  MaxCount,    (* bound: buffers asked for by SetProperties                *)
  MaxRefs,     (* bound: references to one sample                          *)
  MaxTokens    (* bound: refused no-wait calls not yet paid back           *)

ASSUME ThreadsAssumption  == IsFiniteSet(Threads)
ASSUME MaxCountAssumption == MaxCount \in Nat \ {0}
ASSUME MaxRefsAssumption  == MaxRefs \in Nat \ {0}

VARIABLES
  committed,   (* m_bCommitted                                             *)
  pending,     (* m_bDecommitInProgress                                    *)
  count,       (* m_lCount                                                 *)
  changed,     (* m_bChanged                                               *)
  allocated,   (* m_lAllocated                                             *)
  free,        (* m_lFree                                                  *)
  waiting,     (* m_lWaiting                                               *)
  tokens,      (* count of the semaphore m_hSem                            *)
  refs,        (* m_cRef of each sample                                    *)
  selfRefs,    (* references the allocator holds on itself                 *)
  users,       (* threads that hold a reference to the allocator           *)
  pc,          (* where each thread is                                     *)
  sample       (* the sample a thread is giving back                       *)

pool  == <<count, changed, allocated>>
sem   == <<waiting, tokens>>
vars  == <<committed, pending, pool, free, sem, refs, selfRefs, users, pc, sample>>

Samples == 1..allocated
(* Faulty: a free sample is taken for all of them.                         *)
SomeFree == free # {} \/ Samples = {}

AllFree == free = Samples

(* The allocator is deleted with its last reference.                       *)
Alive == users # {} \/ selfRefs > 0

TypeOK ==
  /\ committed \in BOOLEAN /\ pending \in BOOLEAN /\ changed \in BOOLEAN
  /\ count \in 0..MaxCount
  /\ allocated \in 0..MaxCount
  /\ free \subseteq Samples
  /\ waiting \in Nat /\ tokens \in Nat
  /\ refs \in [1..MaxCount -> 0..MaxRefs]
  /\ selfRefs \in Nat
  /\ users \subseteq Threads
  /\ pc \in [Threads -> {"idle", "get", "wait", "release", "notify",
                         "notifyDrop", "drop"}]
  /\ sample \in [Threads -> 0..MaxCount]

(* A connection just agreed: nothing is set, each side holds a reference.  *)
Init ==
  /\ committed = FALSE /\ pending = FALSE /\ changed = FALSE
  /\ count = 0 /\ allocated = 0 /\ free = {}
  /\ waiting = 0 /\ tokens = 0
  /\ refs = [s \in 1..MaxCount |-> 0]
  /\ selfRefs = 0
  /\ users = Threads
  /\ pc = [t \in Threads |-> "idle"]
  /\ sample = [t \in Threads |-> 0]

Idle(t)     == pc[t] = "idle"
User(t)     == Idle(t) /\ t \in users
Goto(t, to) == pc' = [pc EXCEPT ![t] = to]

----------------------------------------------------------------------------
(* Calls through the interface, by a thread that holds a reference.        *)

SetProperties(t, n) ==
  /\ User(t)
  /\ ~committed /\ AllFree
  /\ count' = n
  /\ changed' = TRUE
  /\ UNCHANGED <<committed, pending, allocated, free, sem, refs, selfRefs,
                 users, pc, sample>>

(* A pending decommit is cancelled; otherwise Alloc runs and the allocator *)
(* takes a reference on itself.                                            *)
CommitCancel(t) ==
  /\ User(t)
  /\ ~committed /\ pending
  /\ committed' = TRUE
  /\ pending' = FALSE
  /\ UNCHANGED <<pool, free, sem, refs, selfRefs, users, pc, sample>>

(* With unchanged requirements the samples of the last commit are kept.    *)
CommitAlloc(t) ==
  /\ User(t)
  /\ ~committed /\ ~pending /\ count > 0
  /\ committed' = TRUE
  /\ selfRefs' = selfRefs + 1
  /\ IF changed
     THEN /\ allocated' = count
          /\ free' = 1..count
          /\ changed' = FALSE
     ELSE UNCHANGED <<allocated, free, changed>>
  /\ UNCHANGED <<pending, count, sem, refs, users, pc, sample>>

(* The memory, or one of the samples, cannot be had.                       *)
CommitFails(t, made) ==
  /\ User(t)
  /\ ~committed /\ ~pending /\ changed /\ made < count
  /\ allocated' = made
  /\ free' = 1..made
  /\ UNCHANGED <<committed, pending, count, changed, sem, refs, selfRefs,
                 users, pc, sample>>

(* Faulty: one token, however many wait.                                   *)
NotifyOne ==
  /\ tokens' = IF waiting > 0 THEN tokens + 1 ELSE tokens
  /\ waiting' = 0

(* NotifySample: one token for each thread that said it would wait.        *)
NotifySample ==
  /\ tokens' = tokens + waiting
  /\ waiting' = 0

(* Faulty: drops the reference while samples are out.                      *)
DecommitDrops(t) ==
  /\ User(t)
  /\ committed \/ pending
  /\ committed' = FALSE
  /\ pending' = ~AllFree
  /\ Goto(t, "drop")
  /\ NotifySample
  /\ UNCHANGED <<pool, free, refs, selfRefs, users, sample>>

Decommit(t) ==
  /\ User(t)
  /\ committed \/ pending
  /\ committed' = FALSE
  /\ pending' = ~AllFree
  /\ Goto(t, IF AllFree THEN "drop" ELSE "idle")
  /\ NotifySample
  /\ UNCHANGED <<pool, free, refs, selfRefs, users, sample>>

(* Release of a reference to the allocator: its caller is done with it.    *)
Leave(t) ==
  /\ User(t)
  /\ users' = users \ {t}
  /\ UNCHANGED <<committed, pending, pool, free, sem, refs, selfRefs, pc, sample>>

----------------------------------------------------------------------------
(* GetBuffer.                                                              *)

GetBuffer(t) ==
  /\ User(t)
  /\ Goto(t, "get")
  /\ UNCHANGED <<committed, pending, pool, free, sem, refs, selfRefs, users, sample>>

GetRefused(t) ==
  /\ pc[t] = "get"
  /\ ~committed
  /\ Goto(t, "idle")
  /\ UNCHANGED <<committed, pending, pool, free, sem, refs, selfRefs, users, sample>>

(* Faulty: the sample stays on the free list.                              *)
GetSampleLeft(t, s) ==
  /\ pc[t] = "get"
  /\ committed /\ s \in free
  /\ refs' = [refs EXCEPT ![s] = 1]
  /\ Goto(t, "idle")
  /\ UNCHANGED <<committed, pending, pool, free, sem, selfRefs, users, sample>>

GetSample(t, s) ==
  /\ pc[t] = "get"
  /\ committed /\ s \in free
  /\ free' = free \ {s}
  /\ refs' = [refs EXCEPT ![s] = 1]
  /\ Goto(t, "idle")
  /\ UNCHANGED <<committed, pending, pool, sem, selfRefs, users, sample>>

(* SetWaiting.  A no-wait caller is counted too, and does not wait.        *)
GetWaits(t, nowait) ==
  /\ pc[t] = "get"
  /\ committed /\ free = {}
  /\ nowait => waiting + tokens < MaxTokens
  /\ waiting' = waiting + 1
  /\ Goto(t, IF nowait THEN "idle" ELSE "wait")
  /\ UNCHANGED <<committed, pending, pool, free, tokens, refs, selfRefs, users, sample>>

(* Faulty: waits on unless the allocator is committed.                     *)
WakeCommitted(t) ==
  /\ pc[t] = "wait"
  /\ tokens > 0 /\ committed
  /\ tokens' = tokens - 1
  /\ Goto(t, "get")
  /\ UNCHANGED <<committed, pending, pool, free, waiting, refs, selfRefs, users, sample>>

Wake(t) ==
  /\ pc[t] = "wait"
  /\ tokens > 0
  /\ tokens' = tokens - 1
  /\ Goto(t, "get")
  /\ UNCHANGED <<committed, pending, pool, free, waiting, refs, selfRefs, users, sample>>

----------------------------------------------------------------------------
(* CMediaSample's AddRef and Release, by whoever holds a reference to the  *)
(* sample; such a thread need not hold one to the allocator.  Release      *)
(* takes the count down without a lock only when it is the sole holder.    *)
SampleAddRef(t, s) ==
  /\ Idle(t)
  /\ refs[s] \in 1..(MaxRefs - 1)
  /\ refs' = [refs EXCEPT ![s] = @ + 1]
  /\ UNCHANGED <<committed, pending, pool, free, sem, selfRefs, users, pc, sample>>

SampleRelease(t, s) ==
  /\ Idle(t)
  /\ refs[s] > 0
  /\ refs' = [refs EXCEPT ![s] = @ - 1]
  /\ IF refs[s] = 1
     THEN Goto(t, "release") /\ sample' = [sample EXCEPT ![t] = s]
     ELSE UNCHANGED <<pc, sample>>
  /\ UNCHANGED <<committed, pending, pool, free, sem, selfRefs, users>>

(* Faulty: drops the reference whenever all samples are back.              *)
ReleaseBufferDrops(t) ==
  LET completes == free \cup {sample[t]} = Samples
  IN  /\ pc[t] = "release"
      /\ free' = free \cup {sample[t]}
      /\ NotifySample
      /\ pending' = (pending /\ ~completes)
      /\ Goto(t, IF completes THEN "notifyDrop" ELSE "notify")
      /\ sample' = [sample EXCEPT ![t] = 0]
      /\ UNCHANGED <<committed, pool, refs, selfRefs, users>>

(* ReleaseBuffer, inside the critical section: the last sample to come     *)
(* back completes a pending decommit.                                      *)
ReleaseBuffer(t) ==
  LET completes == pending /\ free \cup {sample[t]} = Samples
  IN  /\ pc[t] = "release"
      /\ free' = free \cup {sample[t]}
      /\ NotifySample
      /\ pending' = (pending /\ ~completes)
      /\ Goto(t, IF completes THEN "notifyDrop" ELSE "notify")
      /\ sample' = [sample EXCEPT ![t] = 0]
      /\ UNCHANGED <<committed, pool, refs, selfRefs, users>>

(* Outside of it: m_pNotify is read, then bRelease decides.                *)
Notify(t) ==
  /\ pc[t] \in {"notify", "notifyDrop"}
  /\ Goto(t, IF pc[t] = "notifyDrop" THEN "drop" ELSE "idle")
  /\ UNCHANGED <<committed, pending, pool, free, sem, refs, selfRefs, users, sample>>

(* The Release that ends ReleaseBuffer and Decommit.                       *)
Drop(t) ==
  /\ pc[t] = "drop"
  /\ selfRefs' = selfRefs - 1
  /\ Goto(t, "idle")
  /\ UNCHANGED <<committed, pending, pool, free, sem, refs, users, sample>>

----------------------------------------------------------------------------
Calls(t) ==
  \/ \E n \in 0..MaxCount : SetProperties(t, n) \/ CommitFails(t, n)
  \/ CommitCancel(t) \/ CommitAlloc(t) \/ Decommit(t) \/ Leave(t)
  \/ GetBuffer(t)
  \/ \E s \in 1..MaxCount : SampleAddRef(t, s) \/ SampleRelease(t, s)

GoesOn(t) ==
  \/ GetRefused(t) \/ (\E s \in free : GetSample(t, s))
  \/ (\E nowait \in BOOLEAN : GetWaits(t, nowait)) \/ Wake(t)
  \/ ReleaseBuffer(t) \/ Notify(t) \/ Drop(t)

Next == \E t \in Threads : Calls(t) \/ GoesOn(t)

Spec == Init /\ [][Next]_vars

(* A thread inside a call goes on.                                         *)
FairSpec == Spec /\ \A t \in Threads : WF_vars(GoesOn(t))

----------------------------------------------------------------------------
Waiters == {t \in Threads : pc[t] = "wait"}
Outstanding == Samples \ free

(* No wake-up is lost: when a sample is free, or there is nothing more to  *)
(* wait for, every thread in the wait has its token.                       *)
NoLostWakeup == (free # {} \/ ~committed) => Cardinality(Waiters) <= tokens

(* The allocator outlives the samples it has given out: it holds one       *)
(* reference on itself from a commit until the last of them is back.       *)
OutstandingKeepsAlive == Outstanding # {} => Alive

(* A sample on the free list is referenced by nobody and given back by     *)
(* nobody, and no two threads give back the same sample.                   *)
OneOwner ==
  /\ \A s \in free : refs[s] = 0
  /\ \A t \in Threads : pc[t] = "release" =>
       /\ sample[t] \in Outstanding /\ refs[sample[t]] = 0
       /\ \A u \in Threads \ {t} : pc[u] = "release" => sample[u] # sample[t]

(* The pool under GetBuffer, Release, Commit and Decommit of any threads:  *)
(* it outlives its samples, and none of them is in two hands.              *)
PoolSafe == TypeOK /\ OutstandingKeepsAlive /\ OneOwner

(* Samples are reallocated only when none of them is out.                  *)
ReallocWhenFree == [][allocated' # allocated => Outstanding = {}]_vars

(* Once the allocator is decommitted a blocked GetBuffer comes back.       *)
DecommitUnblocks ==
  \A t \in Threads :
    (pc[t] = "wait" /\ ~committed) ~> (pc[t] # "wait" \/ committed)

(* ReleaseBuffer works on a live allocator to its end ("We also need to    *)
(* hold a refcount on the allocator to stop that going away until we have  *)
(* finished with this").                                                   *)
LiveToTheEnd ==
  \A t \in Threads : pc[t] \in {"notify", "notifyDrop", "drop"} => Alive
=============================================================================
