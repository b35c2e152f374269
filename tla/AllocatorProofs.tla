-------------------------- MODULE AllocatorProofs --------------------------
(***************************************************************************)
(* Proofs about the sample pool of Allocator, for every finite set of      *)
(* threads, every number of buffers and every bound: no lost wake-up, one  *)
(* owner per sample, and an allocator that outlives its samples.           *)
(***************************************************************************)
EXTENDS Allocator, FiniteSetTheorems, TLAPS

(* Threads about to give up the allocator's reference on itself.           *)
Dropping == {t \in Threads : pc[t] \in {"drop", "notifyDrop"}}

(* m_lWaiting and the semaphore together cover the threads in the wait;    *)
(* nobody is counted while a sample is free or after a decommit.           *)
Counted ==
  /\ (free # {} \/ ~committed) => waiting = 0
  /\ Cardinality(Waiters) <= waiting + tokens

(* Outstanding samples keep the allocator committed or a decommit pending, *)
(* and one reference belongs to that condition.                            *)
Held ==
  /\ ~(committed /\ pending)
  /\ Outstanding # {} => committed \/ pending
  /\ selfRefs = Cardinality(Dropping) + IF committed \/ pending THEN 1 ELSE 0

(* A sample that is referenced is outstanding.                             *)
Owned == OneOwner /\ \A s \in 1..MaxCount : refs[s] > 0 => s \in Outstanding

Inductive == TypeOK /\ Counted /\ Held /\ Owned

USE ThreadsAssumption, MaxCountAssumption, MaxRefsAssumption
USE DEF pool, sem

----------------------------------------------------------------------------
(* Moving one thread changes the two sets of threads by that thread.       *)
LEMMA GotoWaiters ==
  ASSUME TypeOK, NEW t \in Threads, NEW to, Goto(t, to)
  PROVE  Waiters' = IF to = "wait" THEN Waiters \cup {t} ELSE Waiters \ {t}
BY DEF TypeOK, Goto, Waiters

LEMMA GotoDropping ==
  ASSUME TypeOK, NEW t \in Threads, NEW to, Goto(t, to)
  PROVE  Dropping' = IF to \in {"drop", "notifyDrop"}
                     THEN Dropping \cup {t} ELSE Dropping \ {t}
BY DEF TypeOK, Goto, Dropping

LEMMA FiniteGroups ==
  /\ IsFiniteSet(Waiters) /\ Cardinality(Waiters) \in Nat
  /\ IsFiniteSet(Dropping) /\ Cardinality(Dropping) \in Nat
<1>1. Waiters \subseteq Threads /\ Dropping \subseteq Threads
  BY DEF Waiters, Dropping
<1>2. IsFiniteSet(Waiters) /\ IsFiniteSet(Dropping)
  BY <1>1, FS_Subset
<1> QED
  BY <1>2, FS_CardinalityType

(* The sizes of the two sets before and after such a move.                 *)
LEMMA CountWaiters ==
  ASSUME TypeOK, NEW t \in Threads, NEW to, Goto(t, to)
  PROVE  /\ Cardinality(Waiters') \in Nat
         /\ Cardinality(Waiters') + (IF pc[t] = "wait" THEN 1 ELSE 0)
            = Cardinality(Waiters) + (IF to = "wait" THEN 1 ELSE 0)
<1>1. Waiters' = IF to = "wait" THEN Waiters \cup {t} ELSE Waiters \ {t}
  BY GotoWaiters
<1>2. t \in Waiters <=> pc[t] = "wait"
  BY DEF Waiters
<1>3. Cardinality(Waiters') \in Nat
  <2>1. Waiters' \subseteq Threads
    BY DEF Waiters
  <2> QED
    BY <2>1, FS_Subset, FS_CardinalityType
<1>4. CASE to = "wait"
  <2>1. Cardinality(Waiters') = IF t \in Waiters THEN Cardinality(Waiters)
                                ELSE Cardinality(Waiters) + 1
    BY <1>1, <1>4, FiniteGroups, FS_AddElement
  <2> QED
    BY <2>1, <1>2, <1>4, <1>3, FiniteGroups
<1>5. CASE to # "wait"
  <2>1. Cardinality(Waiters') = IF t \in Waiters THEN Cardinality(Waiters) - 1
                                ELSE Cardinality(Waiters)
    BY <1>1, <1>5, FiniteGroups, FS_RemoveElement
  <2> QED
    BY <2>1, <1>2, <1>5, <1>3, FiniteGroups
<1> QED
  BY <1>3, <1>4, <1>5

LEMMA CountDropping ==
  ASSUME TypeOK, NEW t \in Threads, NEW to, Goto(t, to)
  PROVE  /\ Cardinality(Dropping') \in Nat
         /\ Cardinality(Dropping')
              + (IF pc[t] \in {"drop", "notifyDrop"} THEN 1 ELSE 0)
            = Cardinality(Dropping)
              + (IF to \in {"drop", "notifyDrop"} THEN 1 ELSE 0)
<1> DEFINE D == {"drop", "notifyDrop"}
<1>1. Dropping' = IF to \in D THEN Dropping \cup {t} ELSE Dropping \ {t}
  BY GotoDropping
<1>2. t \in Dropping <=> pc[t] \in D
  BY DEF Dropping
<1> HIDE DEF D
<1>3. Cardinality(Dropping') \in Nat
  <2>1. Dropping' \subseteq Threads
    BY DEF Dropping
  <2> QED
    BY <2>1, FS_Subset, FS_CardinalityType
<1>4. CASE to \in D
  <2>1. Cardinality(Dropping') = IF t \in Dropping THEN Cardinality(Dropping)
                                 ELSE Cardinality(Dropping) + 1
    BY <1>1, <1>4, FiniteGroups, FS_AddElement
  <2> QED
    BY <2>1, <1>2, <1>4, <1>3, FiniteGroups DEF D
<1>5. CASE to \notin D
  <2>1. Cardinality(Dropping') = IF t \in Dropping THEN Cardinality(Dropping) - 1
                                 ELSE Cardinality(Dropping)
    BY <1>1, <1>5, FiniteGroups, FS_RemoveElement
  <2> QED
    BY <2>1, <1>2, <1>5, <1>3, FiniteGroups DEF D
<1> QED
  BY <1>3, <1>4, <1>5

(* Without a move the sets stay.                                           *)
LEMMA NoMove ==
  ASSUME pc' = pc
  PROVE  Waiters' = Waiters /\ Dropping' = Dropping
BY DEF Waiters, Dropping

LEMMA InitInductive == Init => Inductive
<1> SUFFICES ASSUME Init PROVE Inductive
  OBVIOUS
<1> USE DEF Init
<1>1. TypeOK
  <2>1. 0 \in 0..MaxCount /\ 0 \in 0..MaxRefs
    OBVIOUS
  <2>2. refs \in [1..MaxCount -> 0..MaxRefs] /\ sample \in [Threads -> 0..MaxCount]
    BY <2>1
  <2> QED
    BY <2>1, <2>2 DEF TypeOK, Samples
<1>2. Waiters = {} /\ Dropping = {}
  BY DEF Waiters, Dropping
<1>3. Cardinality(Waiters) = 0 /\ Cardinality(Dropping) = 0
  BY <1>2, FS_EmptySet
<1>4. Outstanding = {}
  BY DEF Outstanding, Samples
<1> QED
  BY <1>1, <1>3, <1>4 DEF Inductive, Counted, Held, Owned, OneOwner

----------------------------------------------------------------------------
LEMMA TypeStep == Inductive /\ [Next]_vars => TypeOK'
<1> SUFFICES ASSUME Inductive, [Next]_vars PROVE TypeOK'
  OBVIOUS
<1> USE DEF Inductive, TypeOK, Samples
<1>1. CASE UNCHANGED vars
  BY <1>1 DEF vars
<1>2. ASSUME NEW t \in Threads, Calls(t) \/ GoesOn(t) PROVE TypeOK'
  <2> USE DEF Goto, User, Idle
  <2>1. ASSUME NEW n \in 0..MaxCount, SetProperties(t, n) PROVE TypeOK'
    BY <2>1 DEF SetProperties
  <2>2. ASSUME NEW n \in 0..MaxCount, CommitFails(t, n) PROVE TypeOK'
    BY <2>2 DEF CommitFails
  <2>3. CASE CommitCancel(t)
    BY <2>3 DEF CommitCancel
  <2>4. CASE CommitAlloc(t)
    <3>1. allocated' \in 0..MaxCount /\ free' \subseteq 1..allocated'
      <4>1. CASE changed
        BY <2>4, <4>1 DEF CommitAlloc
      <4>2. CASE ~changed
        BY <2>4, <4>2 DEF CommitAlloc
      <4> QED
        BY <4>1, <4>2
    <3>2. selfRefs' \in Nat
      BY <2>4 DEF CommitAlloc
    <3>3. changed' \in BOOLEAN
      BY <2>4 DEF CommitAlloc
    <3> QED
      BY <2>4, <3>1, <3>2, <3>3 DEF CommitAlloc
  <2>5. CASE Leave(t)
    BY <2>5 DEF Leave
  <2>6. CASE GetBuffer(t)
    BY <2>6 DEF GetBuffer
  <2>7. CASE Decommit(t)
    <3>1. pc' \in [Threads -> {"idle", "get", "wait", "release", "notify",
                               "notifyDrop", "drop"}]
      BY <2>7 DEF Decommit
    <3>2. tokens' \in Nat /\ waiting' \in Nat /\ pending' \in BOOLEAN
      BY <2>7 DEF Decommit, NotifySample, AllFree
    <3> QED
      BY <2>7, <3>1, <3>2 DEF Decommit
  <2>8. ASSUME NEW s \in 1..MaxCount, SampleAddRef(t, s) PROVE TypeOK'
    <3>1. refs[s] + 1 \in 0..MaxRefs
      BY <2>8 DEF SampleAddRef
    <3>2. refs' \in [1..MaxCount -> 0..MaxRefs]
      BY <2>8, <3>1 DEF SampleAddRef
    <3> QED
      BY <2>8, <3>2 DEF SampleAddRef
  <2>9. ASSUME NEW s \in 1..MaxCount, SampleRelease(t, s) PROVE TypeOK'
    <3>1. refs[s] - 1 \in 0..MaxRefs
      BY <2>9 DEF SampleRelease
    <3>2. refs' \in [1..MaxCount -> 0..MaxRefs]
      BY <2>9, <3>1 DEF SampleRelease
    <3>3. pc' \in [Threads -> {"idle", "get", "wait", "release", "notify",
                               "notifyDrop", "drop"}]
      BY <2>9 DEF SampleRelease
    <3>4. sample' \in [Threads -> 0..MaxCount]
      BY <2>9 DEF SampleRelease
    <3> QED
      BY <2>9, <3>2, <3>3, <3>4 DEF SampleRelease
  <2>10. CASE GetRefused(t)
    BY <2>10 DEF GetRefused
  <2>11. CASE Wake(t)
    BY <2>11 DEF Wake
  <2>12. CASE Notify(t)
    <3>1. pc' \in [Threads -> {"idle", "get", "wait", "release", "notify",
                               "notifyDrop", "drop"}]
      BY <2>12 DEF Notify
    <3> QED
      BY <2>12, <3>1 DEF Notify
  <2>13. ASSUME NEW s \in free, GetSample(t, s) PROVE TypeOK'
    <3>1. s \in 1..MaxCount /\ 1 \in 0..MaxRefs
      OBVIOUS
    <3>2. refs' \in [1..MaxCount -> 0..MaxRefs]
      BY <2>13, <3>1 DEF GetSample
    <3> QED
      BY <2>13, <3>2 DEF GetSample
  <2>14. ASSUME NEW nowait \in BOOLEAN, GetWaits(t, nowait) PROVE TypeOK'
    <3>1. pc' \in [Threads -> {"idle", "get", "wait", "release", "notify",
                               "notifyDrop", "drop"}]
      BY <2>14 DEF GetWaits
    <3> QED
      BY <2>14, <3>1 DEF GetWaits
  <2>15. CASE ReleaseBuffer(t)
    <3>1. pc' \in [Threads -> {"idle", "get", "wait", "release", "notify",
                               "notifyDrop", "drop"}]
      BY <2>15 DEF ReleaseBuffer
    <3>2. free' \subseteq Samples
      BY <2>15 DEF ReleaseBuffer, Owned, OneOwner, Outstanding
    <3>3. tokens' \in Nat /\ waiting' \in Nat /\ pending' \in BOOLEAN
      BY <2>15 DEF ReleaseBuffer, NotifySample
    <3>4. sample' \in [Threads -> 0..MaxCount]
      BY <2>15 DEF ReleaseBuffer
    <3> QED
      BY <2>15, <3>1, <3>2, <3>3, <3>4 DEF ReleaseBuffer
  <2>16. CASE Drop(t)
    <3>1. t \in Dropping
      BY <2>16 DEF Drop, Dropping
    <3>2. Cardinality(Dropping) # 0
      BY <3>1, FiniteGroups, FS_EmptySet
    <3>3. selfRefs - 1 \in Nat
      BY <3>2, FiniteGroups DEF Held
    <3> QED
      BY <2>16, <3>3 DEF Drop
  <2> QED
    BY <1>2, <2>1, <2>2, <2>3, <2>4, <2>5, <2>6, <2>7, <2>8, <2>9, <2>10,
       <2>11, <2>12, <2>13, <2>14, <2>15, <2>16
    DEF Calls, GoesOn
<1> QED
  BY <1>1, <1>2 DEF Next

----------------------------------------------------------------------------
LEMMA CountedStep == Inductive /\ [Next]_vars => Counted'
<1> SUFFICES ASSUME Inductive, [Next]_vars PROVE Counted'
  OBVIOUS
<1> DEFINE W == Cardinality(Waiters)
<1>1. /\ W \in Nat /\ waiting \in Nat /\ tokens \in Nat /\ W <= waiting + tokens
      /\ (free # {} \/ ~committed) => waiting = 0
      /\ TypeOK
  BY FiniteGroups DEF Inductive, TypeOK, Counted
<1>2. ASSUME (free' # {} \/ ~committed') => waiting' = 0,
             Cardinality(Waiters') <= waiting' + tokens'
      PROVE  Counted'
  BY <1>2 DEF Counted
<1>3. ASSUME pc' = pc, sem' = sem, (free' # {} \/ ~committed') => waiting = 0
      PROVE  Counted'
  BY <1>1, <1>2, <1>3, NoMove
<1>4. ASSUME NEW t \in Threads, NEW to, Goto(t, to), to # "wait", pc[t] # "wait",
             NotifySample \/ sem' = sem,
             sem' = sem => ((free' # {} \/ ~committed') => waiting = 0)
      PROVE  Counted'
  <2>1. Cardinality(Waiters') = W
    BY <1>1, <1>4, CountWaiters
  <2>2. CASE NotifySample
    <3>1. waiting' = 0 /\ waiting' + tokens' = waiting + tokens
      BY <1>1, <2>2 DEF NotifySample
    <3> QED
      BY <1>1, <1>2, <2>1, <3>1
  <2>3. CASE sem' = sem
    BY <1>1, <1>2, <1>4, <2>1, <2>3
  <2> QED
    BY <1>4, <2>2, <2>3
<1>5. CASE UNCHANGED vars
  BY <1>1, <1>3, <1>5 DEF vars
<1>6. ASSUME NEW t \in Threads, Calls(t) \/ GoesOn(t) PROVE Counted'
  <2> USE DEF User, Idle
  <2>1. ASSUME NEW n \in 0..MaxCount, SetProperties(t, n) PROVE Counted'
    BY <1>1, <1>3, <2>1 DEF SetProperties
  <2>2. ASSUME NEW n \in 0..MaxCount, CommitFails(t, n) PROVE Counted'
    BY <1>1, <1>3, <2>2 DEF CommitFails
  <2>3. CASE CommitCancel(t)
    BY <1>1, <1>3, <2>3 DEF CommitCancel
  <2>4. CASE CommitAlloc(t)
    BY <1>1, <1>3, <2>4 DEF CommitAlloc
  <2>5. CASE Leave(t)
    BY <1>1, <1>3, <2>5 DEF Leave
  <2>6. CASE GetBuffer(t)
    BY <1>1, <1>4, <2>6 DEF GetBuffer
  <2>7. CASE Decommit(t)
    <3> DEFINE to == IF AllFree THEN "drop" ELSE "idle"
    <3>1. Goto(t, to) /\ NotifySample /\ pc[t] # "wait" /\ to # "wait"
      BY <2>7 DEF Decommit
    <3>2. sem' = sem => ((free' # {} \/ ~committed') => waiting = 0)
      BY <3>1, <1>1 DEF NotifySample
    <3> QED
      BY <1>4, <3>1, <3>2
  <2>8. ASSUME NEW s \in 1..MaxCount, SampleAddRef(t, s) PROVE Counted'
    BY <1>1, <1>3, <2>8 DEF SampleAddRef
  <2>9. ASSUME NEW s \in 1..MaxCount, SampleRelease(t, s) PROVE Counted'
    <3>1. CASE refs[s] = 1
      BY <1>1, <1>4, <2>9, <3>1 DEF SampleRelease
    <3>2. CASE refs[s] # 1
      BY <1>1, <1>3, <2>9, <3>2 DEF SampleRelease
    <3> QED
      BY <3>1, <3>2
  <2>10. CASE GetRefused(t)
    BY <1>1, <1>4, <2>10 DEF GetRefused
  <2>11. CASE Wake(t)
    <3>1. Cardinality(Waiters') = W - 1
      BY <1>1, <2>11, CountWaiters DEF Wake
    <3> QED
      BY <1>1, <1>2, <2>11, <3>1 DEF Wake
  <2>12. CASE Notify(t)
    <3> DEFINE to == IF pc[t] = "notifyDrop" THEN "drop" ELSE "idle"
    <3>1. Goto(t, to) /\ pc[t] # "wait" /\ to # "wait" /\ sem' = sem
      BY <2>12 DEF Notify
    <3>2. (free' # {} \/ ~committed') => waiting = 0
      BY <2>12, <1>1 DEF Notify
    <3> QED
      BY <1>4, <3>1, <3>2
  <2>13. ASSUME NEW s \in free, GetSample(t, s) PROVE Counted'
    BY <1>1, <1>4, <2>13 DEF GetSample
  <2>14. ASSUME NEW nowait \in BOOLEAN, GetWaits(t, nowait) PROVE Counted'
    <3> DEFINE to == IF nowait THEN "idle" ELSE "wait"
    <3>1. /\ Goto(t, to) /\ pc[t] # "wait" /\ free' = {} /\ committed'
          /\ waiting' = waiting + 1 /\ tokens' = tokens
      BY <2>14 DEF GetWaits
    <3>2. Cardinality(Waiters') <= W + 1
      BY <1>1, <3>1, CountWaiters
    <3>3. Cardinality(Waiters') \in Nat
      BY <1>1, <3>1, CountWaiters
    <3>4. Cardinality(Waiters') <= waiting' + tokens'
      BY <1>1, <3>1, <3>2, <3>3
    <3> QED
      BY <1>2, <3>1, <3>4
  <2>15. CASE ReleaseBuffer(t)
    <3> DEFINE to == IF pending /\ free \cup {sample[t]} = Samples
                     THEN "notifyDrop" ELSE "notify"
    <3>1. Goto(t, to) /\ pc[t] # "wait" /\ to # "wait" /\ NotifySample
      BY <2>15 DEF ReleaseBuffer
    <3>2. sem' = sem => ((free' # {} \/ ~committed') => waiting = 0)
      BY <3>1, <1>1 DEF NotifySample
    <3> QED
      BY <1>4, <3>1, <3>2
  <2>16. CASE Drop(t)
    BY <1>1, <1>4, <2>16 DEF Drop
  <2> QED
    BY <1>6, <2>1, <2>2, <2>3, <2>4, <2>5, <2>6, <2>7, <2>8, <2>9, <2>10,
       <2>11, <2>12, <2>13, <2>14, <2>15, <2>16
    DEF Calls, GoesOn
<1> QED
  BY <1>5, <1>6 DEF Next

----------------------------------------------------------------------------
LEMMA HeldStep == Inductive /\ [Next]_vars => Held'
<1> SUFFICES ASSUME Inductive, [Next]_vars PROVE Held'
  OBVIOUS
<1> DEFINE D(p)  == IF p \in {"drop", "notifyDrop"} THEN 1 ELSE 0
           One   == IF committed \/ pending THEN 1 ELSE 0
           OneAfter == IF committed' \/ pending' THEN 1 ELSE 0
<1>1. /\ TypeOK
      /\ ~(committed /\ pending)
      /\ Outstanding # {} => committed \/ pending
      /\ selfRefs = Cardinality(Dropping) + One
      /\ selfRefs \in Nat /\ Cardinality(Dropping) \in Nat
  BY FiniteGroups DEF Inductive, TypeOK, Held
<1>2. ASSUME ~(committed' /\ pending'), Outstanding' # {} => committed' \/ pending',
             selfRefs' = Cardinality(Dropping') + OneAfter
      PROVE  Held'
  BY <1>2 DEF Held
<1>3. ASSUME pc' = pc, selfRefs' = selfRefs, committed' = committed,
             pending' = pending, Outstanding' = Outstanding
      PROVE  Held'
  BY <1>1, <1>2, <1>3, NoMove
<1>4. ASSUME NEW t \in Threads, NEW to, Goto(t, to), D(to) = D(pc[t]),
             selfRefs' = selfRefs, committed' = committed, pending' = pending,
             Outstanding' = Outstanding \/ committed
      PROVE  Held'
  <2>1. Cardinality(Dropping') = Cardinality(Dropping)
    <3>1. Cardinality(Dropping') \in Nat
          /\ Cardinality(Dropping') + D(pc[t]) = Cardinality(Dropping) + D(to)
      BY <1>1, <1>4, CountDropping
    <3>2. D(pc[t]) \in Nat
      OBVIOUS
    <3> HIDE DEF D
    <3> QED
      BY <1>1, <1>4, <3>1, <3>2
  <2> QED
    BY <1>1, <1>2, <1>4, <2>1
<1>5. CASE UNCHANGED vars
  BY <1>3, <1>5 DEF vars, Outstanding, Samples
<1>6. ASSUME NEW t \in Threads, Calls(t) \/ GoesOn(t) PROVE Held'
  <2> USE DEF User, Idle
  <2>1. ASSUME NEW n \in 0..MaxCount, SetProperties(t, n) PROVE Held'
    BY <1>3, <2>1 DEF SetProperties, Outstanding, Samples
  <2>2. ASSUME NEW n \in 0..MaxCount, CommitFails(t, n) PROVE Held'
    <3>1. Outstanding' = {}
      BY <2>2 DEF CommitFails, Outstanding, Samples
    <3>2. /\ pc' = pc /\ selfRefs' = selfRefs
          /\ committed' = committed /\ pending' = pending
      BY <2>2 DEF CommitFails
    <3> QED
      BY <1>1, <1>2, <3>1, <3>2, NoMove
  <2>3. CASE CommitCancel(t)
    <3>1. /\ pc' = pc /\ selfRefs' = selfRefs /\ pending
          /\ committed' = TRUE /\ pending' = FALSE
      BY <2>3 DEF CommitCancel
    <3> QED
      BY <1>1, <1>2, <3>1, NoMove
  <2>4. CASE CommitAlloc(t)
    <3>1. /\ pc' = pc /\ selfRefs' = selfRefs + 1 /\ ~committed /\ ~pending
          /\ committed' = TRUE /\ pending' = pending
      BY <2>4 DEF CommitAlloc
    <3> QED
      BY <1>1, <1>2, <3>1, NoMove
  <2>5. CASE Leave(t)
    BY <1>3, <2>5 DEF Leave, Outstanding, Samples
  <2>6. CASE GetBuffer(t)
    BY <1>4, <2>6 DEF GetBuffer, Outstanding, Samples
  <2>7. CASE Decommit(t)
    <3> DEFINE to == IF AllFree THEN "drop" ELSE "idle"
    <3>1. /\ Goto(t, to) /\ pc[t] = "idle" /\ selfRefs' = selfRefs
          /\ (committed \/ pending) /\ committed' = FALSE /\ pending' = ~AllFree
          /\ Outstanding' = Outstanding
      BY <2>7 DEF Decommit, Outstanding, Samples
    <3>2. Cardinality(Dropping') = Cardinality(Dropping) + D(to)
      BY <1>1, <3>1, CountDropping
    <3>3. committed \/ pending
      BY <2>7 DEF Decommit
    <3>4. CASE AllFree
      <4>1. Outstanding' = {}
        BY <3>1, <3>4 DEF AllFree, Outstanding
      <4>2. One = 1 /\ OneAfter = 0 /\ D(to) = 1
        BY <3>1, <3>3, <3>4
      <4>3. selfRefs' = Cardinality(Dropping') + OneAfter
        BY <1>1, <3>1, <3>2, <4>2
      <4> QED
        BY <1>2, <3>1, <4>1, <4>3
    <3>5. CASE ~AllFree
      <4>1. One = 1 /\ OneAfter = 1 /\ D(to) = 0
        BY <3>1, <3>3, <3>5
      <4>2. selfRefs' = Cardinality(Dropping') + OneAfter
        BY <1>1, <3>1, <3>2, <4>1
      <4> QED
        BY <1>2, <3>1, <3>5, <4>2
    <3> QED
      BY <3>4, <3>5
  <2>8. ASSUME NEW s \in 1..MaxCount, SampleAddRef(t, s) PROVE Held'
    BY <1>3, <2>8 DEF SampleAddRef, Outstanding, Samples
  <2>9. ASSUME NEW s \in 1..MaxCount, SampleRelease(t, s) PROVE Held'
    <3>1. /\ selfRefs' = selfRefs /\ committed' = committed
          /\ pending' = pending /\ Outstanding' = Outstanding
      BY <2>9 DEF SampleRelease, Outstanding, Samples
    <3>2. CASE refs[s] = 1
      BY <1>4, <2>9, <3>1, <3>2 DEF SampleRelease
    <3>3. CASE refs[s] # 1
      BY <1>3, <2>9, <3>1, <3>3 DEF SampleRelease
    <3> QED
      BY <3>2, <3>3
  <2>10. CASE GetRefused(t)
    BY <1>4, <2>10 DEF GetRefused, Outstanding, Samples
  <2>11. CASE Wake(t)
    BY <1>4, <2>11 DEF Wake, Outstanding, Samples
  <2>12. CASE Notify(t)
    <3> DEFINE to == IF pc[t] = "notifyDrop" THEN "drop" ELSE "idle"
    <3>1. Goto(t, to) /\ D(to) = D(pc[t])
      BY <2>12 DEF Notify
    <3>2. /\ selfRefs' = selfRefs /\ committed' = committed
          /\ pending' = pending /\ Outstanding' = Outstanding
      BY <2>12 DEF Notify, Outstanding, Samples
    <3> QED
      BY <1>4, <3>1, <3>2
  <2>13. ASSUME NEW s \in free, GetSample(t, s) PROVE Held'
    BY <1>4, <2>13 DEF GetSample
  <2>14. ASSUME NEW nowait \in BOOLEAN, GetWaits(t, nowait) PROVE Held'
    <3> DEFINE to == IF nowait THEN "idle" ELSE "wait"
    <3>1. Goto(t, to) /\ D(to) = D(pc[t])
      BY <2>14 DEF GetWaits
    <3>2. /\ selfRefs' = selfRefs /\ committed' = committed
          /\ pending' = pending /\ Outstanding' = Outstanding
      BY <2>14 DEF GetWaits, Outstanding, Samples
    <3> QED
      BY <1>4, <3>1, <3>2
  <2>15. CASE ReleaseBuffer(t)
    <3> DEFINE completes == pending /\ free \cup {sample[t]} = Samples
               to == IF completes THEN "notifyDrop" ELSE "notify"
    <3>1. /\ Goto(t, to) /\ pc[t] = "release" /\ selfRefs' = selfRefs
          /\ committed' = committed /\ pending' = (pending /\ ~completes)
          /\ Samples' = Samples /\ free' = free \cup {sample[t]}
      BY <2>15 DEF ReleaseBuffer, Samples
    <3>2. Cardinality(Dropping') = Cardinality(Dropping) + D(to)
      BY <1>1, <3>1, CountDropping
    <3>3. Outstanding' \subseteq Outstanding
      BY <3>1 DEF Outstanding
    <3>4. CASE completes
      <4>1. Outstanding' = {}
        BY <3>1, <3>4 DEF Outstanding
      <4>2. committed' = FALSE /\ pending' = FALSE
        BY <1>1, <3>1, <3>4 DEF TypeOK
      <4>3. One = 1 /\ OneAfter = 0 /\ D(to) = 1
        BY <3>4, <4>2
      <4>4. selfRefs' = Cardinality(Dropping') + OneAfter
        BY <1>1, <3>1, <3>2, <4>3
      <4> QED
        BY <1>2, <4>1, <4>2, <4>4
    <3>5. CASE ~completes
      <4>1. pending' = pending
        BY <3>1, <3>5, <1>1 DEF TypeOK
      <4>2. D(to) = 0
        BY <3>5
      <4>3. OneAfter = One
        BY <3>1, <4>1
      <4> HIDE DEF D, completes, to, One, OneAfter
      <4>4. selfRefs' = Cardinality(Dropping') + OneAfter
        BY <1>1, <3>1, <3>2, <4>2, <4>3
      <4>5. Outstanding' # {} => committed' \/ pending'
        BY <1>1, <3>1, <3>3, <4>1
      <4> QED
        BY <1>1, <1>2, <3>1, <4>1, <4>4, <4>5
    <3> QED
      BY <3>4, <3>5
  <2>16. CASE Drop(t)
    <3>1. /\ Goto(t, "idle") /\ pc[t] = "drop" /\ selfRefs' = selfRefs - 1
          /\ committed' = committed /\ pending' = pending
          /\ Outstanding' = Outstanding
      BY <2>16 DEF Drop, Outstanding, Samples
    <3>2. Cardinality(Dropping') = Cardinality(Dropping) - 1
      BY <1>1, <3>1, CountDropping
    <3> QED
      BY <1>1, <1>2, <3>1, <3>2
  <2> QED
    BY <1>6, <2>1, <2>2, <2>3, <2>4, <2>5, <2>6, <2>7, <2>8, <2>9, <2>10,
       <2>11, <2>12, <2>13, <2>14, <2>15, <2>16
    DEF Calls, GoesOn
<1> QED
  BY <1>5, <1>6 DEF Next

----------------------------------------------------------------------------
LEMMA OwnedStep == Inductive /\ [Next]_vars => Owned'
<1> SUFFICES ASSUME Inductive, [Next]_vars PROVE Owned'
  OBVIOUS
<1> USE DEF Owned, OneOwner
<1>1. /\ TypeOK /\ Owned
      /\ Outstanding # {} => committed \/ pending
  BY DEF Inductive, Held
<1>2. ASSUME UNCHANGED <<refs, sample, free, Samples>>,
             \A u \in Threads : pc'[u] = "release" => pc[u] = "release"
      PROVE  Owned'
  BY <1>1, <1>2 DEF Outstanding
<1>3. ASSUME NEW t \in Threads, NEW to, Goto(t, to), to # "release",
             UNCHANGED <<refs, sample, free, Samples>>
      PROVE  Owned'
  <2>1. \A u \in Threads : pc'[u] = "release" => pc[u] = "release"
    BY <1>1, <1>3 DEF Goto, TypeOK
  <2> QED
    BY <1>2, <1>3, <2>1
<1>4. ASSUME ~committed, ~pending, pc' = pc, UNCHANGED <<refs, sample>>,
             NEW n \in 0..MaxCount, free' = 1..n
      PROVE  Owned'
  <2>1. Outstanding = {}
    BY <1>1, <1>4
  <2>2. \A s \in 1..MaxCount : refs[s] = 0
    BY <1>1, <2>1 DEF TypeOK
  <2>3. \A u \in Threads : pc[u] # "release"
    BY <1>1, <2>1
  <2>4. free' \subseteq 1..MaxCount
    BY <1>4
  <2> QED
    BY <1>4, <2>2, <2>3, <2>4
<1>5. CASE UNCHANGED vars
  BY <1>2, <1>5 DEF vars, Samples
<1>6. ASSUME NEW t \in Threads, Calls(t) \/ GoesOn(t) PROVE Owned'
  <2> USE DEF User, Idle
  <2>1. ASSUME NEW n \in 0..MaxCount, SetProperties(t, n) PROVE Owned'
    BY <1>2, <2>1 DEF SetProperties, Samples
  <2>2. ASSUME NEW n \in 0..MaxCount, CommitFails(t, n) PROVE Owned'
    BY <1>4, <2>2 DEF CommitFails
  <2>3. CASE CommitCancel(t)
    BY <1>2, <2>3 DEF CommitCancel, Samples
  <2>4. CASE CommitAlloc(t)
    <3>1. CASE changed
      BY <1>1, <1>4, <2>4, <3>1 DEF CommitAlloc, TypeOK
    <3>2. CASE ~changed
      BY <1>2, <2>4, <3>2 DEF CommitAlloc, Samples
    <3> QED
      BY <3>1, <3>2
  <2>5. CASE Leave(t)
    BY <1>2, <2>5 DEF Leave, Samples
  <2>6. CASE GetBuffer(t)
    BY <1>3, <2>6 DEF GetBuffer, Samples
  <2>7. CASE Decommit(t)
    <3> DEFINE to == IF AllFree THEN "drop" ELSE "idle"
    <3>1. Goto(t, to) /\ to # "release" /\ UNCHANGED <<refs, sample, free, Samples>>
      BY <2>7 DEF Decommit, Samples
    <3> QED
      BY <1>3, <3>1
  <2>8. ASSUME NEW s \in 1..MaxCount, SampleAddRef(t, s) PROVE Owned'
    <3>1. /\ UNCHANGED <<pc, sample, free, Outstanding>>
          /\ refs[s] > 0 /\ refs' = [refs EXCEPT ![s] = @ + 1]
      BY <2>8 DEF SampleAddRef, Outstanding, Samples
    <3>2. s \in Outstanding /\ s \notin free
      BY <1>1, <3>1 DEF Outstanding
    <3>3. \A r \in 1..MaxCount : r # s => refs'[r] = refs[r]
      BY <1>1, <3>1 DEF TypeOK
    <3>4. free \subseteq 1..MaxCount /\ Outstanding \subseteq 1..MaxCount
      BY <1>1 DEF TypeOK, Samples, Outstanding
    <3>5. \A u \in Threads : pc[u] = "release" => sample[u] # s
      BY <1>1, <3>1
    <3> QED
      BY <1>1, <3>1, <3>2, <3>3, <3>4, <3>5
  <2>9. ASSUME NEW s \in 1..MaxCount, SampleRelease(t, s) PROVE Owned'
    <3>1. /\ UNCHANGED <<free, Outstanding>>
          /\ refs[s] > 0 /\ refs' = [refs EXCEPT ![s] = @ - 1]
      BY <2>9 DEF SampleRelease, Outstanding, Samples
    <3>2. s \in Outstanding /\ s \notin free
      BY <1>1, <3>1 DEF Outstanding
    <3>3. /\ \A r \in 1..MaxCount : r # s => refs'[r] = refs[r]
          /\ refs'[s] = refs[s] - 1
      BY <1>1, <3>1 DEF TypeOK
    <3>4. free \subseteq 1..MaxCount /\ Outstanding \subseteq 1..MaxCount
      BY <1>1 DEF TypeOK, Samples, Outstanding
    <3>5. \A u \in Threads : pc[u] = "release" => sample[u] # s
      BY <1>1, <3>1
    <3>6. refs[s] \in Nat
      BY <1>1 DEF TypeOK
    <3>7. /\ \A r \in free' : refs'[r] = 0
          /\ \A r \in 1..MaxCount : refs'[r] > 0 => r \in Outstanding'
      BY <1>1, <3>1, <3>2, <3>3, <3>4
    <3>8. CASE refs[s] = 1
      <4>1. \A u \in Threads \ {t} : pc'[u] = pc[u] /\ sample'[u] = sample[u]
        BY <1>1, <2>9, <3>8 DEF SampleRelease, Goto, TypeOK
      <4>2. pc'[t] = "release" /\ sample'[t] = s /\ pc[t] = "idle"
        BY <1>1, <2>9, <3>8 DEF SampleRelease, Goto, TypeOK
      <4>3. refs'[s] = 0
        BY <3>3, <3>8
      <4> QED
        BY <1>1, <3>1, <3>2, <3>3, <3>4, <3>5, <3>7, <4>1, <4>2, <4>3
    <3>9. CASE refs[s] # 1
      <4>1. UNCHANGED <<pc, sample>>
        BY <2>9, <3>9 DEF SampleRelease
      <4> QED
        BY <1>1, <3>1, <3>2, <3>3, <3>4, <3>5, <3>7, <4>1
    <3> QED
      BY <3>8, <3>9
  <2>10. CASE GetRefused(t)
    BY <1>3, <2>10 DEF GetRefused, Samples
  <2>11. CASE Wake(t)
    BY <1>3, <2>11 DEF Wake, Samples
  <2>12. CASE Notify(t)
    <3> DEFINE to == IF pc[t] = "notifyDrop" THEN "drop" ELSE "idle"
    <3>1. Goto(t, to) /\ to # "release" /\ UNCHANGED <<refs, sample, free, Samples>>
      BY <2>12 DEF Notify, Samples
    <3> QED
      BY <1>3, <3>1
  <2>13. ASSUME NEW s \in free, GetSample(t, s) PROVE Owned'
    <3>1. /\ sample' = sample /\ Samples' = Samples
          /\ free' = free \ {s} /\ refs' = [refs EXCEPT ![s] = 1]
      BY <2>13 DEF GetSample, Samples
    <3>2. s \in 1..MaxCount /\ s \in Samples /\ free \subseteq 1..MaxCount
          /\ Outstanding \subseteq 1..MaxCount
      BY <1>1 DEF TypeOK, Samples, Outstanding
    <3>3. \A r \in 1..MaxCount : r # s => refs'[r] = refs[r]
      BY <1>1, <3>1 DEF TypeOK
    <3>4. Outstanding' = Outstanding \cup {s}
      BY <3>1, <3>2 DEF Outstanding
    <3>5. \A u \in Threads : pc'[u] = "release" => pc[u] = "release"
      BY <1>1, <2>13 DEF GetSample, Goto, TypeOK
    <3>6. \A u \in Threads : pc[u] = "release" => sample[u] # s
      BY <1>1 DEF Outstanding
    <3> QED
      BY <1>1, <3>1, <3>2, <3>3, <3>4, <3>5, <3>6
  <2>14. ASSUME NEW nowait \in BOOLEAN, GetWaits(t, nowait) PROVE Owned'
    <3> DEFINE to == IF nowait THEN "idle" ELSE "wait"
    <3>1. Goto(t, to) /\ to # "release" /\ UNCHANGED <<refs, sample, free, Samples>>
      BY <2>14 DEF GetWaits, Samples
    <3> QED
      BY <1>3, <3>1
  <2>15. CASE ReleaseBuffer(t)
    <3>1. /\ pc[t] = "release" /\ refs' = refs /\ Samples' = Samples
          /\ free' = free \cup {sample[t]}
      BY <2>15 DEF ReleaseBuffer, Samples
    <3>2. refs[sample[t]] = 0 /\ sample[t] \in Outstanding
      BY <1>1, <3>1
    <3>3. Outstanding' = Outstanding \ {sample[t]}
      BY <3>1 DEF Outstanding
    <3>4. \A u \in Threads \ {t} : pc'[u] = pc[u] /\ sample'[u] = sample[u]
      BY <1>1, <2>15 DEF ReleaseBuffer, Goto, TypeOK
    <3>5. pc'[t] # "release"
      BY <1>1, <2>15 DEF ReleaseBuffer, Goto, TypeOK
    <3>6. \A u \in Threads \ {t} : pc[u] = "release" => sample[u] # sample[t]
      BY <1>1, <3>1
    <3> QED
      BY <1>1, <3>1, <3>2, <3>3, <3>4, <3>5, <3>6
  <2>16. CASE Drop(t)
    BY <1>3, <2>16 DEF Drop, Samples
  <2> QED
    BY <1>6, <2>1, <2>2, <2>3, <2>4, <2>5, <2>6, <2>7, <2>8, <2>9, <2>10,
       <2>11, <2>12, <2>13, <2>14, <2>15, <2>16
    DEF Calls, GoesOn
<1> QED
  BY <1>5, <1>6 DEF Next

----------------------------------------------------------------------------
THEOREM InductiveCorrect == Spec => []Inductive
<1>1. Inductive /\ [Next]_vars => Inductive'
  BY TypeStep, CountedStep, HeldStep, OwnedStep DEF Inductive
<1> QED
  BY InitInductive, <1>1, PTL DEF Spec

(* The types of the pool's variables.                                      *)
THEOREM TypeCorrect == Spec => []TypeOK
<1>1. Inductive => TypeOK
  BY DEF Inductive
<1> QED
  BY InductiveCorrect, <1>1, PTL

(* ReleaseBuffer and Decommit wake every thread in GetBuffer's wait.       *)
THEOREM NoLostWakeupCorrect == Spec => []NoLostWakeup
<1>1. Inductive => NoLostWakeup
  <2> SUFFICES ASSUME Inductive, free # {} \/ ~committed
               PROVE  Cardinality(Waiters) <= tokens
    BY DEF NoLostWakeup
  <2>1. waiting = 0 /\ Cardinality(Waiters) <= waiting + tokens /\ tokens \in Nat
    BY DEF Inductive, Counted, TypeOK
  <2> QED
    BY <2>1, FiniteGroups
<1> QED
  BY InductiveCorrect, <1>1, PTL

(* An allocator with samples still out holds a reference on itself.        *)
THEOREM OutstandingKeepsAliveCorrect == Spec => []OutstandingKeepsAlive
<1>1. Inductive => OutstandingKeepsAlive
  BY FiniteGroups DEF Inductive, Held, OutstandingKeepsAlive, Alive
<1> QED
  BY InductiveCorrect, <1>1, PTL

(* No sample is handed out, referenced or given back twice at a time.      *)
THEOREM OneOwnerCorrect == Spec => []OneOwner
<1>1. Inductive => OneOwner
  BY DEF Inductive, Owned
<1> QED
  BY InductiveCorrect, <1>1, PTL

(* The samples are replaced only when none of them is out.                 *)
THEOREM ReallocWhenFreeCorrect == Spec => ReallocWhenFree
<1>1. Inductive /\ [Next]_vars
        => [allocated' # allocated => Outstanding = {}]_vars
  <2> SUFFICES ASSUME Inductive, Next, allocated' # allocated
               PROVE  Outstanding = {}
    OBVIOUS
  <2>1. PICK t \in Threads : Calls(t) \/ GoesOn(t)
    BY DEF Next
  <2>2. CommitAlloc(t) \/ \E n \in 0..MaxCount : CommitFails(t, n)
    BY <2>1 DEF Calls, GoesOn, SetProperties, CommitCancel, Decommit, Leave,
                GetBuffer, SampleAddRef, SampleRelease, GetRefused, GetSample,
                GetWaits, Wake, ReleaseBuffer, Notify, Drop
  <2>3. ~committed /\ ~pending
    BY <2>2 DEF CommitAlloc, CommitFails
  <2> QED
    BY <2>3 DEF Inductive, Held
<1> QED
  BY InductiveCorrect, <1>1, PTL DEF Spec, ReallocWhenFree

(* The pool outlives its samples, and none of them is in two hands.        *)
THEOREM PoolSafeCorrect == Spec => []PoolSafe
BY TypeCorrect, OutstandingKeepsAliveCorrect, OneOwnerCorrect, PTL DEF PoolSafe
=============================================================================
