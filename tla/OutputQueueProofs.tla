------------------------- MODULE OutputQueueProofs -------------------------
(***************************************************************************)
(* Proofs about OutputQueue, for every batch size and every bound: types,  *)
(* no lost wake-up, nothing left over from before a flush, and the queue   *)
(* as a FIFO.                                                              *)
(***************************************************************************)
EXTENDS OutputQueue, FiniteSetTheorems, SequenceTheorems, WellFoundedInduction,
        TLAPS

Entry == Item \cup {Send, Reset}

-----------------------------------------------------------------------------
(* The data of a list, and induction over its length.                     *)

(* Induction over the naturals, for a set: the least number outside of it  *)
(* does not exist.                                                         *)
LEMMA NatInd ==
  ASSUME NEW S, 0 \in S, \A n \in Nat : n \in S => n + 1 \in S
  PROVE  Nat \subseteq S
  <1> DEFINE T == Nat \ S
             R == OpToRel(<, Nat)
  <1>1. SUFFICES ASSUME T # {} PROVE FALSE
    OBVIOUS
  <1>2. IsWellFoundedOn(R, Nat)
    BY NatLessThanWellFounded
  <1>3. T \subseteq Nat
    OBVIOUS
  <1>4. PICK x \in T : \A y \in T : ~ (<<y, x>> \in R)
    <2> HIDE DEF T, R
    <2> QED BY <1>1, <1>2, <1>3, WFMin
  <1>5. x \in Nat /\ x # 0 /\ x - 1 \in Nat
    OBVIOUS
  <1>6. <<x - 1, x>> \in R
    BY <1>5 DEF OpToRel
  <1>7. x - 1 \in S
    BY <1>4, <1>5, <1>6
  <1> QED
    BY <1>5, <1>7

(* What an entry adds to the data.                                         *)
LEMMA DatumType == \A i \in Entry \cup {None} : Datum(i) \in Seq(Item)
  <1> TAKE i \in Entry \cup {None}
  <1>1. IsData(i) => i \in Item
    BY DEF IsData, Data, Entry, Send, Reset, None
  <1> QED
    BY <1>1 DEF Datum

(* upTo of DataOf exists: the data of the first k entries.                 *)
Gathers(g, s, m) ==
  /\ g \in [0..m -> Seq(Item)]
  /\ \A k \in 0..m : g[k] = IF k = 0 THEN <<>> ELSE g[k - 1] \o Datum(s[k])

(* What upTo is at each place.                                             *)
LEMMA GatherFacts ==
  ASSUME NEW s, NEW g, NEW m \in Nat, Gathers(g, s, m)
  PROVE  /\ g \in [0..m -> Seq(Item)]
         /\ g[0] = <<>>
         /\ \A k \in 1..m : g[k] = g[k - 1] \o Datum(s[k])
  <1>1. 0 \in 0..m
    OBVIOUS
  <1>2. g[0] = <<>>
    BY <1>1 DEF Gathers
  <1>3. ASSUME NEW k \in 1..m
        PROVE  g[k] = g[k - 1] \o Datum(s[k])
    <2>1. k \in 0..m /\ k # 0
      OBVIOUS
    <2> QED
      BY <2>1 DEF Gathers
  <1> QED
    BY <1>2, <1>3 DEF Gathers

(* A function with these values is an upTo of DataOf.                      *)
LEMMA GatherIntro ==
  ASSUME NEW s, NEW g, NEW m \in Nat, g \in [0..m -> Seq(Item)], g[0] = <<>>,
         \A k \in 1..m : g[k] = g[k - 1] \o Datum(s[k])
  PROVE  Gathers(g, s, m)
  BY DEF Gathers

(* By induction on the number of entries such a function exists, and       *)
(* DataOf is its last value.                                               *)
LEMMA Gathered ==
  ASSUME NEW s \in Seq(Entry)
  PROVE  \E g : Gathers(g, s, Len(s)) /\ DataOf(s) = g[Len(s)]
  <1> DEFINE S == {n \in Nat : n <= Len(s) => \E g : Gathers(g, s, n)}
  <1>1. 0 \in S
    <2> DEFINE g == [k \in 0..0 |-> <<>>]
    <2>1. g \in [0..0 -> Seq(Item)]
      OBVIOUS
    <2>2. Gathers(g, s, 0)
      BY <2>1 DEF Gathers
    <2> QED
      BY <2>2
  <1>2. ASSUME NEW n \in Nat, n \in S
        PROVE  n + 1 \in S
    <2> SUFFICES ASSUME n + 1 <= Len(s) PROVE \E g : Gathers(g, s, n + 1)
      OBVIOUS
    <2>1. PICK g : Gathers(g, s, n)
      BY <1>2
    <2> DEFINE h == [k \in 0..(n + 1) |->
                       IF k <= n THEN g[k] ELSE g[n] \o Datum(s[n + 1])]
    <2>2. s[n + 1] \in Entry
      OBVIOUS
    <2>3. g[n] \o Datum(s[n + 1]) \in Seq(Item)
      BY <2>1, <2>2, DatumType, ConcatProperties DEF Gathers
    <2>4. h \in [0..(n + 1) -> Seq(Item)]
      BY <2>1, <2>3 DEF Gathers
    <2>a. /\ g \in [0..n -> Seq(Item)] /\ g[0] = <<>>
          /\ \A k \in 1..n : g[k] = g[k - 1] \o Datum(s[k])
      BY <2>1, GatherFacts
    <2>b. h[0] = <<>>
      BY <2>a
    <2>5. ASSUME NEW k \in 1..(n + 1)
          PROVE  h[k] = h[k - 1] \o Datum(s[k])
      <3>1. CASE k \in 1..n
        <4>1. h[k] = g[k] /\ h[k - 1] = g[k - 1]
          BY <3>1
        <4> QED
          BY <4>1, <3>1, <2>a
      <3>2. CASE k = n + 1
        BY <3>2
      <3> QED
        BY <3>1, <3>2
    <2>6. Gathers(h, s, n + 1)
      <3> HIDE DEF h
      <3> QED
        BY <2>4, <2>5, <2>b, GatherIntro
    <2> QED
      BY <2>6
  <1>3. Nat \subseteq S
    <2> HIDE DEF S
    <2> QED
      BY <1>1, <1>2, NatInd
  <1>4. PICK g : Gathers(g, s, Len(s))
    BY <1>3
  <1>5. g = [k \in 0..Len(s) |-> IF k = 0 THEN <<>> ELSE g[k - 1] \o Datum(s[k])]
    BY <1>4 DEF Gathers
  <1> DEFINE u == CHOOSE u : u = [k \in 0..Len(s) |->
                                    IF k = 0 THEN <<>> ELSE u[k - 1] \o Datum(s[k])]
  <1>6. u = [k \in 0..Len(s) |-> IF k = 0 THEN <<>> ELSE u[k - 1] \o Datum(s[k])]
    BY <1>5
  <1>7. \A k \in 0..Len(s) : u[k] = g[k]
    <2> DEFINE V == {n \in Nat : n <= Len(s) => u[n] = g[n]}
    <2> HIDE DEF u
    <2>1. 0 \in V
      BY <1>5, <1>6
    <2>2. ASSUME NEW n \in Nat, n \in V PROVE n + 1 \in V
      BY <2>2, <1>5, <1>6
    <2>3. Nat \subseteq V
      <3> HIDE DEF V
      <3> QED
        BY <2>1, <2>2, NatInd
    <2> QED
      BY <2>3
  <1>8. DataOf(s) = u[Len(s)]
    BY DEF DataOf
  <1> HIDE DEF u
  <1> QED
    BY <1>4, <1>7, <1>8

(* There is but one.                                                       *)
LEMMA GatherUnique ==
  ASSUME NEW s \in Seq(Entry), NEW g, Gathers(g, s, Len(s))
  PROVE  DataOf(s) = g[Len(s)]
  <1>1. PICK h : Gathers(h, s, Len(s)) /\ DataOf(s) = h[Len(s)]
    BY Gathered
  <1> DEFINE V == {n \in Nat : n <= Len(s) => h[n] = g[n]}
  <1>2. 0 \in V
    BY <1>1 DEF Gathers
  <1>3. ASSUME NEW n \in Nat, n \in V
        PROVE  n + 1 \in V
    <2> SUFFICES ASSUME n + 1 <= Len(s) PROVE h[n + 1] = g[n + 1]
      OBVIOUS
    <2>1. n + 1 \in 0..Len(s) /\ n + 1 # 0 /\ (n + 1) - 1 = n /\ n <= Len(s)
      OBVIOUS
    <2>2. h[n + 1] = h[n] \o Datum(s[n + 1]) /\ g[n + 1] = g[n] \o Datum(s[n + 1])
      BY <2>1, <1>1 DEF Gathers
    <2> QED
      BY <2>1, <2>2, <1>3
  <1>4. Nat \subseteq V
    <2> HIDE DEF V
    <2> QED
      BY <1>2, <1>3, NatInd
  <1> QED
    BY <1>1, <1>4

(* The data of a list of entries are items.                                *)
LEMMA DataType == \A s \in Seq(Entry) : DataOf(s) \in Seq(Item)
  <1> TAKE s \in Seq(Entry)
  <1>1. PICK g : Gathers(g, s, Len(s)) /\ DataOf(s) = g[Len(s)]
    BY Gathered
  <1> QED
    BY <1>1 DEF Gathers

(* The data of a single entry.                                             *)
LEMMA DataOne == \A x \in Entry : DataOf(<<x>>) = Datum(x)
  <1> TAKE x \in Entry
  <1> DEFINE g == [k \in 0..1 |-> IF k = 0 THEN <<>> ELSE Datum(x)]
  <1>1. Datum(x) \in Seq(Item)
    BY DatumType
  <1>2. <<>> \o Datum(x) = Datum(x)
    BY <1>1, ConcatEmptySeq
  <1>3. Gathers(g, <<x>>, 1)
    BY <1>1, <1>2 DEF Gathers
  <1> HIDE DEF g
  <1>4. DataOf(<<x>>) = g[1]
    BY <1>3, GatherUnique, Len(<<x>>) = 1, <<x>> \in Seq(Entry)
  <1> QED
    BY <1>4 DEF g

(* The data of two lists joined are the data of the one and then of the    *)
(* other.                                                                  *)
LEMMA DataJoin ==
  ASSUME NEW s \in Seq(Entry), NEW t \in Seq(Entry)
  PROVE  DataOf(s \o t) = DataOf(s) \o DataOf(t)
  <1> DEFINE m == Len(s)
             n == Len(t)
  <1>0. m \in Nat /\ n \in Nat /\ m = Len(s) /\ n = Len(t)
    OBVIOUS
  <1>1. PICK g : Gathers(g, s, m) /\ DataOf(s) = g[m]
    BY Gathered
  <1>2. PICK h : Gathers(h, t, n) /\ DataOf(t) = h[n]
    BY Gathered
  <1>3. /\ s \o t \in Seq(Entry) /\ Len(s \o t) = m + n
        /\ \A i \in 1..(m + n) : (s \o t)[i] = IF i <= m THEN s[i] ELSE t[i - m]
    BY ConcatProperties
  <1>a. \A i \in 1..n : t[i] \in Entry
    OBVIOUS
  <1> HIDE DEF m, n
  <1>4. /\ g \in [0..m -> Seq(Item)] /\ g[0] = <<>>
        /\ \A k \in 1..m : g[k] = g[k - 1] \o Datum(s[k])
    BY <1>0, <1>1, GatherFacts
  <1>5. /\ h \in [0..n -> Seq(Item)] /\ h[0] = <<>>
        /\ \A k \in 1..n : h[k] = h[k - 1] \o Datum(t[k])
    BY <1>0, <1>2, GatherFacts
  <1>6. g[m] \in Seq(Item) /\ \A j \in 0..n : h[j] \in Seq(Item)
    <2>1. m \in 0..m
      BY <1>0
    <2>2. g[m] \in Seq(Item)
      BY <2>1, <1>4
    <2>3. \A j \in 0..n : h[j] \in Seq(Item)
      BY <1>5
    <2> QED
      BY <2>2, <2>3
  <1> DEFINE f == [k \in 0..(m + n) |-> IF k <= m THEN g[k] ELSE g[m] \o h[k - m]]
  <1>7. f \in [0..(m + n) -> Seq(Item)]
    <2> SUFFICES ASSUME NEW k \in 0..(m + n)
                 PROVE  (IF k <= m THEN g[k] ELSE g[m] \o h[k - m]) \in Seq(Item)
      OBVIOUS
    <2>1. CASE k <= m
      BY <2>1, <1>0, <1>4
    <2>2. CASE ~(k <= m)
      <3>1. k - m \in 0..n
        BY <2>2, <1>0
      <3>2. g[m] \o h[k - m] \in Seq(Item)
        BY <3>1, <1>6, ConcatProperties
      <3> QED
        BY <2>2, <3>2
    <2> QED
      BY <2>1, <2>2
  <1>8. f[0] = <<>>
    BY <1>0, <1>4
  <1>9. ASSUME NEW k \in 1..(m + n)
        PROVE  f[k] = f[k - 1] \o Datum((s \o t)[k])
    <2>1. CASE k <= m
      <3>1. k \in 1..m /\ k - 1 \in 0..(m + n) /\ k - 1 <= m /\ k \in 0..(m + n)
        BY <2>1, <1>0
      <3>2. (s \o t)[k] = s[k]
        BY <2>1, <1>3
      <3>3. f[k] = g[k] /\ f[k - 1] = g[k - 1]
        BY <3>1, <2>1
      <3> QED
        BY <3>1, <3>2, <3>3, <1>4
    <2>2. CASE ~(k <= m)
      <3> DEFINE j == k - m
      <3>1. /\ j \in 1..n /\ j - 1 \in 0..n /\ j \in 0..n
            /\ k \in 0..(m + n) /\ k - 1 \in 0..(m + n)
        BY <2>2, <1>0
      <3>2. (s \o t)[k] = t[j]
        BY <2>2, <1>3
      <3>3. h[j] = h[j - 1] \o Datum(t[j])
        BY <3>1, <1>5
      <3>4. t[j] \in Entry
        BY <3>1, <1>a
      <3>5. Datum(t[j]) \in Seq(Item)
        BY <3>4, DatumType
      <3>6. g[m] \o h[j] = (g[m] \o h[j - 1]) \o Datum(t[j])
        <4>1. h[j - 1] \in Seq(Item)
          BY <3>1, <1>6
        <4>2. (g[m] \o h[j - 1]) \o Datum(t[j]) = g[m] \o (h[j - 1] \o Datum(t[j]))
          <5>1. \A a, b, c \in Seq(Item) : (a \o b) \o c = a \o (b \o c)
            BY ConcatAssociative
          <5> QED
            BY <5>1, <4>1, <3>5, <1>6, Zenon
        <4> QED
          BY <4>2, <3>3
      <3>7. f[k] = g[m] \o h[j]
        BY <3>1, <2>2
      <3>8. f[k - 1] = g[m] \o h[j - 1]
        <4>1. CASE k - 1 = m
          <5>1. j - 1 = 0
            BY <4>1, <1>0
          <5>2. f[k - 1] = g[m]
            BY <4>1, <3>1, <1>0
          <5> QED
            BY <5>1, <5>2, <1>5, <1>6, ConcatEmptySeq
        <4>2. CASE k - 1 # m
          <5>1. ~(k - 1 <= m) /\ (k - 1) - m = j - 1
            BY <4>2, <2>2, <1>0
          <5> QED
            BY <5>1, <3>1
        <4> QED
          BY <4>1, <4>2
      <3> QED
        BY <3>2, <3>6, <3>7, <3>8
    <2> QED
      BY <2>1, <2>2
  <1>10. f[m + n] = g[m] \o h[n]
    <2>1. CASE n = 0
      <3>1. f[m + n] = g[m]
        BY <2>1, <1>0
      <3> QED
        BY <3>1, <2>1, <1>5, <1>6, ConcatEmptySeq
    <2>2. CASE n # 0
      <3>1. ~(m + n <= m) /\ (m + n) - m = n /\ m + n \in 0..(m + n)
        BY <2>2, <1>0
      <3> QED
        BY <3>1
    <2> QED
      BY <2>1, <2>2
  <1>11. m + n \in Nat
    BY <1>0
  <1>12. Gathers(f, s \o t, m + n)
    <2> HIDE DEF f
    <2> QED
      BY <1>7, <1>8, <1>9, <1>11, GatherIntro
  <1> HIDE DEF f
  <1>13. DataOf(s \o t) = f[m + n]
    BY <1>3, <1>12, GatherUnique
  <1> QED
    BY <1>1, <1>2, <1>10, <1>13

(* Items are data all of them.                                             *)
LEMMA DataAll ==
  ASSUME NEW t \in Seq(Item)
  PROVE  DataOf(t) = t
  <1> DEFINE n == Len(t)
             g == [k \in 0..n |-> SubSeq(t, 1, k)]
  <1>1. t \in Seq(Entry) /\ n \in Nat
    BY DEF Entry
  <1>2. \A k \in 0..n : SubSeq(t, 1, k) \in Seq(Item)
    BY SubSeqProperties
  <1>3. ASSUME NEW k \in 0..n
        PROVE  g[k] = IF k = 0 THEN <<>> ELSE g[k - 1] \o Datum(t[k])
    <2>1. CASE k = 0
      BY <2>1, SubSeqEmpty
    <2>2. CASE k # 0
      <3>1. k \in 1..n /\ 1 \in 1..n /\ k - 1 \in 0..n /\ k \in 1..n
        BY <2>2, <1>1
      <3>a. t[k] \in Item
        BY <3>1
      <3>b. IsData(t[k])
        BY <3>a DEF IsData, Item
      <3>2. Datum(t[k]) = <<t[k]>>
        BY <3>b DEF Datum
      <3>3. SubSeq(t, 1, k) = SubSeq(t, 1, k - 1) \o <<t[k]>>
        BY <3>1, SubSeqRecursiveSecond
      <3> QED
        BY <3>1, <3>2, <3>3, <2>2
    <2> QED
      BY <2>1, <2>2
  <1>4. Gathers(g, t, n)
    <2>1. g \in [0..n -> Seq(Item)]
      BY <1>2
    <2> HIDE DEF g
    <2> QED
      BY <2>1, <1>3 DEF Gathers
  <1>5. g[n] = t
    BY <1>1, SubSeqFull
  <1> HIDE DEF g
  <1> QED
    BY <1>1, <1>4, <1>5, GatherUnique

-----------------------------------------------------------------------------
(* The two halves of the type invariant: the data, and everything else.    *)
DataTypes ==
  /\ list \in Seq(Entry)
  /\ batch \in Seq(Item) /\ Len(batch) < BatchSize
  /\ sending \in Seq(Item) /\ Len(sending) <= BatchSize
  /\ item \in Item \cup {Reset, None}
  /\ given \in Seq(Item)
  /\ last \in 0..MaxItems

ThreadTypes ==
  /\ waiting \in Nat /\ sem \in Nat
  /\ waiting + sem = (IF tpc = "wait" THEN 1 ELSE 0)
  /\ tpc \in {"top", "loop", "wait", "send", "receiving", "packet", "reset", "done"}

FlagTypes ==
  /\ exact \in BOOLEAN /\ opt \in BOOLEAN
  /\ flushing \in BOOLEAN /\ flushed \in BOOLEAN
  /\ hr \in {"S_OK", "S_FALSE"}
  /\ event \in BOOLEAN /\ terminate \in BOOLEAN
  /\ cpc \in {"idle", "begin", "flushing", "wait", "clear", "endpin", "ok",
              "reset", "join", "gone"}
  /\ spc \in {"idle", "segment"}
  /\ dflush \in BOOLEAN /\ early \in BOOLEAN

Asleep == tpc = "wait" /\ sem = 0

(* What the thread keeps outside of the lock, and where.                   *)
Shape ==
  /\ \A i \in DOMAIN batch : batch[i].kind = "sample"
  /\ \A i \in DOMAIN sending : sending[i].kind = "sample"
  /\ tpc # "send" => sending = <<>>
  /\ tpc \notin {"send", "receiving", "packet"} => item = None

(* Whoever begins or waits for a flush finds a sleeping thread only with   *)
(* the event set; so does a flush the optimization has cut short, once     *)
(* data could have come in since.                                          *)
Answered ==
  /\ cpc \in {"begin", "flushing", "wait", "clear"} => flushing
  /\ Asleep /\ cpc \in {"begin", "wait"} => event
  /\ Asleep /\ cpc = "flushing" /\ (~(opt /\ flushed) \/ hr = "S_OK") => event

(* The packet of a Reset is gone when the next control call comes, so that *)
(* nothing but EndFlush ends the refusal of data.                          *)
Refusing ==
  ~early =>
    /\ cpc # "reset" => ~ResetPending
    /\ cpc \in {"begin", "flushing", "wait", "clear", "endpin", "ok"} =>
         hr = "S_FALSE"

(* The event of a flush says that the queue is empty.                      *)
Completed ==
  ~early =>
    /\ event /\ cpc \in {"begin", "flushing", "wait"} => Empty
    /\ cpc = "clear" => Empty

Inductive ==
  TypeOK /\ Shape /\ NoLostWakeup /\ Answered /\ Refusing /\ Completed
    /\ FlushedMeansEmpty

USE BatchSizeAssumption, MaxItemsAssumption, MaxListAssumption
USE DEF conf, queue, signal, flush, thread, hist

LEMMA TypeParts == TypeOK <=> DataTypes /\ ThreadTypes /\ FlagTypes
BY DEF TypeOK, DataTypes, ThreadTypes, FlagTypes, Entry

----------------------------------------------------------------------------
(* The steps of the three parties, one by one.                             *)
LEMMA Steps ==
  ASSUME [Next]_vars
  PROVE  \/ Enter \/ Terminate \/ FlushQueue \/ TakeSample \/ TakeSend
         \/ TakePacket \/ TakeNothing \/ Sleep \/ Wake \/ SendBatch
         \/ Packet \/ PacketDone
         \/ \E result \in {"S_OK", "S_FALSE"} : Received(result)
         \/ BeginFlush \/ EndFlush \/ ResetQueue \/ Destroy
         \/ PassBegin \/ FlushComplete \/ ClearFlushing \/ PassEnd \/ Restore
         \/ ResetReturns \/ Join
         \/ \E k \in 1..BatchSize : ReceiveMultiple(k)
         \/ EOS \/ SendAnyway \/ NewSegment \/ QueueSegment
         \/ UNCHANGED vars
BY DEF Next, ThreadStep, Returns, Call, ControlStep, Stream

(* Kinds of the entries of the list.                                       *)
LEMMA EntryKinds ==
  /\ \A e \in Item : e.kind \in Data
  /\ Send.kind = "send" /\ Reset.kind = "reset" /\ None.kind = "none"
  /\ \A e \in Entry : e.kind \in Data => e \in Item
  /\ \A e \in Entry : e.kind = "reset" => e = Reset
BY DEF Item, Entry, Data, Send, Reset, None

LEMMA HeadTail ==
  ASSUME NEW S, NEW q \in Seq(S), q # <<>>
  PROVE  /\ Head(q) \in S /\ Head(q) = q[1] /\ 1 \in DOMAIN q
         /\ Tail(q) \in Seq(S) /\ Len(Tail(q)) = Len(q) - 1 /\ Len(q) \in Nat \ {0}
         /\ \A i \in DOMAIN Tail(q) : i + 1 \in DOMAIN q /\ Tail(q)[i] = q[i + 1]
BY HeadTailProperties

LEMMA Appended ==
  ASSUME NEW S, NEW q \in Seq(S), NEW e \in S
  PROVE  /\ Append(q, e) \in Seq(S)
         /\ Len(Append(q, e)) = Len(q) + 1
         /\ \A i \in DOMAIN Append(q, e) :
              \/ i \in DOMAIN q /\ Append(q, e)[i] = q[i]
              \/ Append(q, e)[i] = e
         /\ \A i \in DOMAIN q : i \in DOMAIN Append(q, e) /\ Append(q, e)[i] = q[i]
BY AppendProperties

LEMMA Joined ==
  ASSUME NEW S, NEW q \in Seq(S), NEW r \in Seq(S)
  PROVE  /\ q \o r \in Seq(S)
         /\ Len(q \o r) = Len(q) + Len(r)
         /\ \A i \in DOMAIN (q \o r) :
              \/ i \in DOMAIN q /\ (q \o r)[i] = q[i]
              \/ i - Len(q) \in DOMAIN r /\ (q \o r)[i] = r[i - Len(q)]
BY ConcatProperties

(* The items a caller brings.                                              *)
LEMMA FreshItems ==
  ASSUME NEW kind \in Data, NEW k \in Nat, last \in Nat, last + k <= MaxItems
  PROVE  /\ Fresh(kind, k) \in Seq(Item)
         /\ Len(Fresh(kind, k)) = k
         /\ \A i \in DOMAIN Fresh(kind, k) : Fresh(kind, k)[i].kind = kind
<1>1. \A i \in 1..k : [kind |-> kind, n |-> last + i] \in Item
  BY DEF Item
<1> QED
  BY <1>1, SMT DEF Fresh

(* The list after data has been accepted.                                  *)
LEMMA AcceptsTypes ==
  ASSUME DataTypes, NEW kind \in Data, NEW k \in 1..BatchSize, Accepts(kind, k)
  PROVE  /\ list' \in Seq(Entry)
         /\ last' \in 0..MaxItems
         /\ Len(list') = Len(list) + k
         /\ \A i \in DOMAIN list' :
              \/ i \in DOMAIN list /\ list'[i] = list[i]
              \/ list'[i].kind = kind
<1> DEFINE f == Fresh(kind, k)
<1>1. f \in Seq(Item) /\ Len(f) = k /\ \A i \in DOMAIN f : f[i].kind = kind
  BY FreshItems DEF DataTypes, Accepts
<1>2. f \in Seq(Entry) /\ list \in Seq(Entry)
  BY <1>1 DEF Entry, DataTypes
<1>3. list' = list \o f /\ last' = last + k /\ last + k <= MaxItems
  BY DEF Accepts
<1> HIDE DEF f
<1>4. list' \in Seq(Entry) /\ Len(list') = Len(list) + k
  BY <1>1, <1>2, <1>3, Joined
<1>5. \A i \in DOMAIN list' :
        \/ i \in DOMAIN list /\ list'[i] = list[i]
        \/ i - Len(list) \in DOMAIN f /\ list'[i] = f[i - Len(list)]
  BY <1>2, <1>3, Joined
<1>6. last' \in 0..MaxItems
  BY <1>3 DEF DataTypes
<1> QED
  BY <1>1, <1>4, <1>5, <1>6

LEMMA CountAtLeast ==
  ASSUME NEW S, NEW l \in Seq(S)
  PROVE  GetCount(l) \in Nat /\ GetCount(l) >= Len(l)
<1> DEFINE D == {i \in DOMAIN l : l[i].kind = "segment"}
<1>1. IsFiniteSet(DOMAIN l)
  BY FS_Interval
<1>2. IsFiniteSet(D)
  BY <1>1, FS_Subset
<1>3. Cardinality(D) \in Nat
  BY <1>2, FS_CardinalityType
<1> QED
  BY <1>3 DEF GetCount

(* Whoever is waiting has its token after NotifyThread.                    *)
LEMMA Notified ==
  ASSUME ThreadTypes, NotifyThread, UNCHANGED tpc
  PROVE  ~Asleep'
BY DEF ThreadTypes, NotifyThread, Asleep

LEMMA InitInductive == Init => Inductive
<1> SUFFICES ASSUME Init PROVE Inductive
  OBVIOUS
<1> USE DEF Init
<1>1. TypeOK
  <2>1. DataTypes
    BY EmptySeq DEF DataTypes
  <2>2. ThreadTypes
    BY DEF ThreadTypes
  <2>3. FlagTypes
    BY DEF FlagTypes
  <2> QED
    BY <2>1, <2>2, <2>3, TypeParts
<1>2. Shape /\ NoLostWakeup /\ Answered /\ Refusing /\ Completed
  BY DEF Shape, NoLostWakeup, Answered, Asleep, Refusing, Completed,
         ResetPending, None, Reset
<1>3. FlushedMeansEmpty
  BY DEF FlushedMeansEmpty, Empty, Holds, None
<1> QED
  BY <1>1, <1>2, <1>3 DEF Inductive
----------------------------------------------------------------------------
LEMMA DataStep == DataTypes /\ [Next]_vars => DataTypes'
<1> SUFFICES ASSUME DataTypes, [Next]_vars PROVE DataTypes'
  OBVIOUS
<1> USE DEF DataTypes
<1>1. CASE Enter
  BY <1>1 DEF Enter
<1>2. CASE Terminate
  BY <1>2, EmptySeq DEF Terminate
<1>3. CASE FlushQueue
  BY <1>3, EmptySeq DEF FlushQueue
<1>4. CASE TakeSample
  <2> DEFINE b == Append(batch, Head(list))
  <2>1. list # <<>> /\ list' = Tail(list) /\ Head(list).kind = "sample"
    BY <1>4 DEF TakeSample
  <2>2. Head(list) \in Entry /\ Tail(list) \in Seq(Entry)
    BY <2>1, HeadTail
  <2>3. Head(list) \in Item
    BY <2>1, <2>2, EntryKinds DEF Data
  <2>4. b \in Seq(Item) /\ Len(b) = Len(batch) + 1 /\ Len(batch) \in Nat
    BY <2>3, Appended, LenProperties
  <2>5. CASE Len(b) = BatchSize
    BY <1>4, <2>1, <2>2, <2>4, <2>5, EmptySeq DEF TakeSample, LeaveWith
  <2>6. CASE Len(b) # BatchSize
    <3>1. batch' = b /\ UNCHANGED <<thread, given, last>>
      BY <1>4, <2>6 DEF TakeSample
    <3> HIDE DEF b
    <3>2. Len(b) < BatchSize
      BY <2>4, <2>6
    <3> QED
      BY <2>1, <2>2, <2>4, <3>1, <3>2
  <2> QED
    BY <2>5, <2>6
<1>5. CASE TakeSend
  <2>1. list' \in Seq(Entry)
    BY <1>5, HeadTail DEF TakeSend
  <2>2. CASE batch = <<>>
    BY <1>5, <2>1, <2>2 DEF TakeSend
  <2>3. CASE batch # <<>>
    <3>1. LeaveWith(batch, None) /\ UNCHANGED <<given, last>>
      BY <1>5, <2>3 DEF TakeSend
    <3> QED
      BY <2>1, <3>1, EmptySeq DEF LeaveWith
  <2> QED
    BY <2>2, <2>3
<1>6. CASE TakePacket
  <2>1. list' \in Seq(Entry) /\ Head(list) \in Entry
    BY <1>6, HeadTail DEF TakePacket
  <2>2. Head(list) \in Item \cup {Reset}
    BY <1>6, <2>1, EntryKinds DEF TakePacket, Entry
  <2> QED
    BY <1>6, <2>1, <2>2, EmptySeq DEF TakePacket, LeaveWith
<1>7. CASE TakeNothing
  BY <1>7, EmptySeq DEF TakeNothing, LeaveWith
<1>8. CASE Sleep
  BY <1>8 DEF Sleep
<1>9. CASE Wake
  BY <1>9 DEF Wake
<1>10. CASE SendBatch
  BY <1>10, EmptySeq DEF SendBatch
<1>11. CASE Packet
  <2>1. given' \in Seq(Item)
    <3>1. CASE item \in Item
      BY <1>11, <3>1 DEF Packet
    <3>2. CASE item \notin Item
      <4>1. item.kind \notin {"segment", "eos"}
        BY <3>2, EntryKinds
      <4> QED
        BY <1>11, <4>1 DEF Packet
    <3> QED
      BY <3>1, <3>2
  <2> QED
    BY <1>11, <2>1 DEF Packet
<1>12. CASE PacketDone
  BY <1>12 DEF PacketDone
<1>13. ASSUME NEW result \in {"S_OK", "S_FALSE"}, Received(result)
       PROVE  DataTypes'
  BY <1>13 DEF Received
<1>14. CASE BeginFlush
  BY <1>14 DEF BeginFlush
<1>15. CASE EndFlush
  BY <1>15 DEF EndFlush
<1>16. CASE ResetQueue
  <2>1. Reset \in Entry
    BY DEF Entry
  <2> QED
    BY <1>16, <2>1, Appended DEF ResetQueue
<1>17. CASE Destroy
  BY <1>17 DEF Destroy
<1>18. CASE PassBegin
  BY <1>18 DEF PassBegin
<1>19. CASE FlushComplete
  BY <1>19 DEF FlushComplete
<1>20. CASE ClearFlushing
  BY <1>20 DEF ClearFlushing
<1>21. CASE PassEnd
  BY <1>21 DEF PassEnd
<1>22. CASE Restore
  BY <1>22 DEF Restore
<1>23. CASE ResetReturns
  BY <1>23 DEF ResetReturns
<1>24. CASE Join
  BY <1>24 DEF Join
<1>25. ASSUME NEW k \in 1..BatchSize, ReceiveMultiple(k)
       PROVE  DataTypes'
  BY <1>25, AcceptsTypes DEF ReceiveMultiple, Data
<1>26. CASE EOS
  <2>1. 1 \in 1..BatchSize
    OBVIOUS
  <2> QED
    BY <1>26, <2>1, AcceptsTypes DEF EOS, Data
<1>27. CASE SendAnyway
  <2>1. Send \in Entry
    BY DEF Entry
  <2> QED
    BY <1>27, <2>1, Appended DEF SendAnyway
<1>28. CASE NewSegment
  BY <1>28 DEF NewSegment
<1>29. CASE QueueSegment
  <2>1. 1 \in 1..BatchSize
    OBVIOUS
  <2> QED
    BY <1>29, <2>1, AcceptsTypes DEF QueueSegment, Data
<1>30. CASE UNCHANGED vars
  BY <1>30 DEF vars
<1> HIDE DEF DataTypes
<1> QED
  BY <1>1, <1>2, <1>3, <1>4, <1>5, <1>6, <1>7, <1>8, <1>9, <1>10, <1>11,
     <1>12, <1>13, <1>14, <1>15, <1>16, <1>17, <1>18, <1>19, <1>20, <1>21,
     <1>22, <1>23, <1>24, <1>25, <1>26, <1>27, <1>28, <1>29, <1>30, Steps

LEMMA ThreadStepTypes == ThreadTypes /\ [Next]_vars => ThreadTypes'
<1> SUFFICES ASSUME ThreadTypes, [Next]_vars PROVE ThreadTypes'
  OBVIOUS
<1> USE DEF ThreadTypes
<1>1. CASE Enter
  BY <1>1 DEF Enter
<1>2. CASE Terminate
  BY <1>2 DEF Terminate
<1>3. CASE FlushQueue
  BY <1>3 DEF FlushQueue
<1>4. CASE TakeSample
  BY <1>4 DEF TakeSample, Looking, LeaveWith
<1>5. CASE TakeSend
  BY <1>5 DEF TakeSend, Looking, LeaveWith
<1>6. CASE TakePacket
  BY <1>6 DEF TakePacket, Looking, LeaveWith
<1>7. CASE TakeNothing
  BY <1>7 DEF TakeNothing, Looking, LeaveWith
<1>8. CASE Sleep
  BY <1>8 DEF Sleep, Looking
<1>9. CASE Wake
  BY <1>9 DEF Wake
<1>10. CASE SendBatch
  BY <1>10 DEF SendBatch
<1>11. CASE Packet
  BY <1>11 DEF Packet
<1>12. CASE PacketDone
  BY <1>12 DEF PacketDone
<1>13. ASSUME NEW result \in {"S_OK", "S_FALSE"}, Received(result)
       PROVE  ThreadTypes'
  BY <1>13 DEF Received
<1>14. CASE BeginFlush
  BY <1>14 DEF BeginFlush, NotifyThread
<1>15. CASE EndFlush
  BY <1>15 DEF EndFlush
<1>16. CASE ResetQueue
  BY <1>16 DEF ResetQueue, NotifyThread
<1>17. CASE Destroy
  BY <1>17 DEF Destroy, NotifyThread
<1>18. CASE PassBegin
  BY <1>18 DEF PassBegin
<1>19. CASE FlushComplete
  BY <1>19 DEF FlushComplete
<1>20. CASE ClearFlushing
  BY <1>20 DEF ClearFlushing
<1>21. CASE PassEnd
  BY <1>21 DEF PassEnd
<1>22. CASE Restore
  BY <1>22 DEF Restore
<1>23. CASE ResetReturns
  BY <1>23 DEF ResetReturns
<1>24. CASE Join
  BY <1>24 DEF Join
<1>25. ASSUME NEW k \in 1..BatchSize, ReceiveMultiple(k)
       PROVE  ThreadTypes'
  BY <1>25 DEF ReceiveMultiple, NotifyThread
<1>26. CASE EOS
  BY <1>26 DEF EOS, NotifyThread
<1>27. CASE SendAnyway
  BY <1>27 DEF SendAnyway, NotifyThread
<1>28. CASE NewSegment
  BY <1>28 DEF NewSegment
<1>29. CASE QueueSegment
  BY <1>29 DEF QueueSegment, NotifyThread
<1>30. CASE UNCHANGED vars
  BY <1>30 DEF vars
<1> HIDE DEF ThreadTypes
<1> QED
  BY <1>1, <1>2, <1>3, <1>4, <1>5, <1>6, <1>7, <1>8, <1>9, <1>10, <1>11,
     <1>12, <1>13, <1>14, <1>15, <1>16, <1>17, <1>18, <1>19, <1>20, <1>21,
     <1>22, <1>23, <1>24, <1>25, <1>26, <1>27, <1>28, <1>29, <1>30, Steps

LEMMA FlagStep == FlagTypes /\ [Next]_vars => FlagTypes'
<1> SUFFICES ASSUME FlagTypes, [Next]_vars PROVE FlagTypes'
  OBVIOUS
<1> USE DEF FlagTypes
<1>1. CASE Enter
  BY <1>1 DEF Enter
<1>2. CASE Terminate
  BY <1>2 DEF Terminate
<1>3. CASE FlushQueue
  BY <1>3 DEF FlushQueue
<1>4. CASE TakeSample
  BY <1>4 DEF TakeSample
<1>5. CASE TakeSend
  BY <1>5 DEF TakeSend
<1>6. CASE TakePacket
  BY <1>6 DEF TakePacket
<1>7. CASE TakeNothing
  BY <1>7 DEF TakeNothing
<1>8. CASE Sleep
  BY <1>8 DEF Sleep
<1>9. CASE Wake
  BY <1>9 DEF Wake
<1>10. CASE SendBatch
  BY <1>10 DEF SendBatch
<1>11. CASE Packet
  BY <1>11 DEF Packet
<1>12. CASE PacketDone
  BY <1>12 DEF PacketDone
<1>13. ASSUME NEW result \in {"S_OK", "S_FALSE"}, Received(result)
       PROVE  FlagTypes'
  BY <1>13 DEF Received
<1>14. CASE BeginFlush
  BY <1>14 DEF BeginFlush
<1>15. CASE EndFlush
  BY <1>15 DEF EndFlush
<1>16. CASE ResetQueue
  BY <1>16 DEF ResetQueue
<1>17. CASE Destroy
  BY <1>17 DEF Destroy
<1>18. CASE PassBegin
  BY <1>18 DEF PassBegin
<1>19. CASE FlushComplete
  BY <1>19 DEF FlushComplete
<1>20. CASE ClearFlushing
  BY <1>20 DEF ClearFlushing
<1>21. CASE PassEnd
  BY <1>21 DEF PassEnd
<1>22. CASE Restore
  BY <1>22 DEF Restore
<1>23. CASE ResetReturns
  BY <1>23 DEF ResetReturns, ResetPending
<1>24. CASE Join
  BY <1>24 DEF Join
<1>25. ASSUME NEW k \in 1..BatchSize, ReceiveMultiple(k)
       PROVE  FlagTypes'
  BY <1>25 DEF ReceiveMultiple
<1>26. CASE EOS
  BY <1>26 DEF EOS
<1>27. CASE SendAnyway
  BY <1>27 DEF SendAnyway
<1>28. CASE NewSegment
  BY <1>28 DEF NewSegment
<1>29. CASE QueueSegment
  BY <1>29 DEF QueueSegment
<1>30. CASE UNCHANGED vars
  BY <1>30 DEF vars
<1> HIDE DEF FlagTypes
<1> QED
  BY <1>1, <1>2, <1>3, <1>4, <1>5, <1>6, <1>7, <1>8, <1>9, <1>10, <1>11,
     <1>12, <1>13, <1>14, <1>15, <1>16, <1>17, <1>18, <1>19, <1>20, <1>21,
     <1>22, <1>23, <1>24, <1>25, <1>26, <1>27, <1>28, <1>29, <1>30, Steps

LEMMA TypeStep == TypeOK /\ [Next]_vars => TypeOK'
<1>1. TypeOK' <=> DataTypes' /\ ThreadTypes' /\ FlagTypes'
  BY TypeParts, PTL
<1> QED
  BY <1>1, TypeParts, DataStep, ThreadStepTypes, FlagStep

LEMMA ShapeStep == TypeOK /\ Shape /\ [Next]_vars => Shape'
<1> SUFFICES ASSUME TypeOK, Shape, [Next]_vars PROVE Shape'
  OBVIOUS
<1> USE DEF Shape
<1>0. DataTypes
  BY TypeParts
<1>1. CASE Enter
  BY <1>1 DEF Enter
<1>2. CASE Terminate
  BY <1>2 DEF Terminate
<1>3. CASE FlushQueue
  BY <1>3 DEF FlushQueue
<1>4. CASE TakeSample
  <2> DEFINE b == Append(batch, Head(list))
  <2>1. list # <<>> /\ Head(list).kind = "sample"
    BY <1>4 DEF TakeSample
  <2>2. Head(list) \in Item
    <3>1. Head(list) \in Entry
      BY <1>0, <2>1, HeadTail DEF DataTypes
    <3> QED
      BY <2>1, <3>1, EntryKinds DEF Data
  <2>3. \A i \in DOMAIN b : b[i].kind = "sample"
    BY <1>0, <2>1, <2>2, Appended DEF DataTypes
  <2>4. tpc = "loop"
    BY <1>4 DEF TakeSample, Looking
  <2>5. CASE Len(b) = BatchSize
    <3>1. LeaveWith(b, None)
      BY <1>4, <2>5 DEF TakeSample
    <3> HIDE DEF b
    <3> QED
      BY <2>3, <3>1 DEF LeaveWith
  <2>6. CASE Len(b) # BatchSize
    <3>1. batch' = b /\ UNCHANGED thread
      BY <1>4, <2>6 DEF TakeSample
    <3> HIDE DEF b
    <3> QED
      BY <2>3, <2>4, <3>1
  <2> QED
    BY <2>5, <2>6
<1>5. CASE TakeSend
  <2>1. CASE batch = <<>>
    BY <1>5, <2>1 DEF TakeSend, Looking
  <2>2. CASE batch # <<>>
    <3>1. LeaveWith(batch, None)
      BY <1>5, <2>2 DEF TakeSend
    <3> QED
      BY <3>1 DEF LeaveWith
  <2> QED
    BY <2>1, <2>2
<1>6. CASE TakePacket
  BY <1>6 DEF TakePacket, LeaveWith
<1>7. CASE TakeNothing
  BY <1>7 DEF TakeNothing, LeaveWith
<1>8. CASE Sleep
  BY <1>8 DEF Sleep, Looking
<1>9. CASE Wake
  BY <1>9 DEF Wake
<1>10. CASE SendBatch
  BY <1>10 DEF SendBatch
<1>11. CASE Packet
  BY <1>11 DEF Packet
<1>12. CASE PacketDone
  BY <1>12 DEF PacketDone
<1>13. ASSUME NEW result \in {"S_OK", "S_FALSE"}, Received(result)
       PROVE  Shape'
  BY <1>13 DEF Received
<1>14. CASE BeginFlush
  BY <1>14 DEF BeginFlush
<1>15. CASE EndFlush
  BY <1>15 DEF EndFlush
<1>16. CASE ResetQueue
  BY <1>16 DEF ResetQueue
<1>17. CASE Destroy
  BY <1>17 DEF Destroy
<1>18. CASE PassBegin
  BY <1>18 DEF PassBegin
<1>19. CASE FlushComplete
  BY <1>19 DEF FlushComplete
<1>20. CASE ClearFlushing
  BY <1>20 DEF ClearFlushing
<1>21. CASE PassEnd
  BY <1>21 DEF PassEnd
<1>22. CASE Restore
  BY <1>22 DEF Restore
<1>23. CASE ResetReturns
  BY <1>23 DEF ResetReturns
<1>24. CASE Join
  BY <1>24 DEF Join
<1>25. ASSUME NEW k \in 1..BatchSize, ReceiveMultiple(k)
       PROVE  Shape'
  BY <1>25 DEF ReceiveMultiple
<1>26. CASE EOS
  BY <1>26 DEF EOS
<1>27. CASE SendAnyway
  BY <1>27 DEF SendAnyway
<1>28. CASE NewSegment
  BY <1>28 DEF NewSegment
<1>29. CASE QueueSegment
  BY <1>29 DEF QueueSegment
<1>30. CASE UNCHANGED vars
  BY <1>30 DEF vars
<1> HIDE DEF Shape
<1> QED
  BY <1>1, <1>2, <1>3, <1>4, <1>5, <1>6, <1>7, <1>8, <1>9, <1>10, <1>11,
     <1>12, <1>13, <1>14, <1>15, <1>16, <1>17, <1>18, <1>19, <1>20, <1>21,
     <1>22, <1>23, <1>24, <1>25, <1>26, <1>27, <1>28, <1>29, <1>30, Steps

LEMMA WakeStep == TypeOK /\ Answered /\ NoLostWakeup /\ [Next]_vars => NoLostWakeup'
<1> SUFFICES ASSUME TypeOK, Answered, NoLostWakeup, [Next]_vars PROVE NoLostWakeup'
  OBVIOUS
<1> USE DEF NoLostWakeup
<1>a. DataTypes /\ ThreadTypes
  BY TypeParts
<1>1. CASE Enter
  BY <1>1 DEF Enter
<1>2. CASE Terminate
  BY <1>2 DEF Terminate
<1>3. CASE FlushQueue
  <2>1. list' = <<>> /\ batch' = <<>> /\ event' /\ ~terminate'
    BY <1>3 DEF FlushQueue
  <2>2. Len(<<>>) = 0 /\ DOMAIN <<>> = {}
    OBVIOUS
  <2> QED
    BY <2>1, <2>2
<1>4. CASE TakeSample
  BY <1>4 DEF TakeSample, Looking, LeaveWith
<1>5. CASE TakeSend
  BY <1>5 DEF TakeSend, Looking, LeaveWith
<1>6. CASE TakePacket
  BY <1>6 DEF TakePacket, LeaveWith
<1>7. CASE TakeNothing
  BY <1>7 DEF TakeNothing, LeaveWith
<1>8. CASE Sleep
  <2>1. /\ list' = <<>> /\ batch' = batch /\ ~terminate' /\ ~flushing
        /\ UNCHANGED <<exact, cpc>>
    BY <1>8 DEF Sleep, Looking
  <2>2. Len(<<>>) = 0 /\ DOMAIN <<>> = {}
    OBVIOUS
  <2>3. Len(batch) < BatchSize /\ Len(batch) \in Nat
    BY <1>a, LenProperties DEF DataTypes
  <2>4. cpc' # "wait"
    BY <2>1 DEF Answered
  <2> QED
    BY <2>1, <2>2, <2>3, <2>4
<1>9. CASE Wake
  BY <1>9 DEF Wake
<1>10. CASE SendBatch
  BY <1>10 DEF SendBatch
<1>11. CASE Packet
  BY <1>11 DEF Packet
<1>12. CASE PacketDone
  BY <1>12 DEF PacketDone
<1>13. ASSUME NEW result \in {"S_OK", "S_FALSE"}, Received(result)
       PROVE  NoLostWakeup'
  BY <1>13 DEF Received
<1>14. CASE BeginFlush
  <2>1. CASE flushed /\ opt
    BY <1>14, <2>1 DEF BeginFlush
  <2>2. CASE ~(flushed /\ opt)
    <3>1. ~Asleep'
      BY <1>14, <1>a, <2>2, Notified DEF BeginFlush
    <3> QED
      BY <3>1 DEF Asleep
  <2> QED
    BY <2>1, <2>2
<1>15. CASE EndFlush
  BY <1>15 DEF EndFlush, Answered, Asleep
<1>16. CASE ResetQueue
  <2>1. ~Asleep'
    BY <1>16, <1>a, Notified DEF ResetQueue
  <2> QED
    BY <2>1 DEF Asleep
<1>17. CASE Destroy
  <2>1. ~Asleep'
    BY <1>17, <1>a, Notified DEF Destroy
  <2> QED
    BY <2>1 DEF Asleep
<1>18. CASE PassBegin
  BY <1>18 DEF PassBegin
<1>19. CASE FlushComplete
  BY <1>19 DEF FlushComplete
<1>20. CASE ClearFlushing
  BY <1>20 DEF ClearFlushing
<1>21. CASE PassEnd
  BY <1>21 DEF PassEnd
<1>22. CASE Restore
  BY <1>22 DEF Restore
<1>23. CASE ResetReturns
  BY <1>23 DEF ResetReturns
<1>24. CASE Join
  BY <1>24 DEF Join
<1>25. ASSUME NEW k \in 1..BatchSize, ReceiveMultiple(k)
       PROVE  NoLostWakeup'
  <2>1. CASE NotifyThread
    <3>1. ~Asleep'
      BY <1>25, <1>a, <2>1, Notified DEF ReceiveMultiple
    <3> QED
      BY <3>1 DEF Asleep
  <2>2. CASE ~NotifyThread
    <3>1. /\ exact /\ ~(Len(batch) + GetCount(list') >= BatchSize)
          /\ UNCHANGED <<signal, tpc, exact, terminate, cpc, event, batch>>
      BY <1>25, <2>2 DEF ReceiveMultiple
    <3>2. /\ list' \in Seq(Entry)
          /\ \A i \in DOMAIN list' :
               \/ i \in DOMAIN list /\ list'[i] = list[i]
               \/ list'[i].kind = "sample"
      BY <1>25, <1>a, AcceptsTypes DEF ReceiveMultiple, Data
    <3>3. GetCount(list') \in Nat /\ GetCount(list') >= Len(list')
      BY <3>2, CountAtLeast
    <3>4. Len(list') \in Nat /\ Len(batch) \in Nat
      BY <1>a, <3>2, LenProperties DEF DataTypes
    <3>5. Len(batch) + Len(list') < BatchSize
      BY <3>1, <3>3, <3>4
    <3> QED
      BY <3>1, <3>2, <3>5
  <2> QED
    BY <2>1, <2>2
<1>26. CASE EOS
  <2>1. ~Asleep'
    BY <1>26, <1>a, Notified DEF EOS
  <2> QED
    BY <2>1 DEF Asleep
<1>27. CASE SendAnyway
  <2>1. ~Asleep'
    BY <1>27, <1>a, Notified DEF SendAnyway
  <2> QED
    BY <2>1 DEF Asleep
<1>28. CASE NewSegment
  BY <1>28 DEF NewSegment
<1>29. CASE QueueSegment
  <2>1. ~Asleep'
    BY <1>29, <1>a, Notified DEF QueueSegment
  <2> QED
    BY <2>1 DEF Asleep
<1>30. CASE UNCHANGED vars
  BY <1>30 DEF vars
<1> HIDE DEF NoLostWakeup
<1> QED
  BY <1>1, <1>2, <1>3, <1>4, <1>5, <1>6, <1>7, <1>8, <1>9, <1>10, <1>11,
     <1>12, <1>13, <1>14, <1>15, <1>16, <1>17, <1>18, <1>19, <1>20, <1>21,
     <1>22, <1>23, <1>24, <1>25, <1>26, <1>27, <1>28, <1>29, <1>30, Steps

LEMMA AnsweredStep == TypeOK /\ Answered /\ [Next]_vars => Answered'
<1> SUFFICES ASSUME TypeOK, Answered, [Next]_vars PROVE Answered'
  OBVIOUS
<1> USE DEF Answered
<1>a. ThreadTypes
  BY TypeParts
<1>1. CASE Enter
  BY <1>1 DEF Enter, Asleep
<1>2. CASE Terminate
  BY <1>2 DEF Terminate, Asleep
<1>3. CASE FlushQueue
  BY <1>3 DEF FlushQueue, Asleep
<1>4. CASE TakeSample
  BY <1>4 DEF TakeSample, Looking, LeaveWith, Asleep
<1>5. CASE TakeSend
  BY <1>5 DEF TakeSend, Looking, LeaveWith, Asleep
<1>6. CASE TakePacket
  BY <1>6 DEF TakePacket, LeaveWith, Asleep
<1>7. CASE TakeNothing
  BY <1>7 DEF TakeNothing, LeaveWith, Asleep
<1>8. CASE Sleep
  BY <1>8 DEF Sleep, Looking, Asleep
<1>9. CASE Wake
  BY <1>9 DEF Wake, Asleep
<1>10. CASE SendBatch
  BY <1>10 DEF SendBatch, Asleep
<1>11. CASE Packet
  BY <1>11 DEF Packet, Asleep
<1>12. CASE PacketDone
  BY <1>12 DEF PacketDone, Asleep
<1>13. ASSUME NEW result \in {"S_OK", "S_FALSE"}, Received(result)
       PROVE  Answered'
  BY <1>13 DEF Received, Asleep
<1>14. CASE BeginFlush
  <2>1. CASE flushed /\ opt
    BY <1>14, <2>1 DEF BeginFlush
  <2>2. CASE ~(flushed /\ opt)
    <3>1. ~Asleep'
      BY <1>14, <1>a, <2>2, Notified DEF BeginFlush
    <3> QED
      BY <1>14, <2>2, <3>1 DEF BeginFlush
  <2> QED
    BY <2>1, <2>2
<1>15. CASE EndFlush
  BY <1>15 DEF EndFlush, Asleep
<1>16. CASE ResetQueue
  <2>1. ~Asleep'
    BY <1>16, <1>a, Notified DEF ResetQueue
  <2> QED
    BY <1>16, <2>1 DEF ResetQueue
<1>17. CASE Destroy
  <2>1. ~Asleep'
    BY <1>17, <1>a, Notified DEF Destroy
  <2> QED
    BY <1>17, <2>1 DEF Destroy
<1>18. CASE PassBegin
  BY <1>18 DEF PassBegin, Asleep
<1>19. CASE FlushComplete
  BY <1>19 DEF FlushComplete, Asleep
<1>20. CASE ClearFlushing
  BY <1>20 DEF ClearFlushing, Asleep
<1>21. CASE PassEnd
  BY <1>21 DEF PassEnd, Asleep
<1>22. CASE Restore
  BY <1>22 DEF Restore, Asleep
<1>23. CASE ResetReturns
  BY <1>23 DEF ResetReturns, Asleep
<1>24. CASE Join
  BY <1>24 DEF Join, Asleep
<1>25. ASSUME NEW k \in 1..BatchSize, ReceiveMultiple(k)
       PROVE  Answered'
  <2>1. CASE NotifyThread
    <3>1. ~Asleep'
      BY <1>25, <1>a, <2>1, Notified DEF ReceiveMultiple
    <3> QED
      BY <1>25, <3>1 DEF ReceiveMultiple
  <2>2. CASE UNCHANGED signal
    BY <1>25, <2>2 DEF ReceiveMultiple, Asleep
  <2> QED
    BY <1>25, <2>1, <2>2 DEF ReceiveMultiple
<1>26. CASE EOS
  <2>1. ~Asleep'
    BY <1>26, <1>a, Notified DEF EOS
  <2> QED
    BY <1>26, <2>1 DEF EOS
<1>27. CASE SendAnyway
  <2>1. ~Asleep'
    BY <1>27, <1>a, Notified DEF SendAnyway
  <2> QED
    BY <1>27, <2>1 DEF SendAnyway
<1>28. CASE NewSegment
  BY <1>28 DEF NewSegment, Asleep
<1>29. CASE QueueSegment
  <2>1. ~Asleep'
    BY <1>29, <1>a, Notified DEF QueueSegment
  <2> QED
    BY <1>29, <2>1 DEF QueueSegment
<1>30. CASE UNCHANGED vars
  BY <1>30 DEF vars, Asleep
<1> HIDE DEF Answered
<1> QED
  BY <1>1, <1>2, <1>3, <1>4, <1>5, <1>6, <1>7, <1>8, <1>9, <1>10, <1>11,
     <1>12, <1>13, <1>14, <1>15, <1>16, <1>17, <1>18, <1>19, <1>20, <1>21,
     <1>22, <1>23, <1>24, <1>25, <1>26, <1>27, <1>28, <1>29, <1>30, Steps

(* Taking an entry out leaves no packet of a Reset that was not there.      *)
LEMMA PendingTail ==
  ASSUME DataTypes, list # <<>>, list' = Tail(list),
         item' \in {item, None, Head(list)}, tpc' # "reset"
  PROVE  ResetPending' => ResetPending
<1>1. Head(list) = list[1] /\ 1 \in DOMAIN list
  BY HeadTail DEF DataTypes
<1>2. \A i \in DOMAIN list' : i + 1 \in DOMAIN list /\ list'[i] = list[i + 1]
  BY HeadTail DEF DataTypes
<1>3. None # Reset
  BY EntryKinds
<1> QED
  BY <1>1, <1>2, <1>3 DEF ResetPending

LEMMA RefusingStep == TypeOK /\ Refusing /\ [Next]_vars => Refusing'
<1> SUFFICES ASSUME TypeOK, Refusing, [Next]_vars PROVE Refusing'
  OBVIOUS
<1> USE DEF Refusing
<1>a. DataTypes
  BY TypeParts
<1>b. 1 \in 1..BatchSize
  OBVIOUS
<1>1. CASE Enter
  BY <1>1 DEF Enter, ResetPending
<1>2. CASE Terminate
  <2>1. DOMAIN <<>> = {}
    OBVIOUS
  <2> QED
    BY <1>2, <2>1 DEF Terminate, ResetPending
<1>3. CASE FlushQueue
  <2>1. DOMAIN <<>> = {}
    OBVIOUS
  <2> QED
    BY <1>3, <2>1 DEF FlushQueue, ResetPending
<1>4. CASE TakeSample
  <2>1. /\ list # <<>> /\ list' = Tail(list)
        /\ item' \in {item, None, Head(list)} /\ tpc' # "reset"
        /\ UNCHANGED <<cpc, hr, early>>
    BY <1>4 DEF TakeSample, Looking, LeaveWith
  <2>2. ResetPending' => ResetPending
    BY <1>a, <2>1, PendingTail
  <2> QED
    BY <2>1, <2>2
<1>5. CASE TakeSend
  <2>1. /\ list # <<>> /\ list' = Tail(list)
        /\ item' \in {item, None, Head(list)} /\ tpc' # "reset"
        /\ UNCHANGED <<cpc, hr, early>>
    BY <1>5 DEF TakeSend, Looking, LeaveWith
  <2>2. ResetPending' => ResetPending
    BY <1>a, <2>1, PendingTail
  <2> QED
    BY <2>1, <2>2
<1>6. CASE TakePacket
  <2>1. /\ list # <<>> /\ list' = Tail(list)
        /\ item' \in {item, None, Head(list)} /\ tpc' # "reset"
        /\ UNCHANGED <<cpc, hr, early>>
    BY <1>6 DEF TakePacket, Looking, LeaveWith
  <2>2. ResetPending' => ResetPending
    BY <1>a, <2>1, PendingTail
  <2> QED
    BY <2>1, <2>2
<1>7. CASE TakeNothing
  BY <1>7, EntryKinds DEF TakeNothing, LeaveWith, ResetPending, Looking
<1>8. CASE Sleep
  BY <1>8 DEF Sleep, Looking, ResetPending
<1>9. CASE Wake
  BY <1>9 DEF Wake, ResetPending
<1>10. CASE SendBatch
  BY <1>10 DEF SendBatch, ResetPending
<1>11. CASE Packet
  BY <1>11, EntryKinds DEF Packet, ResetPending
<1>12. CASE PacketDone
  BY <1>12 DEF PacketDone, ResetPending
<1>13. ASSUME NEW result \in {"S_OK", "S_FALSE"}, Received(result)
       PROVE  Refusing'
  BY <1>13 DEF Received, ResetPending
<1>14. CASE BeginFlush
  BY <1>14 DEF BeginFlush, ResetPending
<1>15. CASE EndFlush
  BY <1>15 DEF EndFlush, ResetPending
<1>16. CASE ResetQueue
  BY <1>16 DEF ResetQueue, ResetPending
<1>17. CASE Destroy
  BY <1>17 DEF Destroy, ResetPending
<1>18. CASE PassBegin
  BY <1>18 DEF PassBegin, ResetPending
<1>19. CASE FlushComplete
  BY <1>19 DEF FlushComplete, ResetPending
<1>20. CASE ClearFlushing
  BY <1>20 DEF ClearFlushing, ResetPending
<1>21. CASE PassEnd
  BY <1>21 DEF PassEnd, ResetPending
<1>22. CASE Restore
  BY <1>22 DEF Restore, ResetPending
<1>23. CASE ResetReturns
  BY <1>23 DEF ResetReturns, ResetPending
<1>24. CASE Join
  BY <1>24 DEF Join, ResetPending
<1>25. ASSUME NEW k \in 1..BatchSize, ReceiveMultiple(k)
       PROVE  Refusing'
  <2>1. \A i \in DOMAIN list' :
          (i \in DOMAIN list /\ list'[i] = list[i]) \/ list'[i].kind = "sample"
    BY <1>25, <1>a, <1>b, AcceptsTypes DEF ReceiveMultiple, Data
  <2>2. UNCHANGED <<item, tpc, cpc, hr, early>>
    BY <1>25 DEF ReceiveMultiple
  <2>3. ResetPending' => ResetPending
    BY <2>1, <2>2, EntryKinds DEF ResetPending
  <2> QED
    BY <2>2, <2>3
<1>26. CASE EOS
  <2>1. \A i \in DOMAIN list' :
          (i \in DOMAIN list /\ list'[i] = list[i]) \/ list'[i].kind = "eos"
    BY <1>26, <1>a, <1>b, AcceptsTypes DEF EOS, Data
  <2>2. UNCHANGED <<item, tpc, cpc, hr, early>>
    BY <1>26 DEF EOS
  <2>3. ResetPending' => ResetPending
    BY <2>1, <2>2, EntryKinds DEF ResetPending
  <2> QED
    BY <2>2, <2>3
<1>27. CASE SendAnyway
  <2>1. Send \in Entry /\ Send # Reset
    BY EntryKinds DEF Entry
  <2>2. \A i \in DOMAIN list' :
          (i \in DOMAIN list /\ list'[i] = list[i]) \/ list'[i] = Send
    BY <1>27, <1>a, <2>1, Appended DEF SendAnyway, DataTypes
  <2>3. UNCHANGED <<item, tpc, cpc, hr, early>>
    BY <1>27 DEF SendAnyway
  <2>4. ResetPending' => ResetPending
    BY <2>1, <2>2, <2>3 DEF ResetPending
  <2> QED
    BY <2>3, <2>4
<1>28. CASE NewSegment
  BY <1>28 DEF NewSegment, ResetPending
<1>29. CASE QueueSegment
  <2>1. \A i \in DOMAIN list' :
          (i \in DOMAIN list /\ list'[i] = list[i]) \/ list'[i].kind = "segment"
    BY <1>29, <1>a, <1>b, AcceptsTypes DEF QueueSegment, Data
  <2>2. UNCHANGED <<item, tpc, cpc, hr, early>>
    BY <1>29 DEF QueueSegment
  <2>3. ResetPending' => ResetPending
    BY <2>1, <2>2, EntryKinds DEF ResetPending
  <2> QED
    BY <2>2, <2>3
<1>30. CASE UNCHANGED vars
  BY <1>30 DEF vars, ResetPending
<1> HIDE DEF Refusing
<1> QED
  BY <1>1, <1>2, <1>3, <1>4, <1>5, <1>6, <1>7, <1>8, <1>9, <1>10, <1>11,
     <1>12, <1>13, <1>14, <1>15, <1>16, <1>17, <1>18, <1>19, <1>20, <1>21,
     <1>22, <1>23, <1>24, <1>25, <1>26, <1>27, <1>28, <1>29, <1>30, Steps

LEMMA HoldsTail ==
  ASSUME DataTypes, list # <<>>
  PROVE  /\ Holds(Tail(list)) => Holds(list)
         /\ Head(list).kind \in {"sample", "eos"} => Holds(list)
<1>1. Head(list) = list[1] /\ 1 \in DOMAIN list
  BY HeadTail DEF DataTypes
<1>2. \A i \in DOMAIN Tail(list) :
        i + 1 \in DOMAIN list /\ Tail(list)[i] = list[i + 1]
  BY HeadTail DEF DataTypes
<1> QED
  BY <1>1, <1>2 DEF Holds

LEMMA FirstElement ==
  ASSUME NEW S, NEW q \in Seq(S), q # <<>>
  PROVE  1 \in DOMAIN q
BY HeadTail

Accepting == ~flushed' /\ hr = "S_OK" /\ MayStream

(* Only data that is accepted ends the emptiness, and it clears m_bFlushed. *)
LEMMA EmptyKept == TypeOK /\ Shape /\ Empty /\ [Next]_vars => Empty' \/ Accepting
<1> SUFFICES ASSUME TypeOK, Shape, Empty, [Next]_vars PROVE Empty' \/ Accepting
  OBVIOUS
<1> USE DEF Empty, Accepting
<1>a. DataTypes
  BY TypeParts
<1>b. 1 \in 1..BatchSize
  OBVIOUS
<1>1. CASE Enter
  BY <1>1 DEF Enter, Holds
<1>2. CASE Terminate
  <2>1. DOMAIN <<>> = {}
    OBVIOUS
  <2> QED
    BY <1>2, <2>1 DEF Terminate, Holds
<1>3. CASE FlushQueue
  <2>1. DOMAIN <<>> = {}
    OBVIOUS
  <2> QED
    BY <1>3, <2>1 DEF FlushQueue, Holds
<1>4. CASE TakeSample
  <2>1. list # <<>> /\ Head(list).kind = "sample"
    BY <1>4 DEF TakeSample
  <2> QED
    BY <1>a, <2>1, HoldsTail
<1>5. CASE TakeSend
  <2>1. list # <<>> /\ list' = Tail(list)
    BY <1>5 DEF TakeSend
  <2>2. ~Holds(list')
    BY <1>a, <2>1, HoldsTail
  <2>3. CASE batch = <<>>
    BY <1>5, <2>2, <2>3 DEF TakeSend, Holds, Looking
  <2>4. CASE batch # <<>>
    <3>1. LeaveWith(batch, None)
      BY <1>5, <2>4 DEF TakeSend
    <3> QED
      BY <2>2, <3>1, EntryKinds DEF LeaveWith, Holds
  <2> QED
    BY <2>3, <2>4
<1>6. CASE TakePacket
  <2>1. list # <<>> /\ list' = Tail(list) /\ LeaveWith(batch, Head(list))
    BY <1>6 DEF TakePacket
  <2>2. ~Holds(list') /\ Head(list).kind # "eos"
    BY <1>a, <2>1, HoldsTail
  <2> QED
    BY <2>1, <2>2 DEF LeaveWith, Holds
<1>7. CASE TakeNothing
  BY <1>7, EntryKinds DEF TakeNothing, LeaveWith, Holds
<1>8. CASE Sleep
  BY <1>8 DEF Sleep, Holds
<1>9. CASE Wake
  BY <1>9 DEF Wake, Holds
<1>10. CASE SendBatch
  <2>1. sending = <<>>
    BY <1>a, FirstElement DEF Shape, Holds, DataTypes
  <2> QED
    BY <1>10, <2>1 DEF SendBatch, Holds
<1>11. CASE Packet
  BY <1>11, EntryKinds DEF Packet, Holds
<1>12. CASE PacketDone
  BY <1>12 DEF PacketDone, Holds
<1>13. ASSUME NEW result \in {"S_OK", "S_FALSE"}, Received(result)
       PROVE  Empty' \/ Accepting
  BY <1>13 DEF Received, Holds
<1>14. CASE BeginFlush
  BY <1>14 DEF BeginFlush, Holds
<1>15. CASE EndFlush
  BY <1>15 DEF EndFlush, Holds
<1>16. CASE ResetQueue
  <2>1. Reset \in Entry /\ Reset.kind = "reset"
    BY EntryKinds DEF Entry
  <2>2. \A i \in DOMAIN list' :
          (i \in DOMAIN list /\ list'[i] = list[i]) \/ list'[i] = Reset
    BY <1>16, <1>a, <2>1, Appended DEF ResetQueue, DataTypes
  <2> QED
    BY <1>16, <2>1, <2>2 DEF ResetQueue, Holds
<1>17. CASE Destroy
  BY <1>17 DEF Destroy, Holds
<1>18. CASE PassBegin
  BY <1>18 DEF PassBegin, Holds
<1>19. CASE FlushComplete
  BY <1>19 DEF FlushComplete, Holds
<1>20. CASE ClearFlushing
  BY <1>20 DEF ClearFlushing, Holds
<1>21. CASE PassEnd
  BY <1>21 DEF PassEnd, Holds
<1>22. CASE Restore
  BY <1>22 DEF Restore, Holds
<1>23. CASE ResetReturns
  BY <1>23 DEF ResetReturns, Holds
<1>24. CASE Join
  BY <1>24 DEF Join, Holds
<1>25. ASSUME NEW k \in 1..BatchSize, ReceiveMultiple(k)
       PROVE  Empty' \/ Accepting
  BY <1>25 DEF ReceiveMultiple
<1>26. CASE EOS
  BY <1>26 DEF EOS
<1>27. CASE SendAnyway
  <2>1. Send \in Entry /\ Send.kind = "send"
    BY EntryKinds DEF Entry
  <2>2. \A i \in DOMAIN list' :
          (i \in DOMAIN list /\ list'[i] = list[i]) \/ list'[i] = Send
    BY <1>27, <1>a, <2>1, Appended DEF SendAnyway, DataTypes
  <2> QED
    BY <1>27, <2>1, <2>2 DEF SendAnyway, Holds
<1>28. CASE NewSegment
  BY <1>28 DEF NewSegment, Holds
<1>29. CASE QueueSegment
  <2>1. \A i \in DOMAIN list' :
          (i \in DOMAIN list /\ list'[i] = list[i]) \/ list'[i].kind = "segment"
    BY <1>29, <1>a, <1>b, AcceptsTypes DEF QueueSegment, Data
  <2> QED
    BY <1>29, <2>1 DEF QueueSegment, Holds
<1>30. CASE UNCHANGED vars
  BY <1>30 DEF vars, Holds
<1> HIDE DEF Empty, Accepting
<1> QED
  BY <1>1, <1>2, <1>3, <1>4, <1>5, <1>6, <1>7, <1>8, <1>9, <1>10, <1>11,
     <1>12, <1>13, <1>14, <1>15, <1>16, <1>17, <1>18, <1>19, <1>20, <1>21,
     <1>22, <1>23, <1>24, <1>25, <1>26, <1>27, <1>28, <1>29, <1>30, Steps

LEMMA CompletedStep == Inductive /\ [Next]_vars => Completed'
<1> SUFFICES ASSUME Inductive, [Next]_vars PROVE Completed'
  OBVIOUS
<1> USE DEF Inductive, Completed
<1>a. Empty => Empty' \/ Accepting
  BY EmptyKept
<1>1. CASE Enter
  BY <1>1, <1>a DEF Enter, Refusing, MayStream, Accepting
<1>2. CASE Terminate
  BY <1>2, <1>a DEF Terminate, Refusing, MayStream, Accepting
<1>3. CASE FlushQueue
  <2>1. DOMAIN <<>> = {}
    OBVIOUS
  <2>2. sending' = <<>> /\ item' = None
    BY <1>3 DEF FlushQueue, Shape
  <2>3. Empty'
    BY <1>3, <2>1, <2>2, EntryKinds DEF FlushQueue, Empty, Holds
  <2> QED
    BY <2>3
<1>4. CASE TakeSample
  BY <1>4 DEF TakeSample, Looking, Answered
<1>5. CASE TakeSend
  BY <1>5 DEF TakeSend, Looking, Answered
<1>6. CASE TakePacket
  BY <1>6 DEF TakePacket, Looking, Answered
<1>7. CASE TakeNothing
  BY <1>7 DEF TakeNothing, Looking, Answered
<1>8. CASE Sleep
  BY <1>8 DEF Sleep, Looking, Answered
<1>9. CASE Wake
  BY <1>9, <1>a DEF Wake, Refusing, MayStream, Accepting
<1>10. CASE SendBatch
  BY <1>10, <1>a DEF SendBatch, Refusing, MayStream, Accepting
<1>11. CASE Packet
  BY <1>11, <1>a DEF Packet, Refusing, MayStream, Accepting
<1>12. CASE PacketDone
  BY <1>12, <1>a DEF PacketDone, Refusing, ResetPending, Accepting
<1>13. ASSUME NEW result \in {"S_OK", "S_FALSE"}, Received(result)
       PROVE  Completed'
  BY <1>13, <1>a DEF Received, Refusing, MayStream, Accepting
<1>14. CASE BeginFlush
  BY <1>14, <1>a DEF BeginFlush, FlushedMeansEmpty, Accepting
<1>15. CASE EndFlush
  BY <1>15, <1>a DEF EndFlush, Refusing, MayStream, Accepting
<1>16. CASE ResetQueue
  BY <1>16, <1>a DEF ResetQueue, Refusing, MayStream, Accepting
<1>17. CASE Destroy
  BY <1>17, <1>a DEF Destroy, Refusing, MayStream, Accepting
<1>18. CASE PassBegin
  BY <1>18, <1>a DEF PassBegin, Refusing, MayStream, Accepting
<1>19. CASE FlushComplete
  BY <1>19, <1>a DEF FlushComplete, Refusing, MayStream, Accepting
<1>20. CASE ClearFlushing
  BY <1>20, <1>a DEF ClearFlushing, Refusing, MayStream, Accepting
<1>21. CASE PassEnd
  BY <1>21, <1>a DEF PassEnd, Refusing, MayStream, Accepting
<1>22. CASE Restore
  BY <1>22, <1>a DEF Restore, Refusing, MayStream, Accepting
<1>23. CASE ResetReturns
  BY <1>23, <1>a DEF ResetReturns, Refusing, MayStream, Accepting
<1>24. CASE Join
  BY <1>24, <1>a DEF Join, Refusing, MayStream, Accepting
<1>25. ASSUME NEW k \in 1..BatchSize, ReceiveMultiple(k)
       PROVE  Completed'
  BY <1>25 DEF ReceiveMultiple, MayStream, Refusing
<1>26. CASE EOS
  BY <1>26 DEF EOS, MayStream, Refusing
<1>27. CASE SendAnyway
  BY <1>27, <1>a DEF SendAnyway, Refusing, MayStream, Accepting
<1>28. CASE NewSegment
  BY <1>28, <1>a DEF NewSegment, Refusing, MayStream, Accepting
<1>29. CASE QueueSegment
  BY <1>29, <1>a DEF QueueSegment, Refusing, MayStream, Accepting
<1>30. CASE UNCHANGED vars
  BY <1>30, <1>a DEF vars, Refusing, MayStream, Accepting
<1> HIDE DEF Inductive, Completed
<1> QED
  BY <1>1, <1>2, <1>3, <1>4, <1>5, <1>6, <1>7, <1>8, <1>9, <1>10, <1>11,
     <1>12, <1>13, <1>14, <1>15, <1>16, <1>17, <1>18, <1>19, <1>20, <1>21,
     <1>22, <1>23, <1>24, <1>25, <1>26, <1>27, <1>28, <1>29, <1>30, Steps

LEMMA FlushedStep == Inductive /\ [Next]_vars => FlushedMeansEmpty'
<1> SUFFICES ASSUME Inductive, [Next]_vars PROVE FlushedMeansEmpty'
  OBVIOUS
<1> USE DEF Inductive, FlushedMeansEmpty
<1>a. Empty => Empty' \/ Accepting
  BY EmptyKept
<1>1. CASE Enter
  BY <1>1, <1>a DEF Enter, Accepting
<1>2. CASE Terminate
  BY <1>2, <1>a DEF Terminate, Accepting
<1>3. CASE FlushQueue
  BY <1>3, <1>a DEF FlushQueue, Accepting
<1>4. CASE TakeSample
  BY <1>4, <1>a DEF TakeSample, Accepting
<1>5. CASE TakeSend
  BY <1>5, <1>a DEF TakeSend, Accepting
<1>6. CASE TakePacket
  BY <1>6, <1>a DEF TakePacket, Accepting
<1>7. CASE TakeNothing
  BY <1>7, <1>a DEF TakeNothing, Accepting
<1>8. CASE Sleep
  BY <1>8, <1>a DEF Sleep, Accepting
<1>9. CASE Wake
  BY <1>9, <1>a DEF Wake, Accepting
<1>10. CASE SendBatch
  BY <1>10, <1>a DEF SendBatch, Accepting
<1>11. CASE Packet
  BY <1>11, <1>a DEF Packet, Accepting
<1>12. CASE PacketDone
  BY <1>12, <1>a DEF PacketDone, Accepting
<1>13. ASSUME NEW result \in {"S_OK", "S_FALSE"}, Received(result)
       PROVE  FlushedMeansEmpty'
  BY <1>13, <1>a DEF Received, Accepting
<1>14. CASE BeginFlush
  BY <1>14, <1>a DEF BeginFlush, Accepting
<1>15. CASE EndFlush
  BY <1>15, <1>a DEF EndFlush, Accepting
<1>16. CASE ResetQueue
  BY <1>16, <1>a DEF ResetQueue, Accepting
<1>17. CASE Destroy
  BY <1>17, <1>a DEF Destroy, Accepting
<1>18. CASE PassBegin
  BY <1>18, <1>a DEF PassBegin, Accepting
<1>19. CASE FlushComplete
  BY <1>19, <1>a DEF FlushComplete, Accepting
<1>20. CASE ClearFlushing
  BY <1>20 DEF ClearFlushing, Completed, Empty, Holds
<1>21. CASE PassEnd
  BY <1>21, <1>a DEF PassEnd, Accepting
<1>22. CASE Restore
  BY <1>22, <1>a DEF Restore, Accepting
<1>23. CASE ResetReturns
  BY <1>23, <1>a DEF ResetReturns, Accepting
<1>24. CASE Join
  BY <1>24, <1>a DEF Join, Accepting
<1>25. ASSUME NEW k \in 1..BatchSize, ReceiveMultiple(k)
       PROVE  FlushedMeansEmpty'
  BY <1>25 DEF ReceiveMultiple
<1>26. CASE EOS
  BY <1>26 DEF EOS
<1>27. CASE SendAnyway
  BY <1>27, <1>a DEF SendAnyway, Accepting
<1>28. CASE NewSegment
  BY <1>28, <1>a DEF NewSegment, Accepting
<1>29. CASE QueueSegment
  BY <1>29, <1>a DEF QueueSegment, Accepting
<1>30. CASE UNCHANGED vars
  BY <1>30, <1>a DEF vars, Accepting
<1> HIDE DEF Inductive, FlushedMeansEmpty
<1> QED
  BY <1>1, <1>2, <1>3, <1>4, <1>5, <1>6, <1>7, <1>8, <1>9, <1>10, <1>11,
     <1>12, <1>13, <1>14, <1>15, <1>16, <1>17, <1>18, <1>19, <1>20, <1>21,
     <1>22, <1>23, <1>24, <1>25, <1>26, <1>27, <1>28, <1>29, <1>30, Steps

LEMMA InductiveStep == Inductive /\ [Next]_vars => Inductive'
BY TypeStep, ShapeStep, WakeStep, AnsweredStep, RefusingStep, CompletedStep,
   FlushedStep DEF Inductive

(* The inductive invariant itself.                                         *)
THEOREM InductiveCorrect == Spec => []Inductive
BY InitInductive, InductiveStep, PTL DEF Spec

(* The types of Spec; they need nothing else.                              *)
THEOREM TypeCorrect == Spec => []TypeOK
<1>1. Init => TypeOK
  BY InitInductive DEF Inductive
<1> QED
  BY <1>1, TypeStep, PTL DEF Spec

(* A thread that sleeps without a token has nothing to do, for every batch *)
(* size and every interleaving.                                            *)
THEOREM NoLostWakeupCorrect == Spec => []NoLostWakeup
<1>1. Inductive => NoLostWakeup
  BY DEF Inductive
<1> QED
  BY <1>1, InductiveCorrect, PTL

(* A flush leaves no sample and no end of stream behind.                   *)
THEOREM FlushedMeansEmptyCorrect == Spec => []FlushedMeansEmpty
<1>1. Inductive => FlushedMeansEmpty
  BY DEF Inductive
<1> QED
  BY <1>1, InductiveCorrect, PTL

(* The thread sleeps only on nothing to do, and a flush leaves nothing.    *)
THEOREM QueueAwakeCorrect == Spec => []QueueAwake
BY TypeCorrect, NoLostWakeupCorrect, FlushedMeansEmptyCorrect, PTL DEF QueueAwake

-----------------------------------------------------------------------------
(* The queue as a FIFO.                                                    *)

(* No entry, no data.                                                      *)
LEMMA DataNil == DataOf(<<>>) = <<>>
  <1>1. <<>> \in Seq(Item)
    OBVIOUS
  <1> QED
    BY <1>1, DataAll

(* The first entry goes, the data of the rest remain.                      *)
LEMMA DataHeadTail ==
  ASSUME NEW s \in Seq(Entry), s # <<>>
  PROVE  DataOf(s) = Datum(Head(s)) \o DataOf(Tail(s))
  <1>1. Head(s) \in Entry /\ Tail(s) \in Seq(Entry) /\ <<Head(s)>> \in Seq(Entry)
    BY HeadTail
  <1>2. s = <<Head(s)>> \o Tail(s)
    BY <1>1
  <1>3. DataOf(<<Head(s)>> \o Tail(s)) = DataOf(<<Head(s)>>) \o DataOf(Tail(s))
    BY <1>1, DataJoin
  <1> QED
    BY <1>1, <1>2, <1>3, DataOne

(* A packet at the end of a list adds no data.                             *)
LEMMA DataAppend ==
  ASSUME NEW s \in Seq(Entry), NEW x \in {Send, Reset}
  PROVE  DataOf(Append(s, x)) = DataOf(s)
  <1>1. x \in Entry /\ <<x>> \in Seq(Entry)
    BY DEF Entry
  <1>2. Append(s, x) = s \o <<x>>
    BY <1>1, AppendIsConcat
  <1>3. DataOf(s \o <<x>>) = DataOf(s) \o DataOf(<<x>>)
    BY <1>1, DataJoin
  <1>4. Datum(x) = <<>>
    BY DEF Datum, IsData, Data, Send, Reset
  <1>5. DataOf(s) \o <<>> = DataOf(s)
    BY DataType, ConcatEmptySeq
  <1> QED
    BY <1>1, <1>2, <1>3, <1>4, <1>5, DataOne

(* The two parts of a sequence joined from two.                            *)
LEMMA Split ==
  ASSUME NEW p \in Seq(Item), NEW q \in Seq(Item), p # <<>>
  PROVE  /\ Len(p) \in 1..Len(p \o q)
         /\ SubSeq(p \o q, 1, Len(p)) = p
         /\ SubSeq(p \o q, Len(p) + 1, Len(p \o q)) = q
  <1> DEFINE m == Len(p)
             n == Len(q)
             w == p \o q
  <1>1. m \in Nat \ {0} /\ n \in Nat /\ w \in Seq(Item) /\ Len(w) = m + n
    BY EmptySeq, ConcatProperties
  <1>2. m \in 1..m /\ 1 \in 1..m
    BY <1>1
  <1>3. SubSeq(w, 1, m) = p
    BY <1>2, SubSeqOfConcat1, SubSeqFull
  <1>4. SubSeq(w, m + 1, m + n) = q
    <2>1. CASE n = 0
      <3>1. q = <<>>
        BY <2>1
      <3>2. m + n < m + 1 /\ m + 1 \in Int /\ m + n \in Int
        BY <2>1, <1>1
      <3> HIDE DEF m, n, w
      <3>3. SubSeq(w, m + 1, m + n) = <<>>
        BY <3>2, SubSeqEmpty
      <3> QED
        BY <3>1, <3>3
    <2>2. CASE n # 0
      <3>1. m + 1 \in m + 1..m + n /\ m + n \in m + 1..m + n
        BY <2>2, <1>1
      <3>2. SubSeq(w, m + 1, m + n) = SubSeq(q, (m + 1) - m, (m + n) - m)
        BY <3>1, SubSeqOfConcat2
      <3>3. (m + 1) - m = 1 /\ (m + n) - m = n
        BY <1>1
      <3> QED
        BY <3>2, <3>3, SubSeqFull
    <2> QED
      BY <2>1, <2>2
  <1>5. m \in 1..(m + n)
    BY <1>1
  <1> QED
    BY <1>1, <1>3, <1>4, <1>5

(* What is joined to a sequence leaves it as the beginning.                *)
LEMMA Prefix ==
  ASSUME NEW p \in Seq(Item), NEW q \in Seq(Item), q # <<>>
  PROVE  Len(p \o q) > Len(p) /\ SubSeq(p \o q, 1, Len(p)) = p
  <1>1. Len(p) \in Nat /\ Len(q) \in Nat \ {0} /\ Len(p \o q) = Len(p) + Len(q)
    BY EmptySeq, ConcatProperties
  <1>2. CASE p = <<>>
    <2>1. Len(p) = 0
      BY <1>2
    <2>2. SubSeq(p \o q, 1, 0) = <<>>
      BY SubSeqEmpty
    <2> QED
      BY <1>1, <1>2, <2>1, <2>2
  <1>3. CASE p # <<>>
    BY <1>1, <1>3, Split
  <1> QED
    BY <1>2, <1>3

(* Concatenation, for the provers an operator like any other.              *)
Cat(s, t) == s \o t

(* Concatenation is associative and has the empty sequence as its unit.    *)
LEMMA CatFacts ==
  /\ <<>> \in Seq(Item)
  /\ \A s, t \in Seq(Item) : Cat(s, t) \in Seq(Item)
  /\ \A s \in Seq(Item) : Cat(<<>>, s) = s
  /\ \A s \in Seq(Item) : Cat(s, <<>>) = s
  /\ \A s, t, u \in Seq(Item) : Cat(Cat(s, t), u) = Cat(s, Cat(t, u))
  <1>1. \A s, t \in Seq(Item) : Cat(s, t) \in Seq(Item)
    BY ConcatProperties DEF Cat
  <1>2. \A s \in Seq(Item) : Cat(<<>>, s) = s /\ Cat(s, <<>>) = s
    BY ConcatEmptySeq DEF Cat
  <1>3. \A s, t, u \in Seq(Item) : Cat(Cat(s, t), u) = Cat(s, Cat(t, u))
    BY ConcatAssociative DEF Cat
  <1> QED
    BY <1>1, <1>2, <1>3

(* Pending, of its four parts.                                             *)
PendingOf(s, i, b, l) == Cat(Cat(Cat(s, Datum(i)), b), DataOf(l))

(* Packets are no data.                                                    *)
LEMMA NoDatum == Datum(None) = <<>> /\ Datum(Send) = <<>> /\ Datum(Reset) = <<>>
  BY DEF Datum, IsData, Data, None, Send, Reset

(* What is pending, seen from the end that goes downstream first.          *)
LEMMA PendingParts ==
  ASSUME NEW s \in Seq(Item), NEW i \in Entry \cup {None}, NEW b \in Seq(Item),
         NEW l \in Seq(Entry)
  PROVE  /\ PendingOf(s, i, b, l) = Cat(s, Cat(Datum(i), Cat(b, DataOf(l))))
         /\ PendingOf(<<>>, i, b, l) = Cat(Datum(i), Cat(b, DataOf(l)))
         /\ PendingOf(<<>>, None, b, l) = Cat(b, DataOf(l))
         /\ PendingOf(b, None, <<>>, l) = Cat(b, DataOf(l))
         /\ PendingOf(s, i, b, l) \in Seq(Item)
  <1>1. Datum(i) \in Seq(Item) /\ DataOf(l) \in Seq(Item) /\ Datum(None) = <<>>
    BY DatumType, DataType, NoDatum
  <1>2. /\ Cat(s, Datum(i)) \in Seq(Item) /\ Cat(b, DataOf(l)) \in Seq(Item)
        /\ Cat(Cat(s, Datum(i)), b) \in Seq(Item)
        /\ Cat(Datum(i), Cat(b, DataOf(l))) \in Seq(Item)
    BY <1>1, CatFacts
  <1>3. PendingOf(s, i, b, l) = Cat(Cat(s, Datum(i)), Cat(b, DataOf(l)))
    BY <1>1, <1>2, CatFacts DEF PendingOf
  <1>4. PendingOf(s, i, b, l) = Cat(s, Cat(Datum(i), Cat(b, DataOf(l))))
    BY <1>1, <1>2, <1>3, CatFacts
  <1>5. PendingOf(<<>>, i, b, l) = Cat(Datum(i), Cat(b, DataOf(l)))
    BY <1>1, <1>2, CatFacts DEF PendingOf
  <1>6. PendingOf(<<>>, None, b, l) = Cat(b, DataOf(l))
    BY <1>1, CatFacts DEF PendingOf
  <1>7. PendingOf(b, None, <<>>, l) = Cat(b, DataOf(l))
    BY <1>1, CatFacts DEF PendingOf
  <1>8. PendingOf(s, i, b, l) \in Seq(Item)
    BY <1>1, <1>2, CatFacts DEF PendingOf
  <1> QED
    BY <1>4, <1>5, <1>6, <1>7, <1>8

LEMMA PendingWhole ==
  ASSUME NEW s \in Seq(Item), NEW i \in Entry \cup {None}, NEW b \in Seq(Item),
         NEW l \in Seq(Entry)
  PROVE  PendingOf(s, i, b, l) = Cat(s, Cat(Datum(i), Cat(b, DataOf(l))))
  BY PendingParts

(* The same with nothing being sent.                                       *)
LEMMA PendingUnsent ==
  ASSUME NEW i \in Entry \cup {None}, NEW b \in Seq(Item), NEW l \in Seq(Entry)
  PROVE  /\ PendingOf(<<>>, i, b, l) = Cat(Datum(i), Cat(b, DataOf(l)))
         /\ PendingOf(<<>>, i, b, l) \in Seq(Item)
         /\ PendingOf(b, None, <<>>, l) = PendingOf(<<>>, None, b, l)
  <1>1. <<>> \in Seq(Item)
    OBVIOUS
  <1>2. PendingOf(<<>>, i, b, l) \in Seq(Item)
    BY <1>1, PendingParts
  <1>3. PendingOf(<<>>, i, b, l) = Cat(Datum(i), Cat(b, DataOf(l)))
    BY <1>1, PendingParts
  <1>4. PendingOf(b, None, <<>>, l) = Cat(b, DataOf(l))
    BY <1>1, PendingParts
  <1>5. PendingOf(<<>>, None, b, l) = Cat(b, DataOf(l))
    BY <1>1, PendingParts
  <1> QED
    BY <1>2, <1>3, <1>4, <1>5

(* Pending of this state and of the next.                                  *)
LEMMA PendingIs ==
  /\ Pending = PendingOf(sending, item, batch, list)
  /\ Pending' = PendingOf(sending', item', batch', list')
  BY DEF Pending, PendingOf, Cat

(* The four parts of what is pending are items and entries.                *)
LEMMA PendingTypes ==
  ASSUME DataTypes
  PROVE  /\ sending \in Seq(Item) /\ item \in Entry \cup {None}
         /\ batch \in Seq(Item) /\ list \in Seq(Entry)
         /\ Pending \in Seq(Item)
  <1>1. /\ sending \in Seq(Item) /\ batch \in Seq(Item) /\ list \in Seq(Entry)
        /\ item \in Entry \cup {None}
    BY DEF DataTypes, Entry
  <1> QED
    BY <1>1, PendingIs, PendingParts

(* The batch leaves with nothing, with a sample, or with the packet that   *)
(* ended it.                                                               *)
LEMMA Leaves ==
  ASSUME NEW b \in Seq(Item), NEW l \in Seq(Entry), l # <<>>
  PROVE  LET h == Head(l)
             t == Tail(l)
             p == PendingOf(<<>>, None, b, l)
         IN  /\ h \in Entry
             /\ p = PendingOf(b, h, <<>>, t)
             /\ h \in Item => /\ p = PendingOf(<<>>, None, Append(b, h), t)
                              /\ p = PendingOf(Append(b, h), None, <<>>, t)
             /\ h = Send => /\ p = PendingOf(<<>>, None, b, t)
                           /\ p = PendingOf(b, None, <<>>, t)
  <1> DEFINE h == Head(l)
             t == Tail(l)
             p == PendingOf(<<>>, None, b, l)
  <1>1. h \in Entry /\ t \in Seq(Entry)
    BY HeadTail
  <1>2. DataOf(l) = Cat(Datum(h), DataOf(t))
    BY DataHeadTail DEF Cat
  <1> HIDE DEF h, t
  <1>3. /\ Datum(h) \in Seq(Item) /\ DataOf(t) \in Seq(Item)
        /\ None \in Entry \cup {None} /\ <<>> \in Seq(Item)
    BY <1>1, DatumType, DataType
  <1>4. p = Cat(b, Cat(Datum(h), DataOf(t)))
    BY <1>2, PendingParts
  <1>5. p = PendingOf(b, h, <<>>, t)
    <2>a. h \in Entry \cup {None} /\ <<>> \in Seq(Item) /\ t \in Seq(Entry)
      BY <1>1, <1>3
    <2> HIDE DEF p
    <2>1. PendingOf(b, h, <<>>, t) = Cat(b, Cat(Datum(h), Cat(<<>>, DataOf(t))))
      BY <2>a, PendingWhole
    <2> QED
      BY <1>3, <1>4, <2>1, CatFacts
  <1>6. ASSUME h \in Item
        PROVE  /\ p = PendingOf(<<>>, None, Append(b, h), t)
               /\ p = PendingOf(Append(b, h), None, <<>>, t)
    <2>1. IsData(h)
      BY <1>6 DEF IsData, Item
    <2>2. Append(b, h) = Cat(b, Datum(h))
      BY <1>6, <2>1, AppendIsConcat DEF Datum, Cat
    <2>3. Append(b, h) \in Seq(Item)
      BY <1>6, AppendProperties
    <2>4. Cat(Append(b, h), DataOf(t)) = p
      BY <2>2, <1>3, <1>4, CatFacts
    <2>5. PendingOf(<<>>, None, Append(b, h), t) = Cat(Append(b, h), DataOf(t))
      BY <2>3, <1>1, <1>3, PendingParts
    <2>6. PendingOf(Append(b, h), None, <<>>, t) = Cat(Append(b, h), DataOf(t))
      BY <2>3, <1>1, <1>3, PendingParts
    <2> QED
      BY <2>4, <2>5, <2>6
  <1>7. ASSUME h = Send
        PROVE  p = PendingOf(<<>>, None, b, t) /\ p = PendingOf(b, None, <<>>, t)
    <2>1. p = Cat(b, DataOf(t))
      BY <1>3, <1>4, <1>7, NoDatum, CatFacts
    <2> QED
      BY <2>1, <1>1, <1>3, PendingParts
  <1> QED
    BY <1>1, <1>5, <1>6, <1>7 DEF h, t

(* A step of module Fifo, or a stutter.                                    *)
AbsStep == [Abstract!Next]_(Abstract!vars)

(* A step that leaves what is pending is a stutter or a turn.              *)
LEMMA AbsTurn ==
  ASSUME TypeOK, TypeOK', Pending' = Pending, given' = given
  PROVE  AbsStep
  <1>1. early \in BOOLEAN /\ early' \in BOOLEAN
    BY DEF TypeOK
  <1>2. \/ (hr' # "S_OK" \/ early') = (hr # "S_OK" \/ early)
        \/ (hr' # "S_OK" \/ early') = ~(hr # "S_OK" \/ early)
    BY <1>1
  <1> QED
    BY <1>2 DEF AbsStep, Abstract!Next, Abstract!Turn, Abstract!vars

(* Part of what is pending goes, and the queue refuses data: a discard, or *)
(* a stutter if the part is empty.                                         *)
LEMMA AbsDiscard ==
  ASSUME NEW p \in Seq(Item), NEW q \in Seq(Item), Pending = p \o q, Pending' = q,
         hr # "S_OK" \/ early, UNCHANGED <<given, hr, early>>
  PROVE  AbsStep
  <1>1. CASE p = <<>>
    <2>1. Pending' = Pending
      BY <1>1, ConcatEmptySeq
    <2> QED
      BY <2>1 DEF AbsStep, Abstract!vars
  <1>2. CASE p # <<>>
    <2>1. Len(p) \in 1..Len(Pending) /\ SubSeq(Pending, Len(p) + 1, Len(Pending)) = q
      BY <1>2, Split
    <2>2. Abstract!Discard
      BY <2>1 DEF Abstract!Discard, Abstract!Drop
    <2> QED
      BY <2>2 DEF AbsStep, Abstract!Next
  <1> QED
    BY <1>1, <1>2

(* Part of what is pending goes downstream.                                *)
LEMMA AbsDeliver ==
  ASSUME NEW p \in Seq(Item), NEW q \in Seq(Item), Pending = p \o q, Pending' = q,
         p # <<>>, given' = p, UNCHANGED <<hr, early>>
  PROVE  AbsStep
  <1>1. /\ Len(p) \in 1..Len(Pending)
        /\ SubSeq(Pending, 1, Len(p)) = p
        /\ SubSeq(Pending, Len(p) + 1, Len(Pending)) = q
    BY Split
  <1>2. Abstract!Deliver
    BY <1>1 DEF Abstract!Deliver, Abstract!Drop
  <1> QED
    BY <1>2 DEF AbsStep, Abstract!Next

(* Items join what is pending.                                             *)
LEMMA AbsAccept ==
  ASSUME DataTypes, NEW q \in Seq(Item), Pending' = Pending \o q, q # <<>>,
         UNCHANGED <<given, hr, early>>
  PROVE  AbsStep
  <1>1. Len(Pending') > Len(Pending) /\ SubSeq(Pending', 1, Len(Pending)) = Pending
    BY PendingTypes, Prefix
  <1>2. Abstract!Accept
    BY <1>1 DEF Abstract!Accept
  <1> QED
    BY <1>2 DEF AbsStep, Abstract!Next

(* Nothing of the list, the batch or the thread's own has changed.         *)
LEMMA AbsSame ==
  ASSUME TypeOK, TypeOK', UNCHANGED <<list, batch, sending, item, given>>
  PROVE  AbsStep
  <1>1. Pending' = Pending
    BY DEF Pending
  <1> QED
    BY <1>1, AbsTurn

(* Flushing and terminating belong to the calls of the controlling thread, *)
(* and the queue refuses data when the thread releases all it has.         *)
Refused ==
  /\ flushing => cpc \in {"begin", "flushing", "wait", "clear"}
  /\ terminate => cpc \in {"join", "gone"}
  /\ terminate /\ ~early => hr = "S_FALSE"
  /\ item.kind # "sample"

(* Every step keeps Refused.                                               *)
LEMMA RefusedStep == TypeOK /\ Refusing /\ Refused /\ [Next]_vars => Refused'
  <1> SUFFICES ASSUME TypeOK, Refusing, Refused, [Next]_vars
               PROVE  Refused'
    OBVIOUS
  <1> USE DEF Refused
  <1>1. CASE Enter
    BY <1>1 DEF Enter
  <1>2. CASE Terminate
    BY <1>2 DEF Terminate
  <1>3. CASE FlushQueue
    BY <1>3 DEF FlushQueue
  <1>4. CASE TakeSample
    BY <1>4, EntryKinds DEF TakeSample, LeaveWith
  <1>5. CASE TakeSend
    BY <1>5, EntryKinds DEF TakeSend, LeaveWith
  <1>6. CASE TakePacket
    BY <1>6 DEF TakePacket, LeaveWith
  <1>7. CASE TakeNothing
    BY <1>7, EntryKinds DEF TakeNothing, LeaveWith
  <1>8. CASE Sleep
    BY <1>8 DEF Sleep
  <1>9. CASE Wake
    BY <1>9 DEF Wake
  <1>10. CASE SendBatch
    BY <1>10 DEF SendBatch
  <1>11. CASE Packet
    <2>1. item' = None /\ UNCHANGED <<flushing, terminate, cpc, early>>
      BY <1>11 DEF Packet
    <2>2. CASE item = Reset
      BY <2>1, <2>2, EntryKinds DEF Refusing, ResetPending
    <2>3. CASE item # Reset
      BY <1>11, <2>1, <2>3, EntryKinds DEF Packet
    <2> QED
      BY <2>2, <2>3
  <1>12. CASE PacketDone
    BY <1>12 DEF PacketDone
  <1>13. CASE \E result \in {"S_OK", "S_FALSE"} : Received(result)
    BY <1>13 DEF Received
  <1>14. CASE BeginFlush
    BY <1>14 DEF BeginFlush
  <1>15. CASE EndFlush
    BY <1>15 DEF EndFlush
  <1>16. CASE ResetQueue
    BY <1>16 DEF ResetQueue
  <1>17. CASE Destroy
    BY <1>17 DEF Destroy
  <1>18. CASE PassBegin
    BY <1>18 DEF PassBegin
  <1>19. CASE FlushComplete
    BY <1>19 DEF FlushComplete
  <1>20. CASE ClearFlushing
    BY <1>20 DEF ClearFlushing
  <1>21. CASE PassEnd
    BY <1>21 DEF PassEnd
  <1>22. CASE Restore
    BY <1>22 DEF Restore
  <1>23. CASE ResetReturns
    BY <1>23 DEF ResetReturns
  <1>24. CASE Join
    BY <1>24 DEF Join
  <1>25. CASE \E k \in 1..BatchSize : ReceiveMultiple(k)
    BY <1>25 DEF ReceiveMultiple
  <1>26. CASE EOS
    BY <1>26 DEF EOS
  <1>27. CASE SendAnyway
    BY <1>27 DEF SendAnyway
  <1>28. CASE NewSegment
    BY <1>28 DEF NewSegment
  <1>29. CASE QueueSegment
    BY <1>29 DEF QueueSegment
  <1>30. CASE UNCHANGED vars
    BY <1>30 DEF vars
  <1> QED
    BY <1>1, <1>2, <1>3, <1>4, <1>5, <1>6, <1>7, <1>8, <1>9, <1>10, <1>11,
       <1>12, <1>13, <1>14, <1>15, <1>16, <1>17, <1>18, <1>19, <1>20, <1>21,
       <1>22, <1>23, <1>24, <1>25, <1>26, <1>27, <1>28, <1>29, <1>30, Steps

(* Unlike the others these change what is pending, or where it is.         *)
LEMMA AcceptStep ==
  ASSUME DataTypes, NEW kind \in Data, NEW k \in 1..BatchSize, Accepts(kind, k),
         UNCHANGED <<batch, sending, item, given, hr, early>>
  PROVE  AbsStep
  <1> DEFINE f == Fresh(kind, k)
  <1>1. f \in Seq(Item) /\ Len(f) = k
    BY FreshItems DEF DataTypes, Accepts
  <1>2. list' = list \o f /\ list \in Seq(Entry)
    BY DEF Accepts, DataTypes, Entry
  <1>3. f # <<>>
    BY <1>1
  <1> HIDE DEF f
  <1>4. f \in Seq(Entry)
    BY <1>1 DEF Entry
  <1>5. DataOf(list') = Cat(DataOf(list), f)
    BY <1>1, <1>2, <1>4, DataJoin, DataAll DEF Cat
  <1> DEFINE p == Cat(Cat(sending, Datum(item)), batch)
  <1>6. p \in Seq(Item) /\ DataOf(list) \in Seq(Item)
    BY PendingTypes, CatFacts, DatumType, DataType
  <1>7. Pending = Cat(p, DataOf(list))
    BY PendingIs DEF PendingOf
  <1>8. Pending' = Cat(p, DataOf(list'))
    BY PendingIs DEF PendingOf
  <1> HIDE DEF p
  <1>9. Pending' = Cat(Pending, f)
    BY <1>1, <1>5, <1>6, <1>7, <1>8, CatFacts
  <1>10. Pending' = Pending \o f
    BY <1>9 DEF Cat
  <1> QED
    BY <1>1, <1>3, <1>10, AbsAccept

(* SEND_PACKET and RESET_PACKET are no data.                               *)
LEMMA AppendKeeps ==
  ASSUME TypeOK, TypeOK', NEW x \in {Send, Reset}, list' = Append(list, x),
         UNCHANGED <<sending, item, batch, given>>
  PROVE  AbsStep
  <1>1. DataOf(list') = DataOf(list)
    BY TypeParts, PendingTypes, DataAppend
  <1>2. Pending' = Pending
    BY <1>1 DEF Pending
  <1> QED
    BY <1>2, AbsTurn

(* With the lock held the thread has nothing of its own.                   *)
LEMMA InLoop ==
  ASSUME DataTypes, Shape, tpc = "loop"
  PROVE  sending = <<>> /\ item = None /\ Pending = PendingOf(<<>>, None, batch, list)
  BY PendingIs DEF Shape

(* A sample moves from the list into the batch, or with it to be sent.     *)
LEMMA TakeSampleKeeps ==
  ASSUME TypeOK, TypeOK', Shape, TakeSample
  PROVE  AbsStep
  <1>1. DataTypes
    BY TypeParts
  <1>2. /\ tpc = "loop" /\ list # <<>> /\ Head(list).kind = "sample" /\ list' = Tail(list)
        /\ UNCHANGED <<given, hr, early>>
    BY DEF TakeSample, Looking
  <1>3. sending = <<>> /\ item = None /\ Pending = PendingOf(<<>>, None, batch, list)
    BY <1>1, <1>2, InLoop
  <1>4. list \in Seq(Entry) /\ batch \in Seq(Item)
    BY <1>1, PendingTypes
  <1>5. Head(list) \in Item
    BY <1>2, <1>4, HeadTail, EntryKinds DEF Data
  <1>6. \/ sending' = <<>> /\ item' = None /\ batch' = Append(batch, Head(list))
        \/ sending' = Append(batch, Head(list)) /\ item' = None /\ batch' = <<>>
    BY <1>3 DEF TakeSample, LeaveWith
  <1>7. Pending' = Pending
    BY <1>2, <1>3, <1>4, <1>5, <1>6, PendingIs, Leaves
  <1> QED
    BY <1>2, <1>7, AbsTurn

(* SEND_PACKET is no data, and the batch goes to be sent.                  *)
LEMMA TakeSendKeeps ==
  ASSUME TypeOK, TypeOK', Shape, TakeSend
  PROVE  AbsStep
  <1>1. DataTypes
    BY TypeParts
  <1>2. /\ tpc = "loop" /\ list # <<>> /\ Head(list) = Send /\ list' = Tail(list)
        /\ UNCHANGED <<given, hr, early>>
    BY DEF TakeSend, Looking
  <1>3. sending = <<>> /\ item = None /\ Pending = PendingOf(<<>>, None, batch, list)
    BY <1>1, <1>2, InLoop
  <1>4. list \in Seq(Entry) /\ batch \in Seq(Item)
    BY <1>1, PendingTypes
  <1>6. \/ sending' = <<>> /\ item' = None /\ batch' = batch
        \/ sending' = batch /\ item' = None /\ batch' = <<>>
    BY <1>3 DEF TakeSend, LeaveWith
  <1>7. Pending' = Pending
    BY <1>2, <1>3, <1>4, <1>6, PendingIs, Leaves
  <1> QED
    BY <1>2, <1>7, AbsTurn

(* The packet and the batch before it go to be sent, in this order.        *)
LEMMA TakePacketKeeps ==
  ASSUME TypeOK, TypeOK', Shape, TakePacket
  PROVE  AbsStep
  <1>1. DataTypes
    BY TypeParts
  <1>2. /\ tpc = "loop" /\ list # <<>> /\ list' = Tail(list)
        /\ UNCHANGED <<given, hr, early>>
    BY DEF TakePacket, Looking
  <1>3. sending = <<>> /\ item = None /\ Pending = PendingOf(<<>>, None, batch, list)
    BY <1>1, <1>2, InLoop
  <1>4. list \in Seq(Entry) /\ batch \in Seq(Item)
    BY <1>1, PendingTypes
  <1>6. sending' = batch /\ item' = Head(list) /\ batch' = <<>>
    BY DEF TakePacket, LeaveWith
  <1>7. Pending' = Pending
    BY <1>2, <1>3, <1>4, <1>6, PendingIs, Leaves
  <1> QED
    BY <1>2, <1>7, AbsTurn

(* An incomplete batch goes to be sent.                                    *)
LEMMA TakeNothingKeeps ==
  ASSUME TypeOK, TypeOK', Shape, TakeNothing
  PROVE  AbsStep
  <1>1. DataTypes
    BY TypeParts
  <1>2. /\ tpc = "loop" /\ sending' = batch /\ item' = None /\ batch' = <<>>
        /\ UNCHANGED <<list, given, hr, early>>
    BY DEF TakeNothing, Looking, LeaveWith
  <1>3. sending = <<>> /\ item = None /\ Pending = PendingOf(<<>>, None, batch, list)
    BY <1>1, <1>2, InLoop
  <1>4. list \in Seq(Entry) /\ batch \in Seq(Item) /\ None \in Entry \cup {None}
        /\ <<>> \in Seq(Item)
    BY <1>1, PendingTypes
  <1>7. Pending' = Pending
    <2>1. PendingOf(batch, None, <<>>, list) = PendingOf(<<>>, None, batch, list)
      BY <1>4, PendingUnsent
    <2>2. Pending' = PendingOf(batch, None, <<>>, list)
      BY <1>2, PendingIs
    <2> QED
      BY <1>3, <2>1, <2>2
  <1> QED
    BY <1>2, <1>7, AbsTurn

(* FreeSamples: all that is pending goes, while the queue refuses data.    *)
LEMMA FreeDiscards ==
  ASSUME TypeOK, Shape, tpc = "loop", list' = <<>>, batch' = <<>>,
         hr # "S_OK" \/ early, UNCHANGED <<sending, item, given, hr, early>>
  PROVE  AbsStep
  <1>1. DataTypes
    BY TypeParts
  <1>2. sending = <<>> /\ item = None
    BY <1>1, InLoop
  <1>3. <<>> \in Seq(Entry) /\ <<>> \in Seq(Item) /\ None \in Entry \cup {None}
    OBVIOUS
  <1>4. Pending' = Cat(<<>>, DataOf(<<>>))
    BY <1>2, <1>3, PendingIs, PendingParts
  <1>5. Pending' = <<>>
    BY <1>3, <1>4, DataNil, CatFacts
  <1>6. Pending \in Seq(Item) /\ Pending = Pending \o <<>>
    BY <1>1, PendingTypes, ConcatEmptySeq
  <1> QED
    BY <1>3, <1>5, <1>6, AbsDiscard

(* The batch is sent downstream whole, or released while the queue         *)
(* refuses.                                                                *)
LEMMA SendBatchStep ==
  ASSUME TypeOK, TypeOK', SendBatch
  PROVE  AbsStep
  <1>1. DataTypes
    BY TypeParts
  <1>2. sending' = <<>> /\ UNCHANGED <<item, batch, list, hr, early>>
    BY DEF SendBatch
  <1>3. /\ sending \in Seq(Item) /\ item \in Entry \cup {None} /\ batch \in Seq(Item)
        /\ list \in Seq(Entry) /\ <<>> \in Seq(Item) /\ Pending \in Seq(Item)
    BY <1>1, PendingTypes
  <1> DEFINE q == PendingOf(<<>>, item, batch, list)
  <1>4. q \in Seq(Item) /\ Pending = Cat(sending, q)
    <2>1. PendingOf(sending, item, batch, list)
            = Cat(sending, Cat(Datum(item), Cat(batch, DataOf(list))))
      BY <1>3, PendingParts
    <2>2. q = Cat(Datum(item), Cat(batch, DataOf(list))) /\ q \in Seq(Item)
      BY <1>3, PendingUnsent
    <2> QED
      BY <2>1, <2>2, PendingIs
  <1>5. Pending' = q
    BY <1>2, PendingIs
  <1> HIDE DEF q
  <1>6. Pending = sending \o q
    BY <1>4 DEF Cat
  <1>7. CASE sending # <<>> /\ hr = "S_OK"
    BY <1>2, <1>3, <1>4, <1>5, <1>6, <1>7, AbsDeliver DEF SendBatch
  <1>8. CASE sending = <<>>
    <2>1. Pending' = Pending
      BY <1>4, <1>5, <1>8, CatFacts
    <2> QED
      BY <2>1, <1>8, AbsTurn DEF SendBatch
  <1>9. CASE hr # "S_OK"
    BY <1>2, <1>3, <1>4, <1>5, <1>6, <1>9, AbsDiscard DEF SendBatch
  <1> QED
    BY <1>7, <1>8, <1>9

(* A packet goes downstream alone, or is dropped while the queue refuses.  *)
LEMMA PacketStep ==
  ASSUME TypeOK, TypeOK', Shape, Refused, Packet
  PROVE  AbsStep
  <1>1. DataTypes
    BY TypeParts
  <1>2. sending = <<>> /\ item' = None /\ UNCHANGED <<sending, batch, list, early>>
    BY DEF Packet, Shape
  <1>3. /\ item \in Entry \cup {None} /\ batch \in Seq(Item) /\ list \in Seq(Entry)
        /\ <<>> \in Seq(Item) /\ None \in Entry \cup {None}
    BY <1>1, PendingTypes
  <1> DEFINE q == PendingOf(<<>>, None, batch, list)
  <1>4. q \in Seq(Item) /\ Datum(item) \in Seq(Item) /\ Pending = Cat(Datum(item), q)
    <2>1. PendingOf(<<>>, item, batch, list) = Cat(Datum(item), Cat(batch, DataOf(list)))
      BY <1>3, PendingParts
    <2>2. q = Cat(batch, DataOf(list)) /\ q \in Seq(Item)
      BY <1>3, PendingParts
    <2>3. Datum(item) \in Seq(Item)
      BY <1>3, DatumType
    <2> QED
      BY <1>2, <2>1, <2>2, <2>3, PendingIs
  <1>5. Pending' = q
    BY <1>2, PendingIs
  <1> HIDE DEF q
  <1>6. Pending = Datum(item) \o q
    BY <1>4 DEF Cat
  <1>7. CASE ~IsData(item)
    <2>1. Datum(item) = <<>>
      BY <1>7 DEF Datum
    <2>2. Pending' = Pending
      BY <1>4, <1>5, <2>1, CatFacts
    <2>3. given' = given
      BY <1>7 DEF Packet, IsData, Data
    <2> QED
      BY <2>2, <2>3, AbsTurn
  <1>8. CASE IsData(item)
    <2>1. Datum(item) = <<item>> /\ <<item>> # <<>> /\ <<item>> \in Seq(Item)
      BY <1>4, <1>8 DEF Datum
    <2>2. item # Reset /\ item.kind \in Data
      BY <1>8 DEF IsData, Data, Reset
    <2>3. UNCHANGED hr
      BY <2>2 DEF Packet
    <2>4. CASE item.kind = "segment" \/ (item.kind = "eos" /\ hr = "S_OK")
      <3>1. given' = <<item>>
        BY <2>4 DEF Packet
      <3> QED
        BY <3>1, <1>2, <1>4, <1>5, <1>6, <2>1, <2>3, AbsDeliver
    <2>5. CASE item.kind = "eos" /\ hr # "S_OK"
      <3>1. given' = given
        BY <2>5 DEF Packet
      <3> QED
        BY <3>1, <1>2, <1>4, <1>5, <1>6, <2>3, <2>5, AbsDiscard
    <2>6. item.kind # "sample"
      BY DEF Refused
    <2> QED
      BY <2>2, <2>4, <2>5, <2>6 DEF Data
  <1> QED
    BY <1>7, <1>8

(* Every step of the queue is one of the FIFO, or a stutter.               *)
LEMMA FifoStep == Inductive /\ Refused /\ Inductive' /\ [Next]_vars => AbsStep
  <1> SUFFICES ASSUME Inductive, Refused, Inductive', [Next]_vars
               PROVE  AbsStep
    OBVIOUS
  <1>a. TypeOK /\ TypeOK' /\ Shape /\ DataTypes
    BY TypeParts DEF Inductive
  <1>b. terminate \/ flushing => hr # "S_OK" \/ early
    BY <1>a DEF Inductive, Refusing, Refused
  <1>c. "sample" \in Data /\ "eos" \in Data /\ "segment" \in Data /\ 1 \in 1..BatchSize
    BY DEF Data
  <1>1. CASE Enter
    BY <1>1, <1>a, AbsSame DEF Enter
  <1>2. CASE Terminate
    BY <1>2, <1>a, <1>b, FreeDiscards DEF Terminate
  <1>3. CASE FlushQueue
    BY <1>3, <1>a, <1>b, FreeDiscards DEF FlushQueue
  <1>4. CASE TakeSample
    BY <1>4, <1>a, TakeSampleKeeps
  <1>5. CASE TakeSend
    BY <1>5, <1>a, TakeSendKeeps
  <1>6. CASE TakePacket
    BY <1>6, <1>a, TakePacketKeeps
  <1>7. CASE TakeNothing
    BY <1>7, <1>a, TakeNothingKeeps
  <1>8. CASE Sleep
    BY <1>8, <1>a, AbsSame DEF Sleep
  <1>9. CASE Wake
    BY <1>9, <1>a, AbsSame DEF Wake
  <1>10. CASE SendBatch
    BY <1>10, <1>a, SendBatchStep
  <1>11. CASE Packet
    BY <1>11, <1>a, PacketStep
  <1>12. CASE PacketDone
    BY <1>12, <1>a, AbsSame DEF PacketDone
  <1>13. CASE \E result \in {"S_OK", "S_FALSE"} : Received(result)
    BY <1>13, <1>a, AbsSame DEF Received
  <1>14. CASE BeginFlush
    BY <1>14, <1>a, AbsSame DEF BeginFlush
  <1>15. CASE EndFlush
    BY <1>15, <1>a, AbsSame DEF EndFlush
  <1>16. CASE ResetQueue
    <2>1. list' = Append(list, Reset) /\ UNCHANGED <<sending, item, batch, given>>
      BY <1>16 DEF ResetQueue
    <2> QED
      BY <2>1, <1>a, AppendKeeps
  <1>17. CASE Destroy
    BY <1>17, <1>a, AbsSame DEF Destroy
  <1>18. CASE PassBegin
    BY <1>18, <1>a, AbsSame DEF PassBegin
  <1>19. CASE FlushComplete
    BY <1>19, <1>a, AbsSame DEF FlushComplete
  <1>20. CASE ClearFlushing
    BY <1>20, <1>a, AbsSame DEF ClearFlushing
  <1>21. CASE PassEnd
    BY <1>21, <1>a, AbsSame DEF PassEnd
  <1>22. CASE Restore
    BY <1>22, <1>a, AbsSame DEF Restore
  <1>23. CASE ResetReturns
    BY <1>23, <1>a, AbsSame DEF ResetReturns
  <1>24. CASE Join
    BY <1>24, <1>a, AbsSame DEF Join
  <1>25. CASE \E k \in 1..BatchSize : ReceiveMultiple(k)
    <2>1. PICK k \in 1..BatchSize : ReceiveMultiple(k)
      BY <1>25
    <2>2. Accepts("sample", k) /\ UNCHANGED <<batch, sending, item, given, hr, early>>
      BY <2>1 DEF ReceiveMultiple
    <2> QED
      BY <2>2, <1>a, <1>c, AcceptStep
  <1>26. CASE EOS
    <2>1. Accepts("eos", 1) /\ UNCHANGED <<batch, sending, item, given, hr, early>>
      BY <1>26 DEF EOS
    <2> QED
      BY <2>1, <1>a, <1>c, AcceptStep
  <1>27. CASE SendAnyway
    <2>1. list' = Append(list, Send) /\ UNCHANGED <<sending, item, batch, given>>
      BY <1>27 DEF SendAnyway
    <2> QED
      BY <2>1, <1>a, AppendKeeps
  <1>28. CASE NewSegment
    BY <1>28, <1>a, AbsSame DEF NewSegment
  <1>29. CASE QueueSegment
    <2>1. Accepts("segment", 1) /\ UNCHANGED <<batch, sending, item, given, hr, early>>
      BY <1>29 DEF QueueSegment
    <2> QED
      BY <2>1, <1>a, <1>c, AcceptStep
  <1>30. CASE UNCHANGED vars
    BY <1>30, <1>a, AbsSame DEF vars
  <1> QED
    BY <1>1, <1>2, <1>3, <1>4, <1>5, <1>6, <1>7, <1>8, <1>9, <1>10, <1>11,
       <1>12, <1>13, <1>14, <1>15, <1>16, <1>17, <1>18, <1>19, <1>20, <1>21,
       <1>22, <1>23, <1>24, <1>25, <1>26, <1>27, <1>28, <1>29, <1>30, Steps

(* The queue begins empty.                                                 *)
LEMMA FifoInit == Init => Abstract!Init /\ Refused
  <1> SUFFICES ASSUME Init PROVE Abstract!Init /\ Refused
    OBVIOUS
  <1>1. sending = <<>> /\ item = None /\ batch = <<>> /\ list = <<>>
    BY DEF Init
  <1>2. <<>> \in Seq(Entry) /\ <<>> \in Seq(Item)
    OBVIOUS
  <1>3. PendingOf(<<>>, None, <<>>, <<>>) = Cat(<<>>, DataOf(<<>>))
    BY <1>2, PendingParts
  <1>4. Pending = <<>>
    BY <1>1, <1>2, <1>3, DataNil, CatFacts, PendingIs
  <1>5. Refused
    BY EntryKinds DEF Init, Refused
  <1> QED
    BY <1>4, <1>5 DEF Init, Abstract!Init

(* COutputQueue implements module Fifo: what is accepted goes downstream   *)
(* once and in order, and nothing is dropped unless the queue is failing,  *)
(* for every batch size, bound and interleaving of the three parties.      *)
THEOREM RefinesFifo == Spec => FifoSpec
  <1>1. Inductive /\ Refused /\ [Next]_vars => Refused'
    BY RefusedStep DEF Inductive
  <1>2. Inductive /\ Refused /\ Inductive' /\ [Next]_vars => [Abstract!Next]_(Abstract!vars)
    BY FifoStep DEF AbsStep
  <1> QED
    BY <1>1, <1>2, FifoInit, InductiveCorrect, PTL DEF Spec, FifoSpec, Abstract!Spec
=============================================================================
