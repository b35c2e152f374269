-------------------------- MODULE ConnectionProofs --------------------------
(***************************************************************************)
(* What module Connection keeps, proved for every set of media types and   *)
(* every set of layouts and bitnesses of the device, and, after it, what   *)
(* the classes of MCClasses do: objects, media types, the arithmetic and   *)
(* lists.                                                                  *)
(*                                                                         *)
(* The pins are described by where the graph's thread is: apart, half way  *)
(* to a connection or from it, or together with one allocator that both    *)
(* hold. The device is described by how far the last SetMediaType has got  *)
(* with its three stores while nobody else asks.                           *)
(***************************************************************************)
EXTENDS MCClasses, FiniteSetTheorems, SequenceTheorems, TLAPS

NoAllocs ==
  /\ outAlloc = None /\ inAlloc = None
  /\ refs["input"] = 0 /\ refs["output"] = 0
  /\ committed = {}

Apart    == ~connOut /\ ~connIn /\ ~inputPin /\ mt = NoType /\ NoAllocs
Proposed == connOut /\ ~connIn /\ inputPin /\ mt = NoType /\ NoAllocs
Accepted == connOut /\ connIn /\ inputPin /\ mt # NoType /\ NoAllocs

(* Each end holds one reference to the one allocator.                      *)
Together ==
  /\ connOut /\ connIn /\ inputPin /\ mt # NoType
  /\ outAlloc = inAlloc
  /\ outAlloc \in Allocs
  /\ \A a \in Allocs : refs[a] = IF a = outAlloc THEN 2 ELSE 0
  /\ committed = IF upActive THEN {outAlloc} ELSE {}

HalfOut ==
  /\ connOut /\ ~connIn /\ inputPin /\ mt = NoType
  /\ outAlloc \in Allocs /\ inAlloc = None
  /\ \A a \in Allocs : refs[a] = IF a = outAlloc THEN 1 ELSE 0
  /\ committed = {}

HalfIn ==
  /\ ~connOut /\ connIn /\ ~inputPin /\ mt # NoType
  /\ outAlloc = None /\ inAlloc \in Allocs
  /\ \A a \in Allocs : refs[a] = IF a = inAlloc THEN 1 ELSE 0
  /\ committed = {}

Pins ==
  /\ gpc = "idle" => Apart \/ Together
  /\ gpc = "next" => Apart
  /\ gpc \in {"receive", "undo"} => Proposed
  /\ gpc \in {"set", "complete"} => Accepted
  /\ gpc = "half" => HalfOut \/ HalfIn

(* Who is where: the streaming thread runs only in a connection that the   *)
(* graph's thread leaves alone.                                            *)
Places ==
  /\ gpc # "idle" => ~upActive
  /\ spc # "idle" => upActive /\ gpc = "idle" /\ connOut
  /\ gpc \in {"receive", "set", "complete", "undo"} => todo # << >>
  /\ check["graph"] = "no" <=> gpc \notin {"receive", "set"}
  /\ check["stream"] = "no" <=> spc = "idle"

(* A type that has passed a test of the check is supported as far as the   *)
(* test can tell; the type of the connection has passed them all.          *)
PassedTests ==
  \A t \in Threads :
    /\ check[t] \notin {"no", "refused"} => asking[t] \notin Foreign
    /\ check[t] \in {"bits", "yes"} => asking[t].layout \in Layouts \cup {Unknown}
    /\ check[t] = "yes" => asking[t].bits \in Bits \cup {Unknown}

Passed ==
  /\ PassedTests
  /\ mt # NoType => /\ mt \notin Foreign
                    /\ mt.layout \in Layouts \cup {Unknown}
                    /\ mt.bits \in Bits \cup {Unknown}

(* SetMediaType by thread t has stored what precedes the next store.       *)
Setting(t) ==
  /\ asking[t] = mt
  /\ mt \in Known =>
       /\ check[t] \in {"freq", "layout", "bits", "yes"}
       /\ check[t] \in {"layout", "bits", "yes"} => dev.freq = mt.freq
       /\ check[t] \in {"bits", "yes"} => dev.layout = mt.layout
       /\ check[t] = "yes" => dev.bits = mt.bits

Device ==
  ~asked =>
    /\ check["asker"] = "no" /\ spc # "check" /\ gpc # "receive"
    /\ gpc = "set" => Setting("graph")
    /\ spc = "set" => Setting("stream")
    /\ DeviceConfigured

IInv == TypeOK /\ Pins /\ Places /\ Passed /\ Device

(* Two formats with the same fields are the same.                          *)
LEMMA SameFormat ==
  ASSUME NEW f \in Formats, NEW g \in Formats,
         f.freq = g.freq, f.layout = g.layout, f.bits = g.bits
  PROVE  f = g
BY DEF Formats

(* What a question and its answer keep.                                    *)
LEMMA AskKeeps ==
  ASSUME QuestionTypeOK, NEW t \in Threads, NEW type \in Types,
         Ask(t, type), asked' \in BOOLEAN
  PROVE  QuestionTypeOK'
BY NoTypeAssumption DEF QuestionTypeOK, Ask, Threads

LEMMA AnsweredKeeps ==
  ASSUME QuestionTypeOK, NEW t \in Threads, NEW to,
         Answered(t, to), asked' \in BOOLEAN
  PROVE  QuestionTypeOK'
BY DEF QuestionTypeOK, Answered, Threads

(* A pin that gives up its allocator has a reference to give up.           *)
LEMMA DropKeeps ==
  ASSUME PinsTypeOK, NEW a \in Allocs \cup {None}, a # None => refs[a] > 0,
         refs' = Drop(refs, a), Decommit(a)
  PROVE  /\ refs' \in [Allocs -> 0..2]
         /\ committed' \subseteq {b \in Allocs : refs'[b] > 0}
<1>1. CASE a = None
  BY <1>1 DEF PinsTypeOK, Drop, Decommit, Allocs, None
<1>2. CASE a # None
  <2>1. /\ a \in Allocs /\ refs[a] \in 1..2
        /\ refs' = [refs EXCEPT ![a] = @ - 1]
    BY <1>2 DEF PinsTypeOK, Drop
  <2>2. refs' \in [Allocs -> 0..2]
    BY <2>1 DEF PinsTypeOK
  <2>3. ASSUME NEW b \in committed'  PROVE b \in Allocs /\ refs'[b] > 0
    <3>1. b \in committed /\ b # a
      BY <2>3 DEF Decommit
    <3>2. QED  BY <2>1, <3>1 DEF PinsTypeOK
  <2>4. QED  BY <2>2, <2>3
<1>3. QED  BY <1>1, <1>2

(* What does not change keeps what it satisfies.                           *)
LEMMA TypesFrame ==
  ASSUME PinsTypeOK, UNCHANGED <<states, ends, allocs, runTimeError, gpc, todo, spc>>
  PROVE  PinsTypeOK'
BY DEF PinsTypeOK, states, ends, allocs

LEMMA PinsFrame ==
  ASSUME Pins, UNCHANGED <<states, ends, allocs, gpc>>
  PROVE  Pins'
BY DEF Pins, Apart, Proposed, Accepted, Together, HalfOut, HalfIn, NoAllocs,
       states, ends, allocs

LEMMA QuestionFrame ==
  ASSUME QuestionTypeOK, UNCHANGED <<question, asked>>
  PROVE  QuestionTypeOK'
BY DEF QuestionTypeOK, question

LEMMA PassedFrame ==
  ASSUME Passed, UNCHANGED question, mt' \in {mt, NoType}
  PROVE  Passed'
BY DEF Passed, PassedTests, question

----------------------------------------------------------------------------
(* The three stores of CheckOpenALMediaType, and QueryAccept.              *)

LEMMA StoreFreqKeeps ==
  ASSUME IInv, NEW t \in Threads, StoreFreq(t)  PROVE IInv'
<1>1. PinsTypeOK'
  BY TypesFrame DEF IInv, TypeOK, StoreFreq, StoreStep
<1>2. QuestionTypeOK'
  BY FormatsAssumption DEF IInv, TypeOK, QuestionTypeOK, Threads, Formats,
     StoreFreq, StoreStep, states, ends, allocs, question
<1>3. Pins'
  BY PinsFrame DEF IInv, StoreFreq, StoreStep
<1>4. Places'
  BY DEF IInv, TypeOK, PinsTypeOK, QuestionTypeOK, Places, Threads,
     StoreFreq, StoreStep, states, ends, allocs, question
<1>5. Passed'
  BY DEF IInv, TypeOK, QuestionTypeOK, PinsTypeOK, Passed, PassedTests,
     Threads, StoreFreq, StoreStep, states, ends, allocs, question
<1>6. Device'
  BY UnknownAssumption, SameFormat, FormatsAssumption DEF IInv, TypeOK,
     PinsTypeOK, QuestionTypeOK, Device, DeviceConfigured, Setting, Passed,
     PassedTests, Places, Known, Threads, Formats, StoreFreq, StoreStep,
     states, ends, allocs, question
<1>7. QED  BY <1>1, <1>2, <1>3, <1>4, <1>5, <1>6 DEF IInv, TypeOK

LEMMA StoreLayoutKeeps ==
  ASSUME IInv, NEW t \in Threads, StoreLayout(t)  PROVE IInv'
<1>1. PinsTypeOK'
  BY TypesFrame DEF IInv, TypeOK, StoreLayout, StoreStep
<1>2. QuestionTypeOK'
  BY FormatsAssumption DEF IInv, TypeOK, QuestionTypeOK, Threads, Formats,
     StoreLayout, StoreStep, MayBe, states, ends, allocs, question
<1>3. Pins'
  BY PinsFrame DEF IInv, StoreLayout, StoreStep
<1>4. Places'
  BY DEF IInv, TypeOK, PinsTypeOK, QuestionTypeOK, Places, Threads,
     StoreLayout, StoreStep, MayBe, states, ends, allocs, question
<1>5. Passed'
  BY DEF IInv, TypeOK, QuestionTypeOK, PinsTypeOK, Passed, PassedTests,
     Threads, StoreLayout, StoreStep, MayBe, states, ends, allocs, question
<1>6. Device'
  BY UnknownAssumption, SameFormat, FormatsAssumption DEF IInv, TypeOK,
     PinsTypeOK, QuestionTypeOK, Device, DeviceConfigured, Setting, Passed,
     PassedTests, Places, Known, Threads, Formats, StoreLayout, StoreStep,
     MayBe, states, ends, allocs, question
<1>7. QED  BY <1>1, <1>2, <1>3, <1>4, <1>5, <1>6 DEF IInv, TypeOK

LEMMA StoreBitsKeeps ==
  ASSUME IInv, NEW t \in Threads, StoreBits(t)  PROVE IInv'
<1>1. PinsTypeOK'
  BY TypesFrame DEF IInv, TypeOK, StoreBits, StoreStep
<1>2. QuestionTypeOK'
  BY FormatsAssumption DEF IInv, TypeOK, QuestionTypeOK, Threads, Formats,
     StoreBits, StoreStep, MayBe, states, ends, allocs, question
<1>3. Pins'
  BY PinsFrame DEF IInv, StoreBits, StoreStep
<1>4. Places'
  BY DEF IInv, TypeOK, PinsTypeOK, QuestionTypeOK, Places, Threads,
     StoreBits, StoreStep, MayBe, states, ends, allocs, question
<1>5. Passed'
  BY DEF IInv, TypeOK, QuestionTypeOK, PinsTypeOK, Passed, PassedTests,
     Threads, StoreBits, StoreStep, MayBe, states, ends, allocs, question
<1>6. Device'
  BY UnknownAssumption, SameFormat, FormatsAssumption DEF IInv, TypeOK,
     PinsTypeOK, QuestionTypeOK, Device, DeviceConfigured, Setting, Passed,
     PassedTests, Places, Known, Threads, Formats, StoreBits, StoreStep,
     MayBe, states, ends, allocs, question
<1>7. QED  BY <1>1, <1>2, <1>3, <1>4, <1>5, <1>6 DEF IInv, TypeOK

LEMMA QueryAcceptKeeps ==
  ASSUME IInv, NEW type \in Types, QueryAccept(type)  PROVE IInv'
<1>1. PinsTypeOK'
  BY TypesFrame DEF IInv, TypeOK, QueryAccept
<1>2. QuestionTypeOK'
  BY AskKeeps DEF IInv, TypeOK, QuestionTypeOK, Threads, QueryAccept,
     Inactive, states, ends, allocs, question
<1>3. Pins'
  BY PinsFrame DEF IInv, QueryAccept
<1>4. Places'
  BY DEF IInv, TypeOK, PinsTypeOK, QuestionTypeOK, Places, Threads,
     QueryAccept, Inactive, Ask, states, ends, allocs, question
<1>5. Passed'
  BY DEF IInv, TypeOK, QuestionTypeOK, PinsTypeOK, Passed, PassedTests,
     Threads, QueryAccept, Inactive, Ask, states, ends, allocs, question
<1>6. Device'
  BY UnknownAssumption, SameFormat, FormatsAssumption DEF IInv, TypeOK,
     PinsTypeOK, QuestionTypeOK, Device, DeviceConfigured, Setting, Passed,
     PassedTests, Places, Known, Threads, Formats, QueryAccept, Inactive,
     Ask, states, ends, allocs, question
<1>7. QED  BY <1>1, <1>2, <1>3, <1>4, <1>5, <1>6 DEF IInv, TypeOK

LEMMA QueryAnsweredKeeps ==
  ASSUME IInv, QueryAnswered  PROVE IInv'
<1>1. PinsTypeOK'
  BY TypesFrame DEF IInv, TypeOK, QueryAnswered
<1>2. QuestionTypeOK'
  BY AnsweredKeeps DEF IInv, TypeOK, QuestionTypeOK, Threads, QueryAnswered,
     states, ends, allocs, question
<1>3. Pins'
  BY PinsFrame DEF IInv, QueryAnswered
<1>4. Places'
  BY DEF IInv, TypeOK, PinsTypeOK, QuestionTypeOK, Places, Threads,
     QueryAnswered, Answered, states, ends, allocs, question
<1>5. Passed'
  BY DEF IInv, TypeOK, QuestionTypeOK, PinsTypeOK, Passed, PassedTests,
     Threads, QueryAnswered, Answered, states, ends, allocs, question
<1>6. Device'
  BY UnknownAssumption, SameFormat, FormatsAssumption DEF IInv, TypeOK,
     PinsTypeOK, QuestionTypeOK, Device, DeviceConfigured, Setting, Passed,
     PassedTests, Places, Known, Threads, Formats, QueryAnswered, Answered,
     states, ends, allocs, question
<1>7. QED  BY <1>1, <1>2, <1>3, <1>4, <1>5, <1>6 DEF IInv, TypeOK

----------------------------------------------------------------------------
(* The graph's thread connects ...                                         *)

LEMMA ConnectKeeps ==
  ASSUME IInv, NEW list \in Seq(Types), Connect(list)  PROVE IInv'
<1>1. PinsTypeOK'
  BY DEF IInv, TypeOK, PinsTypeOK, Pins, Apart, Together, NoAllocs, Allocs,
     None, QuestionTypeOK, Threads, Connect, GraphStep, states, ends,
     allocs, question
<1>2. QuestionTypeOK'
  BY QuestionFrame DEF IInv, TypeOK, Connect, GraphStep
<1>3. Pins'
  BY NoTypeAssumption DEF IInv, TypeOK, PinsTypeOK, QuestionTypeOK, Pins,
     Places, Apart, Together, NoAllocs, Allocs, None, Threads, Connect,
     GraphStep, states, ends, allocs, question
<1>4. Places'
  BY DEF IInv, TypeOK, PinsTypeOK, Places, Connect, GraphStep, states, ends,
     allocs, question
<1>5. Passed'
  BY PassedFrame DEF IInv, Connect, GraphStep, ends
<1>6. Device'
  BY DEF IInv, Device, DeviceConfigured, Setting, Connect, GraphStep,
     states, ends, allocs, question
<1>7. QED  BY <1>1, <1>2, <1>3, <1>4, <1>5, <1>6 DEF IInv, TypeOK

LEMMA ConnectFailsKeeps ==
  ASSUME IInv, ConnectFails  PROVE IInv'
<1>1. PinsTypeOK'
  <2>1. outAlloc \in Allocs \cup {None} /\ (outAlloc # None => refs[outAlloc] > 0)
    BY DEF IInv, TypeOK, PinsTypeOK, Pins, Apart, Together, NoAllocs, Allocs,
       None, ConnectFails, GraphStep, BreakOut
  <2>2. refs' = Drop(refs, outAlloc) /\ Decommit(outAlloc)
    BY DEF IInv, Pins, HalfOut, HalfIn, Together, Apart, ConnectFails,
       GraphStep, BreakOut
  <2>3. /\ refs' \in [Allocs -> 0..2]
        /\ committed' \subseteq {b \in Allocs : refs'[b] > 0}
    BY <2>1, <2>2, DropKeeps DEF IInv, TypeOK
  <2>4. QED
    <3>1. todo' \in Seq(Types)
      BY DEF IInv, TypeOK, PinsTypeOK, Places, ConnectFails, GraphStep, BreakOut
    <3>2. QED
      BY <2>2, <2>3, <3>1 DEF IInv, TypeOK, PinsTypeOK, ConnectFails, GraphStep,
         BreakOut, states, ends, allocs, question
<1>2. QuestionTypeOK'
  BY QuestionFrame DEF IInv, TypeOK, ConnectFails, GraphStep
<1>3. Pins'
  BY NoTypeAssumption DEF IInv, TypeOK, PinsTypeOK, QuestionTypeOK, Pins,
     Places, Apart, Together, NoAllocs, Allocs, None, Threads, ConnectFails,
     GraphStep, BreakOut, Drop, Decommit, states, ends, allocs, question
<1>4. Places'
  BY DEF IInv, TypeOK, PinsTypeOK, Places, ConnectFails, GraphStep,
     BreakOut, Drop, Decommit, states, ends, allocs, question
<1>5. Passed'
  BY PassedFrame DEF IInv, ConnectFails, GraphStep, BreakOut, Drop,
     Decommit, ends
<1>6. Device'
  BY DEF IInv, Device, DeviceConfigured, Setting, ConnectFails, GraphStep,
     BreakOut, Drop, Decommit, states, ends, allocs, question
<1>7. QED  BY <1>1, <1>2, <1>3, <1>4, <1>5, <1>6 DEF IInv, TypeOK

LEMMA AttemptRefusedKeeps ==
  ASSUME IInv, AttemptRefused  PROVE IInv'
<1>1. PinsTypeOK'
  <2>1. outAlloc \in Allocs \cup {None} /\ (outAlloc # None => refs[outAlloc] > 0)
    BY DEF IInv, TypeOK, PinsTypeOK, Pins, Apart, NoAllocs, Allocs, None,
       AttemptRefused, GraphStep, BreakOut
  <2>2. refs' = Drop(refs, outAlloc) /\ Decommit(outAlloc)
    BY DEF IInv, Pins, HalfOut, HalfIn, Together, Apart, AttemptRefused,
       GraphStep, BreakOut
  <2>3. /\ refs' \in [Allocs -> 0..2]
        /\ committed' \subseteq {b \in Allocs : refs'[b] > 0}
    BY <2>1, <2>2, DropKeeps DEF IInv, TypeOK
  <2>4. QED
    <3>1. todo' \in Seq(Types)
      BY DEF IInv, TypeOK, PinsTypeOK, Places, AttemptRefused, GraphStep,
         BreakOut
    <3>2. QED
      BY <2>2, <2>3, <3>1 DEF IInv, TypeOK, PinsTypeOK, AttemptRefused,
         GraphStep, BreakOut, states, ends, allocs, question
<1>2. QuestionTypeOK'
  BY QuestionFrame DEF IInv, TypeOK, AttemptRefused, GraphStep
<1>3. Pins'
  BY NoTypeAssumption DEF IInv, TypeOK, PinsTypeOK, QuestionTypeOK, Pins,
     Places, Apart, NoAllocs, Allocs, None, Threads, AttemptRefused,
     GraphStep, BreakOut, Drop, Decommit, states, ends, allocs, question
<1>4. Places'
  BY DEF IInv, TypeOK, PinsTypeOK, Places, AttemptRefused, GraphStep,
     BreakOut, Drop, Decommit, states, ends, allocs, question
<1>5. Passed'
  BY PassedFrame DEF IInv, AttemptRefused, GraphStep, BreakOut, Drop,
     Decommit, ends
<1>6. Device'
  BY DEF IInv, Device, DeviceConfigured, Setting, AttemptRefused, GraphStep,
     BreakOut, Drop, Decommit, states, ends, allocs, question
<1>7. QED  BY <1>1, <1>2, <1>3, <1>4, <1>5, <1>6 DEF IInv, TypeOK

LEMMA AttemptKeeps ==
  ASSUME IInv, Attempt  PROVE IInv'
<1>1. PinsTypeOK'
  BY DEF IInv, TypeOK, PinsTypeOK, Pins, Apart, Proposed, NoAllocs, Allocs,
     None, QuestionTypeOK, Threads, Attempt, GraphStep, Ask, states, ends,
     allocs, question
<1>2. QuestionTypeOK'
  <2>1. CASE asking' = asking /\ check' = check /\ dev' = dev /\ asked' = asked
    BY <2>1 DEF IInv, TypeOK, QuestionTypeOK
  <2>2. CASE Ask("graph", Head(todo)) /\ asked' = TRUE
    <3>1. Head(todo) \in Types
      BY DEF IInv, TypeOK, PinsTypeOK, Attempt
    <3>2. QED  BY <2>2, <3>1, AskKeeps DEF IInv, TypeOK, Threads
  <2>3. QED  BY <2>1, <2>2 DEF Attempt, question
<1>3. Pins'
  BY NoTypeAssumption DEF IInv, TypeOK, PinsTypeOK, QuestionTypeOK, Pins,
     Places, Apart, Proposed, NoAllocs, Allocs, None, Threads, Attempt,
     GraphStep, Ask, states, ends, allocs, question
<1>4. Places'
  BY DEF IInv, TypeOK, PinsTypeOK, QuestionTypeOK, Places, Threads, Attempt,
     GraphStep, Ask, states, ends, allocs, question
<1>5. Passed'
  BY DEF IInv, TypeOK, QuestionTypeOK, PinsTypeOK, Passed, PassedTests,
     Threads, Attempt, GraphStep, Ask, states, ends, allocs, question
<1>6. Device'
  BY UnknownAssumption, SameFormat, FormatsAssumption DEF IInv, TypeOK,
     PinsTypeOK, QuestionTypeOK, Device, DeviceConfigured, Setting, Passed,
     PassedTests, Places, Known, Threads, Formats, Attempt, GraphStep, Ask,
     states, ends, allocs, question
<1>7. QED  BY <1>1, <1>2, <1>3, <1>4, <1>5, <1>6 DEF IInv, TypeOK

LEMMA ReceiveFailsKeeps ==
  ASSUME IInv, ReceiveFails  PROVE IInv'
<1>1. PinsTypeOK'
  BY DEF IInv, TypeOK, PinsTypeOK, Pins, Proposed, NoAllocs, Allocs, None,
     QuestionTypeOK, Threads, ReceiveFails, GraphStep, Answered, BreakIn,
     Drop, Decommit, states, ends, allocs, question
<1>2. QuestionTypeOK'
  BY AnsweredKeeps DEF IInv, TypeOK, QuestionTypeOK, Threads, ReceiveFails,
     GraphStep, BreakIn, Drop, Decommit, states, ends, allocs, question
<1>3. Pins'
  BY NoTypeAssumption DEF IInv, TypeOK, PinsTypeOK, QuestionTypeOK, Pins,
     Places, Proposed, NoAllocs, Allocs, None, Threads, ReceiveFails,
     GraphStep, Answered, BreakIn, Drop, Decommit, states, ends, allocs,
     question
<1>4. Places'
  BY DEF IInv, TypeOK, PinsTypeOK, QuestionTypeOK, Places, Threads,
     ReceiveFails, GraphStep, Answered, BreakIn, Drop, Decommit, states,
     ends, allocs, question
<1>5. Passed'
  BY DEF IInv, TypeOK, QuestionTypeOK, PinsTypeOK, Passed, PassedTests,
     Threads, ReceiveFails, GraphStep, Answered, BreakIn, Drop, Decommit,
     states, ends, allocs, question
<1>6. Device'
  BY UnknownAssumption, SameFormat, FormatsAssumption DEF IInv, TypeOK,
     PinsTypeOK, QuestionTypeOK, Device, DeviceConfigured, Setting, Passed,
     PassedTests, Places, Known, Threads, Formats, ReceiveFails, GraphStep,
     Answered, BreakIn, Drop, Decommit, states, ends, allocs, question
<1>7. QED  BY <1>1, <1>2, <1>3, <1>4, <1>5, <1>6 DEF IInv, TypeOK

LEMMA ReceiveAcceptsKeeps ==
  ASSUME IInv, ReceiveAccepts  PROVE IInv'
<1>1. PinsTypeOK'
  BY DEF IInv, TypeOK, PinsTypeOK, Pins, Proposed, Accepted, NoAllocs,
     Allocs, None, QuestionTypeOK, Threads, ReceiveAccepts, GraphStep, Ask,
     Inactive, states, ends, allocs, question
<1>2. QuestionTypeOK'
  BY AskKeeps DEF IInv, TypeOK, QuestionTypeOK, Threads, ReceiveAccepts,
     GraphStep, Inactive, states, ends, allocs, question
<1>3. Pins'
  BY NoTypeAssumption DEF IInv, TypeOK, PinsTypeOK, QuestionTypeOK, Pins,
     Places, Proposed, Accepted, NoAllocs, Allocs, None, Threads,
     ReceiveAccepts, GraphStep, Ask, Inactive, states, ends, allocs,
     question
<1>4. Places'
  BY DEF IInv, TypeOK, PinsTypeOK, QuestionTypeOK, Places, Threads,
     ReceiveAccepts, GraphStep, Ask, Inactive, states, ends, allocs,
     question
<1>5. Passed'
  BY DEF IInv, TypeOK, QuestionTypeOK, PinsTypeOK, Passed, PassedTests,
     Threads, ReceiveAccepts, GraphStep, Ask, Inactive, states, ends,
     allocs, question
<1>6. Device'
  BY UnknownAssumption, SameFormat, FormatsAssumption DEF IInv, TypeOK,
     PinsTypeOK, QuestionTypeOK, Device, DeviceConfigured, Setting, Passed,
     PassedTests, Places, Known, Threads, Formats, ReceiveAccepts,
     GraphStep, Ask, Inactive, states, ends, allocs, question
<1>7. QED  BY <1>1, <1>2, <1>3, <1>4, <1>5, <1>6 DEF IInv, TypeOK

LEMMA ReceiveReturnsKeeps ==
  ASSUME IInv, ReceiveReturns  PROVE IInv'
<1>1. PinsTypeOK'
  BY DEF IInv, TypeOK, PinsTypeOK, Pins, Accepted, NoAllocs, Allocs, None,
     QuestionTypeOK, Threads, ReceiveReturns, GraphStep, Answered, states,
     ends, allocs, question
<1>2. QuestionTypeOK'
  BY AnsweredKeeps DEF IInv, TypeOK, QuestionTypeOK, Threads,
     ReceiveReturns, GraphStep, states, ends, allocs, question
<1>3. Pins'
  BY NoTypeAssumption DEF IInv, TypeOK, PinsTypeOK, QuestionTypeOK, Pins,
     Places, Accepted, NoAllocs, Allocs, None, Threads, ReceiveReturns,
     GraphStep, Answered, states, ends, allocs, question
<1>4. Places'
  BY DEF IInv, TypeOK, PinsTypeOK, QuestionTypeOK, Places, Threads,
     ReceiveReturns, GraphStep, Answered, states, ends, allocs, question
<1>5. Passed'
  BY DEF IInv, TypeOK, QuestionTypeOK, PinsTypeOK, Passed, PassedTests,
     Threads, ReceiveReturns, GraphStep, Answered, states, ends, allocs,
     question
<1>6. Device'
  BY UnknownAssumption, SameFormat, FormatsAssumption DEF IInv, TypeOK,
     PinsTypeOK, QuestionTypeOK, Device, DeviceConfigured, Setting, Passed,
     PassedTests, Places, Known, Threads, Formats, ReceiveReturns,
     GraphStep, Answered, states, ends, allocs, question
<1>7. QED  BY <1>1, <1>2, <1>3, <1>4, <1>5, <1>6 DEF IInv, TypeOK

LEMMA CompleteWithInputKeeps ==
  ASSUME IInv, CompleteWithInput  PROVE IInv'
<1>1. PinsTypeOK'
  BY DEF IInv, TypeOK, PinsTypeOK, Pins, Accepted, Together, NoAllocs,
     Allocs, None, QuestionTypeOK, Threads, CompleteWithInput, GraphStep,
     CompleteWith, states, ends, allocs, question
<1>2. QuestionTypeOK'
  BY QuestionFrame DEF IInv, TypeOK, CompleteWithInput, GraphStep,
     CompleteWith
<1>3. Pins'
  BY NoTypeAssumption DEF IInv, TypeOK, PinsTypeOK, QuestionTypeOK, Pins,
     Places, Accepted, Together, NoAllocs, Allocs, None, Threads,
     CompleteWithInput, GraphStep, CompleteWith, states, ends, allocs,
     question
<1>4. Places'
  BY DEF IInv, TypeOK, PinsTypeOK, Places, CompleteWithInput, GraphStep,
     CompleteWith, states, ends, allocs, question
<1>5. Passed'
  BY PassedFrame DEF IInv, CompleteWithInput, GraphStep, CompleteWith, ends
<1>6. Device'
  BY DEF IInv, Device, DeviceConfigured, Setting, CompleteWithInput,
     GraphStep, CompleteWith, states, ends, allocs, question
<1>7. QED  BY <1>1, <1>2, <1>3, <1>4, <1>5, <1>6 DEF IInv, TypeOK

LEMMA CompleteWithOutputKeeps ==
  ASSUME IInv, CompleteWithOutput  PROVE IInv'
<1>1. PinsTypeOK'
  BY DEF IInv, TypeOK, PinsTypeOK, Pins, Accepted, Together, NoAllocs,
     Allocs, None, QuestionTypeOK, Threads, CompleteWithOutput, GraphStep,
     CompleteWith, states, ends, allocs, question
<1>2. QuestionTypeOK'
  BY QuestionFrame DEF IInv, TypeOK, CompleteWithOutput, GraphStep,
     CompleteWith
<1>3. Pins'
  BY NoTypeAssumption DEF IInv, TypeOK, PinsTypeOK, QuestionTypeOK, Pins,
     Places, Accepted, Together, NoAllocs, Allocs, None, Threads,
     CompleteWithOutput, GraphStep, CompleteWith, states, ends, allocs,
     question
<1>4. Places'
  BY DEF IInv, TypeOK, PinsTypeOK, Places, CompleteWithOutput, GraphStep,
     CompleteWith, states, ends, allocs, question
<1>5. Passed'
  BY PassedFrame DEF IInv, CompleteWithOutput, GraphStep, CompleteWith, ends
<1>6. Device'
  BY DEF IInv, Device, DeviceConfigured, Setting, CompleteWithOutput,
     GraphStep, CompleteWith, states, ends, allocs, question
<1>7. QED  BY <1>1, <1>2, <1>3, <1>4, <1>5, <1>6 DEF IInv, TypeOK

LEMMA CompleteFailsKeeps ==
  ASSUME IInv, CompleteFails  PROVE IInv'
<1>1. PinsTypeOK'
  BY DEF IInv, TypeOK, PinsTypeOK, Pins, Accepted, Proposed, NoAllocs,
     Allocs, None, QuestionTypeOK, Threads, CompleteFails, GraphStep,
     BreakIn, Drop, Decommit, states, ends, allocs, question
<1>2. QuestionTypeOK'
  BY QuestionFrame DEF IInv, TypeOK, CompleteFails, GraphStep, BreakIn
<1>3. Pins'
  BY NoTypeAssumption DEF IInv, TypeOK, PinsTypeOK, QuestionTypeOK, Pins,
     Places, Accepted, Proposed, NoAllocs, Allocs, None, Threads,
     CompleteFails, GraphStep, BreakIn, Drop, Decommit, states, ends,
     allocs, question
<1>4. Places'
  BY DEF IInv, TypeOK, PinsTypeOK, Places, CompleteFails, GraphStep,
     BreakIn, Drop, Decommit, states, ends, allocs, question
<1>5. Passed'
  BY PassedFrame DEF IInv, CompleteFails, GraphStep, BreakIn, Drop,
     Decommit, ends
<1>6. Device'
  BY DEF IInv, TypeOK, PinsTypeOK, Places, Device, DeviceConfigured,
     Setting, CompleteFails, GraphStep, BreakIn, Drop, Decommit, states,
     ends, allocs, question
<1>7. QED  BY <1>1, <1>2, <1>3, <1>4, <1>5, <1>6 DEF IInv, TypeOK

LEMMA UndoKeeps ==
  ASSUME IInv, Undo  PROVE IInv'
<1>1. PinsTypeOK'
  <2>1. outAlloc \in Allocs \cup {None} /\ (outAlloc # None => refs[outAlloc] > 0)
    BY DEF IInv, TypeOK, PinsTypeOK, Pins, Apart, Proposed, NoAllocs, Allocs,
       None, Undo, GraphStep, BreakOut
  <2>2. refs' = Drop(refs, outAlloc) /\ Decommit(outAlloc)
    BY DEF IInv, Pins, HalfOut, HalfIn, Together, Apart, Undo, GraphStep,
       BreakOut
  <2>3. /\ refs' \in [Allocs -> 0..2]
        /\ committed' \subseteq {b \in Allocs : refs'[b] > 0}
    BY <2>1, <2>2, DropKeeps DEF IInv, TypeOK
  <2>4. QED
    <3>1. todo' \in Seq(Types)
      BY DEF IInv, TypeOK, PinsTypeOK, Places, Undo, GraphStep, BreakOut
    <3>2. QED
      BY <2>2, <2>3, <3>1 DEF IInv, TypeOK, PinsTypeOK, Undo, GraphStep,
         BreakOut, states, ends, allocs, question
<1>2. QuestionTypeOK'
  BY QuestionFrame DEF IInv, TypeOK, Undo, GraphStep
<1>3. Pins'
  BY NoTypeAssumption DEF IInv, TypeOK, PinsTypeOK, QuestionTypeOK, Pins,
     Places, Apart, Proposed, NoAllocs, Allocs, None, Threads, Undo,
     GraphStep, BreakOut, Drop, Decommit, states, ends, allocs, question
<1>4. Places'
  BY DEF IInv, TypeOK, PinsTypeOK, Places, Undo, GraphStep, BreakOut, Drop,
     Decommit, states, ends, allocs, question
<1>5. Passed'
  BY PassedFrame DEF IInv, Undo, GraphStep, BreakOut, Drop, Decommit, ends
<1>6. Device'
  BY DEF IInv, Device, DeviceConfigured, Setting, Undo, GraphStep, BreakOut,
     Drop, Decommit, states, ends, allocs, question
<1>7. QED  BY <1>1, <1>2, <1>3, <1>4, <1>5, <1>6 DEF IInv, TypeOK

----------------------------------------------------------------------------
(* ... disconnects, and changes the states of the filters.                 *)

LEMMA DisconnectOutKeeps ==
  ASSUME IInv, DisconnectOut  PROVE IInv'
<1>1. PinsTypeOK'
  <2>1. outAlloc \in Allocs \cup {None} /\ (outAlloc # None => refs[outAlloc] > 0)
    BY DEF IInv, TypeOK, PinsTypeOK, Pins, Apart, Together, HalfOut, HalfIn,
       NoAllocs, Allocs, None, DisconnectOut, GraphStep, BreakOut
  <2>2. refs' = Drop(refs, outAlloc) /\ Decommit(outAlloc)
    BY DEF IInv, Pins, HalfOut, HalfIn, Together, Apart, DisconnectOut,
       GraphStep, BreakOut
  <2>3. /\ refs' \in [Allocs -> 0..2]
        /\ committed' \subseteq {b \in Allocs : refs'[b] > 0}
    BY <2>1, <2>2, DropKeeps DEF IInv, TypeOK
  <2>4. QED
    <3>1. todo' \in Seq(Types)
      BY DEF IInv, TypeOK, PinsTypeOK, Places, DisconnectOut, GraphStep,
         BreakOut
    <3>2. QED
      BY <2>2, <2>3, <3>1 DEF IInv, TypeOK, PinsTypeOK, DisconnectOut,
         GraphStep, BreakOut, states, ends, allocs, question
<1>2. QuestionTypeOK'
  BY QuestionFrame DEF IInv, TypeOK, DisconnectOut, GraphStep
<1>3. Pins'
  BY NoTypeAssumption DEF IInv, TypeOK, PinsTypeOK, QuestionTypeOK, Pins,
     Places, Apart, Together, HalfOut, HalfIn, NoAllocs, Allocs, None,
     Threads, DisconnectOut, GraphStep, BreakOut, Drop, Decommit, states,
     ends, allocs, question
<1>4. Places'
  BY DEF IInv, TypeOK, PinsTypeOK, Places, DisconnectOut, GraphStep,
     BreakOut, Drop, Decommit, states, ends, allocs, question
<1>5. Passed'
  BY PassedFrame DEF IInv, DisconnectOut, GraphStep, BreakOut, Drop,
     Decommit, ends
<1>6. Device'
  BY DEF IInv, Device, DeviceConfigured, Setting, DisconnectOut, GraphStep,
     BreakOut, Drop, Decommit, states, ends, allocs, question
<1>7. QED  BY <1>1, <1>2, <1>3, <1>4, <1>5, <1>6 DEF IInv, TypeOK

LEMMA DisconnectInKeeps ==
  ASSUME IInv, DisconnectIn  PROVE IInv'
<1>1. PinsTypeOK'
  <2>1. inAlloc \in Allocs \cup {None} /\ (inAlloc # None => refs[inAlloc] > 0)
    BY DEF IInv, TypeOK, PinsTypeOK, Pins, Apart, Together, HalfOut, HalfIn,
       NoAllocs, Allocs, None, DisconnectIn, GraphStep, BreakIn
  <2>2. mt # NoType /\ refs' = Drop(refs, inAlloc) /\ Decommit(inAlloc)
    BY DEF IInv, Pins, HalfOut, HalfIn, Together, Apart, DisconnectIn,
       GraphStep, BreakIn
  <2>3. /\ refs' \in [Allocs -> 0..2]
        /\ committed' \subseteq {b \in Allocs : refs'[b] > 0}
    BY <2>1, <2>2, DropKeeps DEF IInv, TypeOK
  <2>4. QED
    <3>1. todo' \in Seq(Types)
      BY DEF IInv, TypeOK, PinsTypeOK, Places, DisconnectIn, GraphStep, BreakIn
    <3>2. QED
      BY <2>2, <2>3, <3>1 DEF IInv, TypeOK, PinsTypeOK, DisconnectIn, GraphStep,
         BreakIn, states, ends, allocs, question
<1>2. QuestionTypeOK'
  BY QuestionFrame DEF IInv, TypeOK, DisconnectIn, GraphStep, BreakIn
<1>3. Pins'
  <2>1. /\ gpc \in {"idle", "half"} /\ connIn /\ mt # NoType
        /\ inAlloc \in Allocs /\ ~upActive /\ inAlloc # None
    BY DEF IInv, Pins, Apart, Together, HalfOut, HalfIn, DisconnectIn, Allocs, None
  <2>2. /\ connIn' = FALSE /\ mt' = NoType /\ inAlloc' = None
        /\ refs' = [refs EXCEPT ![inAlloc] = @ - 1]
        /\ committed' = committed \ {inAlloc}
        /\ UNCHANGED <<connOut, inputPin, outAlloc>>
        /\ gpc' = IF gpc = "half" THEN "idle" ELSE "half"
    BY <2>1 DEF DisconnectIn, GraphStep, BreakIn, Drop, Decommit
  <2>3. refs \in [Allocs -> 0..2]
    BY DEF IInv, TypeOK, PinsTypeOK
  <2>4. CASE gpc = "idle"
    <3>1. Together
      BY <2>1, <2>4 DEF IInv, Pins, Apart
    <3>2. HalfOut'
      BY <2>1, <2>2, <2>3, <3>1 DEF Together, HalfOut
    <3>3. QED  BY <2>2, <2>4, <3>2 DEF Pins
  <2>5. CASE gpc = "half"
    <3>1. HalfIn
      BY <2>1, <2>5 DEF IInv, Pins, HalfOut
    <3>2. Apart'
      BY <2>1, <2>2, <2>3, <3>1 DEF HalfIn, Apart, NoAllocs, Allocs
    <3>3. QED  BY <2>2, <2>5, <3>2 DEF Pins
  <2>6. QED  BY <2>1, <2>4, <2>5
<1>4. Places'
  BY DEF IInv, TypeOK, PinsTypeOK, Places, DisconnectIn, GraphStep, BreakIn,
     Drop, Decommit, states, ends, allocs, question
<1>5. Passed'
  BY PassedFrame DEF IInv, DisconnectIn, GraphStep, BreakIn, Drop, Decommit,
     ends
<1>6. Device'
  BY DEF IInv, TypeOK, PinsTypeOK, Places, Device, DeviceConfigured,
     Setting, DisconnectIn, GraphStep, BreakIn, Drop, Decommit, states,
     ends, allocs, question
<1>7. QED  BY <1>1, <1>2, <1>3, <1>4, <1>5, <1>6 DEF IInv, TypeOK

LEMMA UpPauseKeeps ==
  ASSUME IInv, UpPause  PROVE IInv'
<1>1. PinsTypeOK'
  BY DEF IInv, TypeOK, PinsTypeOK, Pins, Apart, Together, NoAllocs, Allocs,
     None, QuestionTypeOK, Threads, UpPause, StateStep, states, ends,
     allocs, question
<1>2. QuestionTypeOK'
  BY QuestionFrame DEF IInv, TypeOK, UpPause, StateStep
<1>3. Pins'
  BY NoTypeAssumption DEF IInv, TypeOK, PinsTypeOK, QuestionTypeOK, Pins,
     Places, Apart, Together, NoAllocs, Allocs, None, Threads, UpPause,
     StateStep, states, ends, allocs, question
<1>4. Places'
  BY DEF IInv, TypeOK, PinsTypeOK, Places, UpPause, StateStep, states, ends,
     allocs, question
<1>5. Passed'
  BY PassedFrame DEF IInv, UpPause, StateStep, ends
<1>6. Device'
  BY DEF IInv, Device, DeviceConfigured, Setting, UpPause, StateStep,
     states, ends, allocs, question
<1>7. QED  BY <1>1, <1>2, <1>3, <1>4, <1>5, <1>6 DEF IInv, TypeOK

LEMMA UpStopKeeps ==
  ASSUME IInv, UpStop  PROVE IInv'
<1>1. PinsTypeOK'
  BY DEF IInv, TypeOK, PinsTypeOK, Pins, Apart, Together, NoAllocs, Allocs,
     None, QuestionTypeOK, Threads, UpStop, StateStep, Decommit, states,
     ends, allocs, question
<1>2. QuestionTypeOK'
  BY QuestionFrame DEF IInv, TypeOK, UpStop, StateStep
<1>3. Pins'
  BY NoTypeAssumption DEF IInv, TypeOK, PinsTypeOK, QuestionTypeOK, Pins,
     Places, Apart, Together, NoAllocs, Allocs, None, Threads, UpStop,
     StateStep, Decommit, states, ends, allocs, question
<1>4. Places'
  BY DEF IInv, TypeOK, PinsTypeOK, Places, UpStop, StateStep, Decommit,
     states, ends, allocs, question
<1>5. Passed'
  BY PassedFrame DEF IInv, UpStop, StateStep, Decommit, ends
<1>6. Device'
  BY DEF IInv, Device, DeviceConfigured, Setting, UpStop, StateStep,
     Decommit, states, ends, allocs, question
<1>7. QED  BY <1>1, <1>2, <1>3, <1>4, <1>5, <1>6 DEF IInv, TypeOK

LEMMA PauseKeeps ==
  ASSUME IInv, Pause  PROVE IInv'
<1>1. PinsTypeOK'
  BY DEF IInv, TypeOK, PinsTypeOK, Pins, Apart, Together, NoAllocs, Allocs,
     None, QuestionTypeOK, Threads, Pause, StateStep, states, ends, allocs,
     question
<1>2. QuestionTypeOK'
  BY QuestionFrame DEF IInv, TypeOK, Pause, StateStep
<1>3. Pins'
  BY NoTypeAssumption DEF IInv, TypeOK, PinsTypeOK, QuestionTypeOK, Pins,
     Places, Apart, Together, NoAllocs, Allocs, None, Threads, Pause,
     StateStep, states, ends, allocs, question
<1>4. Places'
  BY DEF IInv, TypeOK, PinsTypeOK, Places, Pause, StateStep, states, ends,
     allocs, question
<1>5. Passed'
  BY PassedFrame DEF IInv, Pause, StateStep, ends
<1>6. Device'
  BY DEF IInv, Device, DeviceConfigured, Setting, Pause, StateStep, states,
     ends, allocs, question
<1>7. QED  BY <1>1, <1>2, <1>3, <1>4, <1>5, <1>6 DEF IInv, TypeOK

LEMMA StopKeeps ==
  ASSUME IInv, Stop  PROVE IInv'
<1>1. PinsTypeOK'
  BY DEF IInv, TypeOK, PinsTypeOK, Pins, Apart, Together, NoAllocs, Allocs,
     None, QuestionTypeOK, Threads, Stop, StateStep, states, ends, allocs,
     question
<1>2. QuestionTypeOK'
  BY QuestionFrame DEF IInv, TypeOK, Stop, StateStep
<1>3. Pins'
  BY NoTypeAssumption DEF IInv, TypeOK, PinsTypeOK, QuestionTypeOK, Pins,
     Places, Apart, Together, NoAllocs, Allocs, None, Threads, Stop,
     StateStep, states, ends, allocs, question
<1>4. Places'
  BY DEF IInv, TypeOK, PinsTypeOK, Places, Stop, StateStep, states, ends,
     allocs, question
<1>5. Passed'
  BY PassedFrame DEF IInv, Stop, StateStep, ends
<1>6. Device'
  BY DEF IInv, Device, DeviceConfigured, Setting, Stop, StateStep, states,
     ends, allocs, question
<1>7. QED  BY <1>1, <1>2, <1>3, <1>4, <1>5, <1>6 DEF IInv, TypeOK

----------------------------------------------------------------------------
(* The streaming thread.                                                   *)

LEMMA ReceiveKeeps ==
  ASSUME IInv, NEW type \in Types, Receive(type)  PROVE IInv'
<1>1. PinsTypeOK'
  BY DEF IInv, TypeOK, PinsTypeOK, Pins, Apart, Together, HalfOut, HalfIn,
     Proposed, Accepted, NoAllocs, Allocs, None, QuestionTypeOK, Threads,
     Receive, StreamStep, Ask, states, ends, allocs, question
<1>2. QuestionTypeOK'
  BY AskKeeps DEF IInv, TypeOK, QuestionTypeOK, Threads, Receive,
     StreamStep, states, ends, allocs, question
<1>3. Pins'
  BY NoTypeAssumption DEF IInv, TypeOK, PinsTypeOK, QuestionTypeOK, Pins,
     Places, Apart, Together, HalfOut, HalfIn, Proposed, Accepted, NoAllocs,
     Allocs, None, Threads, Receive, StreamStep, Ask, states, ends, allocs,
     question
<1>4. Places'
  BY DEF IInv, TypeOK, PinsTypeOK, QuestionTypeOK, Places, Threads, Receive,
     StreamStep, Ask, states, ends, allocs, question
<1>5. Passed'
  BY DEF IInv, TypeOK, QuestionTypeOK, PinsTypeOK, Passed, PassedTests,
     Threads, Receive, StreamStep, Ask, states, ends, allocs, question
<1>6. Device'
  BY UnknownAssumption, SameFormat, FormatsAssumption DEF IInv, TypeOK,
     PinsTypeOK, QuestionTypeOK, Device, DeviceConfigured, Setting, Passed,
     PassedTests, Places, Known, Threads, Formats, Receive, StreamStep, Ask,
     states, ends, allocs, question
<1>7. QED  BY <1>1, <1>2, <1>3, <1>4, <1>5, <1>6 DEF IInv, TypeOK

LEMMA ReceiveRefusedKeeps ==
  ASSUME IInv, ReceiveRefused  PROVE IInv'
<1>1. PinsTypeOK'
  BY DEF IInv, TypeOK, PinsTypeOK, Pins, Apart, Together, HalfOut, HalfIn,
     Proposed, Accepted, NoAllocs, Allocs, None, QuestionTypeOK, Threads,
     ReceiveRefused, StreamStep, Answered, states, ends, allocs, question
<1>2. QuestionTypeOK'
  BY AnsweredKeeps DEF IInv, TypeOK, QuestionTypeOK, Threads,
     ReceiveRefused, StreamStep, states, ends, allocs, question
<1>3. Pins'
  BY NoTypeAssumption DEF IInv, TypeOK, PinsTypeOK, QuestionTypeOK, Pins,
     Places, Apart, Together, HalfOut, HalfIn, Proposed, Accepted, NoAllocs,
     Allocs, None, Threads, ReceiveRefused, StreamStep, Answered, states,
     ends, allocs, question
<1>4. Places'
  BY DEF IInv, TypeOK, PinsTypeOK, QuestionTypeOK, Places, Threads,
     ReceiveRefused, StreamStep, Answered, states, ends, allocs, question
<1>5. Passed'
  BY DEF IInv, TypeOK, QuestionTypeOK, PinsTypeOK, Passed, PassedTests,
     Threads, ReceiveRefused, StreamStep, Answered, states, ends, allocs,
     question
<1>6. Device'
  BY UnknownAssumption, SameFormat, FormatsAssumption DEF IInv, TypeOK,
     PinsTypeOK, QuestionTypeOK, Device, DeviceConfigured, Setting, Passed,
     PassedTests, Places, Known, Threads, Formats, ReceiveRefused,
     StreamStep, Answered, states, ends, allocs, question
<1>7. QED  BY <1>1, <1>2, <1>3, <1>4, <1>5, <1>6 DEF IInv, TypeOK

LEMMA SetMediaTypeKeeps ==
  ASSUME IInv, SetMediaType  PROVE IInv'
<1>1. PinsTypeOK'
  BY DEF IInv, TypeOK, PinsTypeOK, Pins, Apart, Together, HalfOut, HalfIn,
     Proposed, Accepted, NoAllocs, Allocs, None, QuestionTypeOK, Threads,
     SetMediaType, StreamStep, Ask, Inactive, states, ends, allocs, question
<1>2. QuestionTypeOK'
  BY AskKeeps DEF IInv, TypeOK, QuestionTypeOK, Threads, SetMediaType,
     StreamStep, Inactive, states, ends, allocs, question
<1>3. Pins'
  BY NoTypeAssumption DEF IInv, TypeOK, PinsTypeOK, QuestionTypeOK, Pins,
     Places, Apart, Together, HalfOut, HalfIn, Proposed, Accepted, NoAllocs,
     Allocs, None, Threads, SetMediaType, StreamStep, Ask, Inactive, states,
     ends, allocs, question
<1>4. Places'
  BY DEF IInv, TypeOK, PinsTypeOK, QuestionTypeOK, Places, Threads,
     SetMediaType, StreamStep, Ask, Inactive, states, ends, allocs, question
<1>5. Passed'
  BY DEF IInv, TypeOK, QuestionTypeOK, PinsTypeOK, Passed, PassedTests,
     Threads, SetMediaType, StreamStep, Ask, Inactive, states, ends, allocs,
     question
<1>6. Device'
  BY UnknownAssumption, SameFormat, FormatsAssumption DEF IInv, TypeOK,
     PinsTypeOK, QuestionTypeOK, Device, DeviceConfigured, Setting, Passed,
     PassedTests, Places, Known, Threads, Formats, SetMediaType, StreamStep,
     Ask, Inactive, states, ends, allocs, question
<1>7. QED  BY <1>1, <1>2, <1>3, <1>4, <1>5, <1>6 DEF IInv, TypeOK

LEMMA SetMediaTypeReturnsKeeps ==
  ASSUME IInv, SetMediaTypeReturns  PROVE IInv'
<1>1. PinsTypeOK'
  BY DEF IInv, TypeOK, PinsTypeOK, Pins, Apart, Together, HalfOut, HalfIn,
     Proposed, Accepted, NoAllocs, Allocs, None, QuestionTypeOK, Threads,
     SetMediaTypeReturns, StreamStep, Answered, states, ends, allocs,
     question
<1>2. QuestionTypeOK'
  BY AnsweredKeeps DEF IInv, TypeOK, QuestionTypeOK, Threads,
     SetMediaTypeReturns, StreamStep, states, ends, allocs, question
<1>3. Pins'
  BY NoTypeAssumption DEF IInv, TypeOK, PinsTypeOK, QuestionTypeOK, Pins,
     Places, Apart, Together, HalfOut, HalfIn, Proposed, Accepted, NoAllocs,
     Allocs, None, Threads, SetMediaTypeReturns, StreamStep, Answered,
     states, ends, allocs, question
<1>4. Places'
  BY DEF IInv, TypeOK, PinsTypeOK, QuestionTypeOK, Places, Threads,
     SetMediaTypeReturns, StreamStep, Answered, states, ends, allocs,
     question
<1>5. Passed'
  BY DEF IInv, TypeOK, QuestionTypeOK, PinsTypeOK, Passed, PassedTests,
     Threads, SetMediaTypeReturns, StreamStep, Answered, states, ends,
     allocs, question
<1>6. Device'
  BY UnknownAssumption, SameFormat, FormatsAssumption DEF IInv, TypeOK,
     PinsTypeOK, QuestionTypeOK, Device, DeviceConfigured, Setting, Passed,
     PassedTests, Places, Known, Threads, Formats, SetMediaTypeReturns,
     StreamStep, Answered, states, ends, allocs, question
<1>7. QED  BY <1>1, <1>2, <1>3, <1>4, <1>5, <1>6 DEF IInv, TypeOK

LEMMA EndFlushKeeps ==
  ASSUME IInv, EndFlush  PROVE IInv'
<1>1. PinsTypeOK'
  BY DEF IInv, TypeOK, PinsTypeOK, EndFlush, states, ends, allocs
<1>2. QuestionTypeOK'
  BY QuestionFrame DEF IInv, TypeOK, EndFlush
<1>3. Pins'
  BY PinsFrame DEF IInv, EndFlush
<1>4. Places'
  BY DEF IInv, TypeOK, PinsTypeOK, Places, EndFlush, states, ends, allocs,
     question
<1>5. Passed'
  BY PassedFrame DEF IInv, EndFlush, ends
<1>6. Device'
  BY DEF IInv, Device, DeviceConfigured, Setting, EndFlush, states, ends,
     allocs, question
<1>7. QED  BY <1>1, <1>2, <1>3, <1>4, <1>5, <1>6 DEF IInv, TypeOK

----------------------------------------------------------------------------
(* The steps together. *)

LEMMA Start == Init => IInv
<1>1. SUFFICES ASSUME Init  PROVE IInv
  OBVIOUS
<1>2. PinsTypeOK
  <2>1. committed \subseteq {a \in Allocs : refs[a] > 0} /\ todo \in Seq(Types)
    BY <1>1 DEF Init
  <2>2. refs \in [Allocs -> 0..2]
    BY <1>1 DEF Init
  <2>3. QED  BY <1>1, <2>1, <2>2 DEF Init, PinsTypeOK
<1>3. QuestionTypeOK
  BY <1>1, FormatsAssumption DEF Init, QuestionTypeOK, Threads
<1>4. Pins /\ Places
  BY <1>1 DEF Init, Pins, Places, Apart, NoAllocs, Allocs, None, Threads
<1>5. Passed
  BY <1>1 DEF Init, Passed, PassedTests, Threads
<1>6. Device
  BY <1>1 DEF Init, Device, DeviceConfigured, Threads
<1>7. QED  BY <1>2, <1>3, <1>4, <1>5, <1>6 DEF IInv, TypeOK

LEMMA Stutter == IInv /\ UNCHANGED vars => IInv'
<1>1. SUFFICES ASSUME IInv, UNCHANGED vars  PROVE IInv'
  OBVIOUS
<1>2. /\ UNCHANGED <<states, ends, allocs, runTimeError, gpc, todo, spc>>
      /\ UNCHANGED question /\ UNCHANGED <<asked>>
  BY <1>1 DEF vars
<1>3. TypeOK'
  BY <1>1, <1>2, TypesFrame, QuestionFrame DEF IInv, TypeOK
<1>4. Pins' /\ Passed'
  BY <1>1, <1>2, PinsFrame, PassedFrame DEF IInv, ends
<1>5. Places'
  BY <1>1, <1>2 DEF IInv, Places, states, ends, question
<1>6. Device'
  BY <1>1, <1>2 DEF IInv, Device, DeviceConfigured, Setting, ends, question
<1>7. QED  BY <1>3, <1>4, <1>5, <1>6 DEF IInv

LEMMA GraphKeeps == IInv /\ Graph => IInv'
<1>1. SUFFICES ASSUME IInv, Graph  PROVE IInv'
  OBVIOUS
<1>2. ASSUME NEW list \in Seq(Types), Connect(list)  PROVE IInv'
  BY <1>1, <1>2, ConnectKeeps
<1>3. CASE ConnectFails
  BY <1>1, <1>3, ConnectFailsKeeps
<1>4. CASE AttemptRefused
  BY <1>1, <1>4, AttemptRefusedKeeps
<1>5. CASE Attempt
  BY <1>1, <1>5, AttemptKeeps
<1>6. CASE ReceiveFails
  BY <1>1, <1>6, ReceiveFailsKeeps
<1>7. CASE ReceiveAccepts
  BY <1>1, <1>7, ReceiveAcceptsKeeps
<1>8. CASE ReceiveReturns
  BY <1>1, <1>8, ReceiveReturnsKeeps
<1>9. CASE CompleteWithInput
  BY <1>1, <1>9, CompleteWithInputKeeps
<1>10. CASE CompleteWithOutput
  BY <1>1, <1>10, CompleteWithOutputKeeps
<1>11. CASE CompleteFails
  BY <1>1, <1>11, CompleteFailsKeeps
<1>12. CASE Undo
  BY <1>1, <1>12, UndoKeeps
<1>13. CASE DisconnectOut
  BY <1>1, <1>13, DisconnectOutKeeps
<1>14. CASE DisconnectIn
  BY <1>1, <1>14, DisconnectInKeeps
<1>15. CASE UpPause
  BY <1>1, <1>15, UpPauseKeeps
<1>16. CASE UpStop
  BY <1>1, <1>16, UpStopKeeps
<1>17. CASE Pause
  BY <1>1, <1>17, PauseKeeps
<1>18. CASE Stop
  BY <1>1, <1>18, StopKeeps
<1>19. QED
  <2>1. CASE Connect(Offered)
    BY <1>2, <2>1, OfferedAssumption
  <2>2. ASSUME NEW type \in Types, Connect(<<type>>)  PROVE IInv'
    <3>1. <<type>> \in Seq(Types)
      OBVIOUS
    <3>2. QED  BY <1>2, <2>2, <3>1
  <2>3. QED
    BY <1>1, <1>3, <1>4, <1>5, <1>6, <1>7, <1>8, <1>9, <1>10, <1>11, <1>12,
     <1>13, <1>14, <1>15, <1>16, <1>17, <1>18, <2>1, <2>2 DEF Graph,
     Connecting

LEMMA StreamKeeps == IInv /\ Stream => IInv'
<1>1. SUFFICES ASSUME IInv, Stream  PROVE IInv'
  OBVIOUS
<1>2. ASSUME NEW type \in Types, Receive(type)  PROVE IInv'
  BY <1>1, <1>2, ReceiveKeeps
<1>3. CASE ReceiveRefused
  BY <1>1, <1>3, ReceiveRefusedKeeps
<1>4. CASE SetMediaType
  BY <1>1, <1>4, SetMediaTypeKeeps
<1>5. CASE SetMediaTypeReturns
  BY <1>1, <1>5, SetMediaTypeReturnsKeeps
<1>6. CASE EndFlush
  BY <1>1, <1>6, EndFlushKeeps
<1>7. QED
  BY <1>1, <1>2, <1>3, <1>4, <1>5, <1>6 DEF Stream

LEMMA AskerKeeps == IInv /\ Asker => IInv'
<1>1. SUFFICES ASSUME IInv, Asker  PROVE IInv'
  OBVIOUS
<1>2. ASSUME NEW type \in Types, QueryAccept(type)  PROVE IInv'
  BY <1>1, <1>2, QueryAcceptKeeps
<1>3. CASE QueryAnswered
  BY <1>1, <1>3, QueryAnsweredKeeps
<1>4. QED
  BY <1>1, <1>2, <1>3 DEF Asker

LEMMA StoreKeeps == ASSUME IInv, NEW t \in Threads, Store(t)  PROVE IInv'
BY StoreFreqKeeps, StoreLayoutKeeps, StoreBitsKeeps DEF Store

LEMMA Inductive == Spec => []IInv
<1>1. IInv /\ [Next]_vars => IInv'
  BY GraphKeeps, StreamKeeps, AskerKeeps, StoreKeeps, Stutter DEF Next
<1>2. QED  BY <1>1, Start, PTL DEF Spec

(***************************************************************************)
(* What follows from it.                                                   *)
(***************************************************************************)

(* Types, and the count of references to the allocators: Release is never  *)
(* called once more than the allocator was handed out.                     *)
THEOREM TypeCorrect == Spec => []TypeOK
<1>1. IInv => TypeOK
  BY DEF IInv
<1>2. QED  BY <1>1, Inductive, PTL

(* CAudioInputPin::BreakConnect, wherever the connection fails, makes the  *)
(* media type tell whether the pin is connected.                           *)
THEOREM TypeIffConnectedCorrect == Spec => []TypeIffConnected
<1>1. IInv => TypeIffConnected
  BY DEF IInv, TypeOK, PinsTypeOK, TypeIffConnected, Pins, Apart, Proposed,
     Accepted, Together, HalfOut, HalfIn
<1>2. QED  BY <1>1, Inductive, PTL

(* Between two calls of the graph the pins agree whether they are          *)
(* connected and through which allocator.                                  *)
THEOREM PinsAgreeCorrect == Spec => []PinsAgree
<1>1. IInv => PinsAgree
  <2>1. SUFFICES ASSUME IInv, gpc = "idle"  PROVE
          /\ connOut = connIn
          /\ connOut => /\ outAlloc = inAlloc /\ outAlloc # None
                        /\ upActive <=> outAlloc \in committed
    BY DEF PinsAgree
  <2>2. CASE Apart
    BY <2>1, <2>2 DEF IInv, TypeOK, PinsTypeOK, Apart, NoAllocs
  <2>3. CASE Together
    BY <2>1, <2>3 DEF IInv, TypeOK, PinsTypeOK, Together, Allocs, None
  <2>4. QED  BY <2>1, <2>2, <2>3 DEF IInv, Pins
<1>2. QED  BY <1>1, Inductive, PTL

(* An attempt that fails, at whatever step, and a connection that ends     *)
(* leave no reference and nothing committed.                               *)
THEOREM NothingLeftCorrect == Spec => []NothingLeft
<1>1. IInv => NothingLeft
  BY DEF IInv, Pins, Apart, Together, NoAllocs, NothingLeft, Allocs
<1>2. QED  BY <1>1, Inductive, PTL

(* Unless somebody has asked since, the device plays what the connection   *)
(* carries, however its three stores interleave with the other threads.    *)
THEOREM DeviceConfiguredCorrect == Spec => []DeviceConfigured
<1>1. IInv => DeviceConfigured
  BY DEF IInv, Device, DeviceConfigured
<1>2. QED  BY <1>1, Inductive, PTL

(* A connection is whole or leaves nothing, wherever an attempt fails.     *)
THEOREM ConnectionWholeCorrect == Spec => []ConnectionWhole
BY TypeCorrect, TypeIffConnectedCorrect, PinsAgreeCorrect,
   NothingLeftCorrect, PTL DEF ConnectionWhole

-----------------------------------------------------------------------------
(***************************************************************************)
(* Objects.  Per object: which calls may overlap, what m_cRef is as long as*)
(* nobody is inside a call (OLObject); and the library stays as long as there*)
(* is an object or a lock that is counted (OLLoaded).                      *)
(***************************************************************************)

LEMMA OLAssumption ==
  /\ IsFiniteSet(ol_Threads) /\ IsFiniteSet(ol_Objects) /\ OL!Nothing \notin ol_Objects
  /\ ol_RefsMax \in Nat \ {0}
  BY ObjectAssumption DEF OL!Nothing

OLPlace == {"idle", "addref", "lock", "unlock", "created", "failed", "query", "release", "innerDone",
            "zero", "destructor", "destructorRelease"}

OLThreads ==
  /\ ol_pc \in [ol_Threads -> OLPlace]
  /\ ol_on \in [ol_Threads -> ol_Objects \cup {OL!Nothing}]
  /\ DOMAIN ol_local = ol_Threads
  /\ \A t \in ol_Threads : ol_pc[t] \notin {"idle", "addref", "lock", "unlock"} => ol_on[t] \in ol_Objects

OLRefs == ol_refs \in [ol_Threads -> [ol_Objects -> 0..ol_RefsMax]]

OLObjects ==
  /\ ol_life \in [ol_Objects -> {"unmade", "alive", "dying", "gone"}]
  /\ ol_m_cRef \in [ol_Objects -> Int] /\ ol_deleted \in [ol_Objects -> Int]

OLLibrary ==
  /\ ol_factory \in [ol_Threads -> Nat] /\ ol_m_cObjects \in Int
  /\ ol_library \in {"loaded", "looked", "unloaded"}
  /\ \A t \in ol_Threads : ol_pc[t] = "addref" => ol_local[t] = ol_factory[t] /\ ol_factory[t] > 0

OLTypes == OLThreads /\ OLRefs /\ OLObjects /\ OLLibrary

\* The thread is in a call about the object.
OLAt(t, o) == ol_on[t] = o /\ ol_pc[t] \notin {"idle", "addref", "lock", "unlock"}

\* Nobody refers to the object but the call the thread is in.
OLAlone(t, o) == \A u \in ol_Threads : ol_refs[u][o] = 0 /\ (u # t => ~OLAt(u, o))

\* Only calls of Release on one object overlap; every other has the object for
\* itself, and knows its count.
OLCalls(o) == \A t \in ol_Threads : OLAt(t, o) =>
  /\ ol_pc[t] \in {"destructor", "destructorRelease"} => ol_life[o] = "dying"
  /\ ol_pc[t] \notin {"destructor", "destructorRelease"} => ol_life[o] = "alive"
  /\ ol_pc[t] # "release" => OLAlone(t, o)
  /\ ol_pc[t] \in {"created", "failed", "zero"} => ol_m_cRef[o] = 0
  /\ ol_pc[t] = "query" => ol_m_cRef[o] = 1
  /\ ol_pc[t] \in {"innerDone", "destructorRelease"} => ol_m_cRef[o] = 2
  /\ ol_pc[t] = "destructor" /\ ol_local[t] = 0 => ol_m_cRef[o] = 1

OLLives(o) ==
  /\ \A t \in ol_Threads : ol_refs[t][o] > 0 => ol_life[o] = "alive"
  /\ ol_life[o] = "unmade" => ol_m_cRef[o] = 0
  /\ ol_life[o] \in {"unmade", "alive"} => ol_deleted[o] = 0
  /\ ol_life[o] \in {"dying", "gone"} => ol_deleted[o] = 1

\* The references to an object: what threads keep, and what calls of Release bring.
OLTokens(o) == {x \in ol_Threads \X (0..ol_RefsMax) :
  IF x[2] = 0 THEN ol_on[x[1]] = o /\ ol_pc[x[1]] = "release" ELSE x[2] <= ol_refs[x[1]][o]}

OLShared(o) == ol_life[o] = "alive" /\ \A t \in ol_Threads : OLAt(t, o) => ol_pc[t] = "release"

\* While there are no other calls, the count is that of the references.
OLCount(o) == OLShared(o) => ol_m_cRef[o] = Cardinality(OLTokens(o)) /\ ol_m_cRef[o] > 0

OLMade == {o \in ol_Objects : ol_life[o] \in {"alive", "dying"}}
OLFactories == {t \in ol_Threads : ol_factory[t] > 0}

\* m_cObjects counts objects and factories, and the library goes when there are none.
OLLoaded ==
  /\ ol_m_cObjects = Cardinality(OLMade) + Cardinality(OLFactories)
  /\ ol_library = "unloaded" => OLMade = {} /\ OLFactories = {}

OLObject(o) == OLCalls(o) /\ OLLives(o) /\ OLCount(o)

OLInv == OLTypes /\ (\A o \in ol_Objects : OLObject(o)) /\ OLLoaded

(* The sets counted are finite.                                            *)
LEMMA OLFinite ==
  /\ \A o : IsFiniteSet(OLTokens(o)) /\ IsFiniteSet(OLTokens(o)')
  /\ IsFiniteSet(OLMade) /\ IsFiniteSet(OLFactories)
  /\ IsFiniteSet(OLMade') /\ IsFiniteSet(OLFactories')
  <1>1. IsFiniteSet(ol_Threads \X (0..ol_RefsMax))
    <2>1. IsFiniteSet(0..ol_RefsMax)
      BY OLAssumption, FS_Interval
    <2> QED
      BY <2>1, OLAssumption, FS_Product
  <1>2. \A o : OLTokens(o) \in SUBSET (ol_Threads \X (0..ol_RefsMax))
    BY DEF OLTokens
  <1>3. \A o : OLTokens(o)' \in SUBSET (ol_Threads \X (0..ol_RefsMax))
    BY DEF OLTokens
  <1>4. /\ OLMade \in SUBSET ol_Objects /\ OLFactories \in SUBSET ol_Threads
        /\ OLMade' \in SUBSET ol_Objects /\ OLFactories' \in SUBSET ol_Threads
    BY DEF OLMade, OLFactories
  <1>5. \A o : IsFiniteSet(OLTokens(o)) /\ IsFiniteSet(OLTokens(o)')
    BY <1>1, <1>2, <1>3, FS_Subset
  <1> QED
    BY <1>4, <1>5, OLAssumption, FS_Subset

(* An object that neither reference nor call has touched.                   *)
LEMMA OLUntouched ==
  ASSUME NEW o \in ol_Objects, OLTypes, OLTypes', OLObject(o),
         ol_life'[o] = ol_life[o], ol_m_cRef'[o] = ol_m_cRef[o], ol_deleted'[o] = ol_deleted[o],
         \A u \in ol_Threads : ol_refs'[u][o] = ol_refs[u][o],
         \A u \in ol_Threads : OLAt(u, o) => ol_on'[u] = ol_on[u] /\ ol_pc'[u] = ol_pc[u] /\ ol_local'[u] = ol_local[u],
         \A u \in ol_Threads : OLAt(u, o)' => OLAt(u, o)
  PROVE  OLObject(o)'
  <1>1. OLCalls(o)'
    BY DEF OLObject, OLCalls, OLAlone, OLAt
  <1>2. OLLives(o)'
    BY DEF OLObject, OLLives
  <1>3. \A u \in ol_Threads : (ol_on'[u] = o /\ ol_pc'[u] = "release") <=> (ol_on[u] = o /\ ol_pc[u] = "release")
    BY DEF OLAt
  <1>4. OLTokens(o)' = OLTokens(o)
    BY <1>3 DEF OLTokens
  <1>5. OLShared(o)' => OLShared(o)
    BY DEF OLShared, OLAt
  <1> QED
    BY <1>1, <1>2, <1>4, <1>5 DEF OLObject, OLCount

(* A call that has the object for itself knows its count.                   *)
LEMMA OLSingle ==
  ASSUME NEW o \in ol_Objects, NEW t \in ol_Threads, OLTypes, OLObject(o), OLAt(t, o), ol_pc[t] # "release"
  PROVE  OLAlone(t, o) /\ ~OLShared(o)
  BY DEF OLObject, OLCalls, OLShared

(* What a step of such a call leaves.                                       *)
LEMMA OLSingleStep ==
  ASSUME NEW o \in ol_Objects, NEW t \in ol_Threads, OLTypes, OLTypes', OLAlone(t, o),
         \A u \in ol_Threads : ol_refs'[u][o] = ol_refs[u][o],
         \A u \in ol_Threads : u # t => ol_on'[u] = ol_on[u] /\ ol_pc'[u] = ol_pc[u],
         OLAt(t, o)', ol_pc'[t] # "release",
         (ol_pc'[t] \in {"destructor", "destructorRelease"} /\ ol_life'[o] = "dying" /\ ol_deleted'[o] = 1)
           \/ (ol_pc'[t] \notin {"destructor", "destructorRelease"} /\ ol_life'[o] = "alive" /\ ol_deleted'[o] = 0),
         ol_pc'[t] \in {"created", "failed", "zero"} => ol_m_cRef'[o] = 0,
         ol_pc'[t] = "query" => ol_m_cRef'[o] = 1,
         ol_pc'[t] \in {"innerDone", "destructorRelease"} => ol_m_cRef'[o] = 2,
         ol_pc'[t] = "destructor" /\ ol_local'[t] = 0 => ol_m_cRef'[o] = 1
  PROVE  OLObject(o)'
  <1>1. OLAlone(t, o)'
    BY DEF OLAlone, OLAt
  <1>2. OLCalls(o)'
    BY <1>1 DEF OLCalls, OLAlone
  <1>3. OLLives(o)'
    BY <1>1 DEF OLLives, OLAlone
  <1>4. OLCount(o)'
    BY DEF OLCount, OLShared
  <1> QED
    BY <1>2, <1>3, <1>4 DEF OLObject

(* No count changes while no object is made or gone.                        *)
LEMMA OLSame ==
  ASSUME OLTypes, OLTypes', OLLoaded, OLMade' = OLMade, OLFactories' = OLFactories,
         ol_m_cObjects' = ol_m_cObjects,
         ol_library' = ol_library \/ ol_library' # "unloaded" \/ ol_m_cObjects = 0
  PROVE  OLLoaded'
  <1>1. Cardinality(OLMade) \in Nat /\ Cardinality(OLFactories) \in Nat
    BY OLFinite, FS_CardinalityType
  <1>2. ol_m_cObjects = 0 => OLMade = {} /\ OLFactories = {}
    BY <1>1, OLFinite, FS_EmptySet DEF OLLoaded
  <1> QED
    BY <1>2 DEF OLLoaded

LEMMA OLStart == OL!Init => OLInv
  <1> SUFFICES ASSUME OL!Init
               PROVE  OLInv
    OBVIOUS
  <1>1. OLTypes
    BY OLAssumption
       DEF OL!Init, OLTypes, OLThreads, OLRefs, OLObjects, OLLibrary, OLPlace
  <1>2. \A o \in ol_Objects : OLObject(o)
    BY DEF OL!Init, OLObject, OLCalls, OLLives, OLCount, OLShared, OLAt
  <1>3. OLMade = {} /\ OLFactories = {}
    BY DEF OL!Init, OLMade, OLFactories
  <1>4. OLLoaded
    BY <1>3, FS_EmptySet DEF OL!Init, OLLoaded
  <1> QED
    BY <1>1, <1>2, <1>4 DEF OLInv

LEMMA OLStepTypes == OLInv /\ [OL!Next]_(OL!vars) => OLTypes'
  <1> SUFFICES ASSUME OLInv, [OL!Next]_(OL!vars)
               PROVE  OLTypes'
    OBVIOUS
  <1>0. OLThreads /\ OLRefs /\ OLObjects /\ OLLibrary /\ ol_RefsMax \in Nat \ {0}
    BY OLAssumption DEF OLInv, OLTypes
  <1>1. ASSUME NEW t \in ol_Threads, OL!DllGetClassObject(t)
       PROVE  OLTypes'
    <2>1. OLThreads'
      BY <1>0, <1>1
         DEF OL!DllGetClassObject, OL!Runs, OL!Goes, OL!counts, OL!objects, OLThreads,
             OLPlace
    <2>2. OLRefs'
      BY <1>0, <1>1
         DEF OL!DllGetClassObject, OL!Runs, OL!Goes, OL!counts, OL!objects, OLRefs
    <2>3. OLObjects'
      BY <1>0, <1>1
         DEF OL!DllGetClassObject, OL!Runs, OL!Goes, OL!counts, OL!objects, OLObjects
    <2>4. OLLibrary'
      BY <1>0, <1>1
         DEF OL!DllGetClassObject, OL!Runs, OL!Goes, OL!counts, OL!objects, OLLibrary,
             OLThreads
    <2> QED
      BY <2>1, <2>2, <2>3, <2>4 DEF OLTypes
  <1>2. ASSUME NEW t \in ol_Threads, OL!FactoryQueryInterface(t)
       PROVE  OLTypes'
    <2>1. OLThreads'
      BY <1>0, <1>2
         DEF OL!FactoryQueryInterface, OL!Runs, OL!Goes, OL!counts, OL!objects,
             OLThreads, OLPlace
    <2>2. OLRefs'
      BY <1>0, <1>2
         DEF OL!FactoryQueryInterface, OL!Runs, OL!Goes, OL!counts, OL!objects, OLRefs
    <2>3. OLObjects'
      BY <1>0, <1>2
         DEF OL!FactoryQueryInterface, OL!Runs, OL!Goes, OL!counts, OL!objects,
             OLObjects
    <2>4. OLLibrary'
      BY <1>0, <1>2
         DEF OL!FactoryQueryInterface, OL!Runs, OL!Goes, OL!counts, OL!objects,
             OLLibrary, OLThreads
    <2> QED
      BY <2>1, <2>2, <2>3, <2>4 DEF OLTypes
  <1>18. ASSUME NEW t \in ol_Threads, OL!FactoryReferenced(t)
       PROVE  OLTypes'
    <2>1. OLThreads'
      BY <1>0, <1>18
         DEF OL!FactoryReferenced, OL!Runs, OL!Goes, OL!counts, OL!objects, OLThreads,
             OLPlace
    <2>2. OLRefs'
      BY <1>0, <1>18
         DEF OL!FactoryReferenced, OL!Runs, OL!Goes, OL!counts, OL!objects, OLRefs
    <2>3. OLObjects'
      BY <1>0, <1>18
         DEF OL!FactoryReferenced, OL!Runs, OL!Goes, OL!counts, OL!objects, OLObjects
    <2>4. OLLibrary'
      BY <1>0, <1>18
         DEF OL!FactoryReferenced, OL!Runs, OL!Goes, OL!counts, OL!objects, OLLibrary,
             OLThreads
    <2> QED
      BY <2>1, <2>2, <2>3, <2>4 DEF OLTypes
  <1>3. ASSUME NEW t \in ol_Threads, OL!FactoryRelease(t)
       PROVE  OLTypes'
    <2>1. OLThreads'
      BY <1>0, <1>3
         DEF OL!FactoryRelease, OL!Runs, OL!Goes, OL!counts, OL!objects, OLThreads,
             OLPlace
    <2>2. OLRefs'
      BY <1>0, <1>3
         DEF OL!FactoryRelease, OL!Runs, OL!Goes, OL!counts, OL!objects, OLRefs
    <2>3. OLObjects'
      BY <1>0, <1>3
         DEF OL!FactoryRelease, OL!Runs, OL!Goes, OL!counts, OL!objects, OLObjects
    <2>4. OLLibrary'
      BY <1>0, <1>3
         DEF OL!FactoryRelease, OL!Runs, OL!Goes, OL!counts, OL!objects, OLLibrary,
             OLThreads
    <2> QED
      BY <2>1, <2>2, <2>3, <2>4 DEF OLTypes
  <1>4. ASSUME NEW t \in ol_Threads, OL!LockServer(t)
       PROVE  OLTypes'
    <2>1. OLThreads'
      BY <1>0, <1>4
         DEF OL!LockServer, OL!Runs, OL!Goes, OL!counts, OL!objects, OLThreads, OLPlace
    <2>2. OLRefs'
      BY <1>0, <1>4 DEF OL!LockServer, OL!Runs, OL!Goes, OL!counts, OL!objects, OLRefs
    <2>3. OLObjects'
      BY <1>0, <1>4
         DEF OL!LockServer, OL!Runs, OL!Goes, OL!counts, OL!objects, OLObjects
    <2>4. OLLibrary'
      BY <1>0, <1>4
         DEF OL!LockServer, OL!Runs, OL!Goes, OL!counts, OL!objects, OLLibrary,
             OLThreads
    <2> QED
      BY <2>1, <2>2, <2>3, <2>4 DEF OLTypes
  <1>5. ASSUME NEW t \in ol_Threads, OL!Locked(t)
       PROVE  OLTypes'
    <2>1. OLThreads'
      BY <1>0, <1>5
         DEF OL!Locked, OL!Runs, OL!Goes, OL!counts, OL!objects, OLThreads, OLPlace
    <2>2. OLRefs'
      BY <1>0, <1>5 DEF OL!Locked, OL!Runs, OL!Goes, OL!counts, OL!objects, OLRefs
    <2>3. OLObjects'
      BY <1>0, <1>5 DEF OL!Locked, OL!Runs, OL!Goes, OL!counts, OL!objects, OLObjects
    <2>4. OLLibrary'
      BY <1>0, <1>5
         DEF OL!Locked, OL!Runs, OL!Goes, OL!counts, OL!objects, OLLibrary, OLThreads
    <2> QED
      BY <2>1, <2>2, <2>3, <2>4 DEF OLTypes
  <1>6. ASSUME NEW t \in ol_Threads, OL!CreateInstance(t)
       PROVE  OLTypes'
    <2>1. OLThreads'
      BY <1>0, <1>6
         DEF OL!CreateInstance, OL!Runs, OL!Goes, OL!counts, OL!objects, OLThreads,
             OLPlace
    <2>2. OLRefs'
      BY <1>0, <1>6
         DEF OL!CreateInstance, OL!Runs, OL!Goes, OL!counts, OL!objects, OLRefs
    <2>3. OLObjects'
      BY <1>0, <1>6
         DEF OL!CreateInstance, OL!Runs, OL!Goes, OL!counts, OL!objects, OLObjects
    <2>4. OLLibrary'
      BY <1>0, <1>6
         DEF OL!CreateInstance, OL!Runs, OL!Goes, OL!counts, OL!objects, OLLibrary,
             OLThreads
    <2> QED
      BY <2>1, <2>2, <2>3, <2>4 DEF OLTypes
  <1>7. ASSUME NEW t \in ol_Threads, OL!ConstructionFailed(t)
       PROVE  OLTypes'
    <2>1. OLThreads'
      BY <1>0, <1>7
         DEF OL!ConstructionFailed, OL!Runs, OL!Goes, OL!counts, OL!objects, OLThreads,
             OLPlace
    <2>2. OLRefs'
      BY <1>0, <1>7
         DEF OL!ConstructionFailed, OL!Runs, OL!Goes, OL!counts, OL!objects, OLRefs
    <2>a. ol_on[t] \in ol_Objects
      BY <1>0, <1>7 DEF OL!ConstructionFailed, OL!Runs, OLThreads
    <2>3. OLObjects'
      <3>1. ol_life' \in [ol_Objects -> {"unmade", "alive", "dying", "gone"}]
        BY <1>0, <2>a, <1>7
           DEF OL!ConstructionFailed, OL!Runs, OL!Goes, OL!counts, OL!objects,
               OLObjects
      <3>2. ol_m_cRef' \in [ol_Objects -> Int]
        BY <1>0, <2>a, <1>7
           DEF OL!ConstructionFailed, OL!Runs, OL!Goes, OL!counts, OL!objects,
               OLObjects
      <3>3. ol_deleted' \in [ol_Objects -> Int]
        BY <1>0, <2>a, <1>7
           DEF OL!ConstructionFailed, OL!Runs, OL!Goes, OL!counts, OL!objects,
               OLObjects
      <3> QED
        BY <3>1, <3>2, <3>3 DEF OLObjects
    <2>4. OLLibrary'
      BY <1>0, <1>7
         DEF OL!ConstructionFailed, OL!Runs, OL!Goes, OL!counts, OL!objects, OLLibrary,
             OLThreads
    <2> QED
      BY <2>1, <2>2, <2>3, <2>4 DEF OLTypes
  <1>8. ASSUME NEW t \in ol_Threads, OL!CreateAddRef(t)
       PROVE  OLTypes'
    <2>1. OLThreads'
      BY <1>0, <1>8
         DEF OL!CreateAddRef, OL!Runs, OL!Goes, OL!counts, OL!objects, OLThreads,
             OLPlace
    <2>2. OLRefs'
      BY <1>0, <1>8 DEF OL!CreateAddRef, OL!Runs, OL!Goes, OL!counts, OL!objects, OLRefs
    <2>a. ol_on[t] \in ol_Objects
      BY <1>0, <1>8 DEF OL!CreateAddRef, OL!Runs, OLThreads
    <2>3. OLObjects'
      <3>1. ol_life' \in [ol_Objects -> {"unmade", "alive", "dying", "gone"}]
        BY <1>0, <2>a, <1>8
           DEF OL!CreateAddRef, OL!Runs, OL!Goes, OL!counts, OL!objects, OLObjects
      <3>2. ol_m_cRef' \in [ol_Objects -> Int]
        BY <1>0, <2>a, <1>8
           DEF OL!CreateAddRef, OL!Runs, OL!Goes, OL!counts, OL!objects, OLObjects
      <3>3. ol_deleted' \in [ol_Objects -> Int]
        BY <1>0, <2>a, <1>8
           DEF OL!CreateAddRef, OL!Runs, OL!Goes, OL!counts, OL!objects, OLObjects
      <3> QED
        BY <3>1, <3>2, <3>3 DEF OLObjects
    <2>4. OLLibrary'
      BY <1>0, <1>8
         DEF OL!CreateAddRef, OL!Runs, OL!Goes, OL!counts, OL!objects, OLLibrary,
             OLThreads
    <2> QED
      BY <2>1, <2>2, <2>3, <2>4 DEF OLTypes
  <1>9. ASSUME NEW t \in ol_Threads, OL!QueryInterface(t)
       PROVE  OLTypes'
    <2>1. OLThreads'
      BY <1>0, <1>9
         DEF OL!QueryInterface, OL!Runs, OL!Goes, OL!counts, OL!objects, OLThreads,
             OLPlace
    <2>2. OLRefs'
      <3>1. ol_on[t] \in ol_Objects /\ ol_pc[t] = "query"
        BY <1>0, <1>9 DEF OL!QueryInterface, OL!Runs, OLThreads
      <3>2. OLAlone(t, ol_on[t])
        BY <3>1 DEF OLInv, OLObject, OLCalls, OLAt
      <3>3. OLRefs /\ ol_RefsMax \in Nat \ {0}
        BY <1>0
      <3>4. ol_refs[t][ol_on[t]] + 1 \in 0..ol_RefsMax
        BY <3>1, <3>2, <3>3 DEF OLRefs, OLAlone
      <3>5. ol_refs' = ol_refs \/ ol_refs' = [ol_refs EXCEPT ![t][ol_on[t]] = @ + 1]
        BY <1>9 DEF OL!QueryInterface
      <3> QED
        BY <3>1, <3>3, <3>4, <3>5 DEF OLRefs
    <2>3. OLObjects'
      BY <1>0, <1>9
         DEF OL!QueryInterface, OL!Runs, OL!Goes, OL!counts, OL!objects, OLObjects
    <2>4. OLLibrary'
      BY <1>0, <1>9
         DEF OL!QueryInterface, OL!Runs, OL!Goes, OL!counts, OL!objects, OLLibrary,
             OLThreads
    <2> QED
      BY <2>1, <2>2, <2>3, <2>4 DEF OLTypes
  <1>10. ASSUME NEW t \in ol_Threads, OL!AddRef(t)
       PROVE  OLTypes'
    <2>1. OLThreads'
      BY <1>0, <1>10
         DEF OL!AddRef, OL!Runs, OL!Goes, OL!counts, OL!objects, OLThreads, OLPlace
    <2>2. OLRefs'
      BY <1>0, <1>10 DEF OL!AddRef, OL!Runs, OL!Goes, OL!counts, OL!objects, OLRefs
    <2>3. OLObjects'
      BY <1>0, <1>10 DEF OL!AddRef, OL!Runs, OL!Goes, OL!counts, OL!objects, OLObjects
    <2>4. OLLibrary'
      BY <1>0, <1>10
         DEF OL!AddRef, OL!Runs, OL!Goes, OL!counts, OL!objects, OLLibrary, OLThreads
    <2> QED
      BY <2>1, <2>2, <2>3, <2>4 DEF OLTypes
  <1>11. ASSUME NEW t \in ol_Threads, OL!ReleaseCall(t)
       PROVE  OLTypes'
    <2>1. OLThreads'
      BY <1>0, <1>11
         DEF OL!ReleaseCall, OL!Runs, OL!Goes, OL!counts, OL!objects, OLThreads,
             OLPlace
    <2>2. OLRefs'
      BY <1>0, <1>11 DEF OL!ReleaseCall, OL!Runs, OL!Goes, OL!counts, OL!objects, OLRefs
    <2>3. OLObjects'
      BY <1>0, <1>11
         DEF OL!ReleaseCall, OL!Runs, OL!Goes, OL!counts, OL!objects, OLObjects
    <2>4. OLLibrary'
      BY <1>0, <1>11
         DEF OL!ReleaseCall, OL!Runs, OL!Goes, OL!counts, OL!objects, OLLibrary,
             OLThreads
    <2> QED
      BY <2>1, <2>2, <2>3, <2>4 DEF OLTypes
  <1>12. ASSUME NEW t \in ol_Threads, OL!Decrement(t)
       PROVE  OLTypes'
    <2>1. OLThreads'
      BY <1>0, <1>12
         DEF OL!Decrement, OL!Runs, OL!Goes, OL!counts, OL!objects, OLThreads, OLPlace
    <2>2. OLRefs'
      BY <1>0, <1>12 DEF OL!Decrement, OL!Runs, OL!Goes, OL!counts, OL!objects, OLRefs
    <2>a. ol_on[t] \in ol_Objects
      BY <1>0, <1>12 DEF OL!Decrement, OL!Runs, OLThreads
    <2>3. OLObjects'
      <3>1. ol_life' \in [ol_Objects -> {"unmade", "alive", "dying", "gone"}]
        BY <1>0, <2>a, <1>12
           DEF OL!Decrement, OL!Runs, OL!Goes, OL!counts, OL!objects, OLObjects
      <3>2. ol_m_cRef' \in [ol_Objects -> Int]
        BY <1>0, <2>a, <1>12
           DEF OL!Decrement, OL!Runs, OL!Goes, OL!counts, OL!objects, OLObjects
      <3>3. ol_deleted' \in [ol_Objects -> Int]
        BY <1>0, <2>a, <1>12
           DEF OL!Decrement, OL!Runs, OL!Goes, OL!counts, OL!objects, OLObjects
      <3> QED
        BY <3>1, <3>2, <3>3 DEF OLObjects
    <2>4. OLLibrary'
      BY <1>0, <1>12
         DEF OL!Decrement, OL!Runs, OL!Goes, OL!counts, OL!objects, OLLibrary,
             OLThreads
    <2> QED
      BY <2>1, <2>2, <2>3, <2>4 DEF OLTypes
  <1>13. ASSUME NEW t \in ol_Threads, OL!Delete(t)
       PROVE  OLTypes'
    <2>1. OLThreads'
      BY <1>0, <1>13
         DEF OL!Delete, OL!Runs, OL!Goes, OL!counts, OL!objects, OLThreads, OLPlace
    <2>2. OLRefs'
      BY <1>0, <1>13 DEF OL!Delete, OL!Runs, OL!Goes, OL!counts, OL!objects, OLRefs
    <2>a. ol_on[t] \in ol_Objects
      BY <1>0, <1>13 DEF OL!Delete, OL!Runs, OLThreads
    <2>3. OLObjects'
      <3>1. ol_life' \in [ol_Objects -> {"unmade", "alive", "dying", "gone"}]
        BY <1>0, <2>a, <1>13
           DEF OL!Delete, OL!Runs, OL!Goes, OL!counts, OL!objects, OLObjects
      <3>2. ol_m_cRef' \in [ol_Objects -> Int]
        BY <1>0, <2>a, <1>13
           DEF OL!Delete, OL!Runs, OL!Goes, OL!counts, OL!objects, OLObjects
      <3>3. ol_deleted' \in [ol_Objects -> Int]
        BY <1>0, <2>a, <1>13
           DEF OL!Delete, OL!Runs, OL!Goes, OL!counts, OL!objects, OLObjects
      <3> QED
        BY <3>1, <3>2, <3>3 DEF OLObjects
    <2>4. OLLibrary'
      BY <1>0, <1>13
         DEF OL!Delete, OL!Runs, OL!Goes, OL!counts, OL!objects, OLLibrary, OLThreads
    <2> QED
      BY <2>1, <2>2, <2>3, <2>4 DEF OLTypes
  <1>14. ASSUME NEW t \in ol_Threads, OL!DestructorAddRef(t)
       PROVE  OLTypes'
    <2>1. OLThreads'
      BY <1>0, <1>14
         DEF OL!DestructorAddRef, OL!Runs, OL!Goes, OL!counts, OL!objects, OLThreads,
             OLPlace
    <2>2. OLRefs'
      BY <1>0, <1>14
         DEF OL!DestructorAddRef, OL!Runs, OL!Goes, OL!counts, OL!objects, OLRefs
    <2>a. ol_on[t] \in ol_Objects
      BY <1>0, <1>14 DEF OL!DestructorAddRef, OL!Runs, OLThreads
    <2>3. OLObjects'
      <3>1. ol_life' \in [ol_Objects -> {"unmade", "alive", "dying", "gone"}]
        BY <1>0, <2>a, <1>14
           DEF OL!DestructorAddRef, OL!Runs, OL!Goes, OL!counts, OL!objects, OLObjects
      <3>2. ol_m_cRef' \in [ol_Objects -> Int]
        BY <1>0, <2>a, <1>14
           DEF OL!DestructorAddRef, OL!Runs, OL!Goes, OL!counts, OL!objects, OLObjects
      <3>3. ol_deleted' \in [ol_Objects -> Int]
        BY <1>0, <2>a, <1>14
           DEF OL!DestructorAddRef, OL!Runs, OL!Goes, OL!counts, OL!objects, OLObjects
      <3> QED
        BY <3>1, <3>2, <3>3 DEF OLObjects
    <2>4. OLLibrary'
      BY <1>0, <1>14
         DEF OL!DestructorAddRef, OL!Runs, OL!Goes, OL!counts, OL!objects, OLLibrary,
             OLThreads
    <2> QED
      BY <2>1, <2>2, <2>3, <2>4 DEF OLTypes
  <1>15. ASSUME NEW t \in ol_Threads, OL!DestructorRelease(t)
       PROVE  OLTypes'
    <2>1. OLThreads'
      BY <1>0, <1>15
         DEF OL!DestructorRelease, OL!Runs, OL!Goes, OL!counts, OL!objects, OLThreads,
             OLPlace
    <2>2. OLRefs'
      BY <1>0, <1>15
         DEF OL!DestructorRelease, OL!Runs, OL!Goes, OL!counts, OL!objects, OLRefs
    <2>a. ol_on[t] \in ol_Objects
      BY <1>0, <1>15 DEF OL!DestructorRelease, OL!Runs, OLThreads
    <2>3. OLObjects'
      <3>1. ol_life' \in [ol_Objects -> {"unmade", "alive", "dying", "gone"}]
        BY <1>0, <2>a, <1>15
           DEF OL!DestructorRelease, OL!Runs, OL!Goes, OL!counts, OL!objects, OLObjects
      <3>2. ol_m_cRef' \in [ol_Objects -> Int]
        BY <1>0, <2>a, <1>15
           DEF OL!DestructorRelease, OL!Runs, OL!Goes, OL!counts, OL!objects, OLObjects
      <3>3. ol_deleted' \in [ol_Objects -> Int]
        BY <1>0, <2>a, <1>15
           DEF OL!DestructorRelease, OL!Runs, OL!Goes, OL!counts, OL!objects, OLObjects
      <3> QED
        BY <3>1, <3>2, <3>3 DEF OLObjects
    <2>4. OLLibrary'
      BY <1>0, <1>15
         DEF OL!DestructorRelease, OL!Runs, OL!Goes, OL!counts, OL!objects, OLLibrary,
             OLThreads
    <2> QED
      BY <2>1, <2>2, <2>3, <2>4 DEF OLTypes
  <1>16. ASSUME NEW t \in ol_Threads, OL!Destroyed(t)
       PROVE  OLTypes'
    <2>1. OLThreads'
      BY <1>0, <1>16
         DEF OL!Destroyed, OL!Runs, OL!Goes, OL!counts, OL!objects, OLThreads, OLPlace
    <2>2. OLRefs'
      BY <1>0, <1>16 DEF OL!Destroyed, OL!Runs, OL!Goes, OL!counts, OL!objects, OLRefs
    <2>3. OLObjects'
      BY <1>0, <1>16
         DEF OL!Destroyed, OL!Runs, OL!Goes, OL!counts, OL!objects, OLObjects
    <2>4. OLLibrary'
      BY <1>0, <1>16
         DEF OL!Destroyed, OL!Runs, OL!Goes, OL!counts, OL!objects, OLLibrary,
             OLThreads
    <2> QED
      BY <2>1, <2>2, <2>3, <2>4 DEF OLTypes
  <1>17. CASE OL!IsLocked \/ OL!ObjectsActive \/ UNCHANGED OL!vars
    BY <1>0, <1>17
       DEF OL!IsLocked, OL!ObjectsActive, OL!vars, OL!counts, OL!objects, OLTypes,
           OLThreads, OLRefs,
                      OLObjects, OLLibrary
  <1> QED
    BY <1>1, <1>2, <1>3, <1>4, <1>5, <1>6, <1>7, <1>8, <1>9, <1>10, <1>11, <1>12, <1>13,
       <1>14, <1>15, <1>16, <1>17, <1>18 DEF OL!Next

(* What a thread's references to an object are, after a step of its own.    *)
LEMMA OLReleaseStep ==
  ASSUME NEW o \in ol_Objects, OLTypes', ol_life'[o] = "alive", ol_deleted'[o] = 0,
         \A u \in ol_Threads : OLAt(u, o)' => ol_pc'[u] = "release",
         ol_m_cRef'[o] = Cardinality(OLTokens(o)'), ol_m_cRef'[o] > 0
  PROVE  OLObject(o)'
  <1>1. OLCalls(o)'
    BY DEF OLCalls
  <1>2. OLLives(o)'
    BY DEF OLLives
  <1>3. OLCount(o)'
    BY DEF OLCount
  <1> QED
    BY <1>1, <1>2, <1>3 DEF OLObject

(* While a reference or a call of Release is there, no other call is.       *)
LEMMA OLTogether ==
  ASSUME NEW o \in ol_Objects, OLTypes, OLObject(o), NEW t \in ol_Threads,
         ol_refs[t][o] > 0 \/ (OLAt(t, o) /\ ol_pc[t] = "release")
  PROVE  /\ ol_life[o] = "alive" /\ ol_deleted[o] = 0
         /\ \A u \in ol_Threads : OLAt(u, o) => ol_pc[u] = "release"
         /\ ol_m_cRef[o] = Cardinality(OLTokens(o)) /\ ol_m_cRef[o] > 0
  <1> USE DEF OLObject
  <1>1. ol_life[o] = "alive"
    BY DEF OLCalls, OLLives
  <1>2. \A u \in ol_Threads : OLAt(u, o) => ol_pc[u] = "release"
    <2> SUFFICES ASSUME NEW u \in ol_Threads, OLAt(u, o), ol_pc[u] # "release"
                 PROVE  FALSE
      OBVIOUS
    <2>1. OLAlone(u, o)
      BY DEF OLCalls
    <2> QED
      BY <2>1 DEF OLAlone, OLTypes, OLRefs
  <1> QED
    BY <1>1, <1>2 DEF OLCount, OLShared, OLLives

LEMMA OLStepObjects == OLInv /\ [OL!Next]_(OL!vars) => \A o \in ol_Objects : OLObject(o)'
  <1> SUFFICES ASSUME OLInv, [OL!Next]_(OL!vars), NEW o \in ol_Objects
               PROVE  OLObject(o)'
    OBVIOUS
  <1>0. OLTypes /\ OLTypes' /\ OLObject(o)
    BY OLStepTypes DEF OLInv

  <1>1. ASSUME NEW t \in ol_Threads, OL!DllGetClassObject(t)
       PROVE  OLObject(o)'
    <2>1. UNCHANGED <<ol_life, ol_m_cRef, ol_deleted, ol_refs, ol_on>>
      BY <1>1 DEF OL!DllGetClassObject, OL!Runs, OL!Goes, OL!counts, OL!objects
    <2>2. \A u \in ol_Threads : OLAt(u, o) => ol_pc'[u] = ol_pc[u] /\ ol_local'[u] = ol_local[u]
      BY <1>0, <1>1
         DEF OL!DllGetClassObject, OL!Runs, OL!Goes, OL!counts, OL!objects, OLTypes,
             OLThreads, OLAt
    <2>3. \A u \in ol_Threads : OLAt(u, o)' => OLAt(u, o)
      BY <1>0, <1>1
         DEF OL!DllGetClassObject, OL!Runs, OL!Goes, OL!counts, OL!objects, OLTypes,
             OLThreads, OLAt
    <2> QED
      BY <1>0, <2>1, <2>2, <2>3, OLUntouched
  <1>2. ASSUME NEW t \in ol_Threads, OL!FactoryQueryInterface(t)
       PROVE  OLObject(o)'
    <2>1. UNCHANGED <<ol_life, ol_m_cRef, ol_deleted, ol_refs, ol_on>>
      BY <1>2 DEF OL!FactoryQueryInterface, OL!Runs, OL!Goes, OL!counts, OL!objects
    <2>2. \A u \in ol_Threads : OLAt(u, o) => ol_pc'[u] = ol_pc[u] /\ ol_local'[u] = ol_local[u]
      BY <1>0, <1>2
         DEF OL!FactoryQueryInterface, OL!Runs, OL!Goes, OL!counts, OL!objects, OLTypes,
             OLThreads, OLAt
    <2>3. \A u \in ol_Threads : OLAt(u, o)' => OLAt(u, o)
      BY <1>0, <1>2
         DEF OL!FactoryQueryInterface, OL!Runs, OL!Goes, OL!counts, OL!objects, OLTypes,
             OLThreads, OLAt
    <2> QED
      BY <1>0, <2>1, <2>2, <2>3, OLUntouched
  <1>18. ASSUME NEW t \in ol_Threads, OL!FactoryReferenced(t)
       PROVE  OLObject(o)'
    <2>1. UNCHANGED <<ol_life, ol_m_cRef, ol_deleted, ol_refs, ol_on>>
      BY <1>18 DEF OL!FactoryReferenced, OL!Runs, OL!Goes, OL!counts, OL!objects
    <2>2. \A u \in ol_Threads : OLAt(u, o) => ol_pc'[u] = ol_pc[u] /\ ol_local'[u] = ol_local[u]
      BY <1>0, <1>18
         DEF OL!FactoryReferenced, OL!Runs, OL!Goes, OL!counts, OL!objects, OLTypes,
             OLThreads, OLAt
    <2>3. \A u \in ol_Threads : OLAt(u, o)' => OLAt(u, o)
      BY <1>0, <1>18
         DEF OL!FactoryReferenced, OL!Runs, OL!Goes, OL!counts, OL!objects, OLTypes,
             OLThreads, OLAt
    <2> QED
      BY <1>0, <2>1, <2>2, <2>3, OLUntouched
  <1>3. ASSUME NEW t \in ol_Threads, OL!FactoryRelease(t)
       PROVE  OLObject(o)'
    <2>1. UNCHANGED <<ol_life, ol_m_cRef, ol_deleted, ol_refs, ol_on>>
      BY <1>3 DEF OL!FactoryRelease, OL!Runs, OL!Goes, OL!counts, OL!objects
    <2>2. \A u \in ol_Threads : OLAt(u, o) => ol_pc'[u] = ol_pc[u] /\ ol_local'[u] = ol_local[u]
      BY <1>0, <1>3
         DEF OL!FactoryRelease, OL!Runs, OL!Goes, OL!counts, OL!objects, OLTypes,
             OLThreads, OLAt
    <2>3. \A u \in ol_Threads : OLAt(u, o)' => OLAt(u, o)
      BY <1>0, <1>3
         DEF OL!FactoryRelease, OL!Runs, OL!Goes, OL!counts, OL!objects, OLTypes,
             OLThreads, OLAt
    <2> QED
      BY <1>0, <2>1, <2>2, <2>3, OLUntouched
  <1>4. ASSUME NEW t \in ol_Threads, OL!LockServer(t)
       PROVE  OLObject(o)'
    <2>1. UNCHANGED <<ol_life, ol_m_cRef, ol_deleted, ol_refs, ol_on>>
      BY <1>4 DEF OL!LockServer, OL!Runs, OL!Goes, OL!counts, OL!objects
    <2>2. \A u \in ol_Threads : OLAt(u, o) => ol_pc'[u] = ol_pc[u] /\ ol_local'[u] = ol_local[u]
      BY <1>0, <1>4
         DEF OL!LockServer, OL!Runs, OL!Goes, OL!counts, OL!objects, OLTypes, OLThreads,
             OLAt
    <2>3. \A u \in ol_Threads : OLAt(u, o)' => OLAt(u, o)
      BY <1>0, <1>4
         DEF OL!LockServer, OL!Runs, OL!Goes, OL!counts, OL!objects, OLTypes, OLThreads,
             OLAt
    <2> QED
      BY <1>0, <2>1, <2>2, <2>3, OLUntouched
  <1>5. ASSUME NEW t \in ol_Threads, OL!Locked(t)
       PROVE  OLObject(o)'
    <2>1. UNCHANGED <<ol_life, ol_m_cRef, ol_deleted, ol_refs, ol_on>>
      BY <1>5 DEF OL!Locked, OL!Runs, OL!Goes, OL!counts, OL!objects
    <2>2. \A u \in ol_Threads : OLAt(u, o) => ol_pc'[u] = ol_pc[u] /\ ol_local'[u] = ol_local[u]
      BY <1>0, <1>5
         DEF OL!Locked, OL!Runs, OL!Goes, OL!counts, OL!objects, OLTypes, OLThreads,
             OLAt
    <2>3. \A u \in ol_Threads : OLAt(u, o)' => OLAt(u, o)
      BY <1>0, <1>5
         DEF OL!Locked, OL!Runs, OL!Goes, OL!counts, OL!objects, OLTypes, OLThreads,
             OLAt
    <2> QED
      BY <1>0, <2>1, <2>2, <2>3, OLUntouched
  <1>6. ASSUME NEW t \in ol_Threads, OL!CreateInstance(t)
       PROVE  OLObject(o)'
    <2>1. PICK p \in ol_Objects : /\ ol_life[p] = "unmade" /\ ol_life' = [ol_life EXCEPT ![p] = "alive"]
                                 /\ ol_on' = [ol_on EXCEPT ![t] = p]
                                 /\ ol_pc' = [ol_pc EXCEPT ![t] = ol_pc'[t]]
                                 /\ ol_pc'[t] \in {"created", "failed"}
      BY <1>0, <1>6 DEF OL!CreateInstance, OL!Goes, OLTypes, OLThreads
    <2>2. UNCHANGED <<ol_m_cRef, ol_deleted, ol_refs, ol_local>> /\ ol_pc[t] = "idle"
      BY <1>6 DEF OL!CreateInstance, OL!Runs
    <2>3. CASE o = p
      <3>1. ol_m_cRef[o] = 0 /\ ol_deleted[o] = 0
        BY <1>0, <2>1, <2>3 DEF OLObject, OLLives
      <3>2. OLAlone(t, o)
        BY <1>0, <2>1, <2>3 DEF OLObject, OLLives, OLCalls, OLAlone, OLTypes, OLRefs
      <3>3. OLAt(t, o)'
            /\ ol_pc'[t] \notin {"release", "zero", "query", "innerDone", "destructor", "destructorRelease"}
        BY <1>0, <2>1, <2>3 DEF OLAt, OLTypes, OLThreads
      <3>4. /\ \A u \in ol_Threads : u # t => ol_on'[u] = ol_on[u] /\ ol_pc'[u] = ol_pc[u]
            /\ ol_life'[o] = "alive"
        BY <1>0, <2>1, <2>3 DEF OLTypes, OLThreads, OLObjects
      <3> QED
        BY <1>0, <2>2, <3>1, <3>2, <3>3, <3>4, OLSingleStep
    <2>4. CASE o # p
      <3>1. ol_life'[o] = ol_life[o]
        BY <1>0, <2>1, <2>4 DEF OLTypes, OLObjects
      <3>2. \A u \in ol_Threads : OLAt(u, o) => ol_on'[u] = ol_on[u] /\ ol_pc'[u] = ol_pc[u]
        BY <1>0, <2>1, <2>2, <2>4 DEF OLTypes, OLThreads, OLAt
      <3>3. \A u \in ol_Threads : OLAt(u, o)' => OLAt(u, o)
        BY <1>0, <2>1, <2>2, <2>4 DEF OLTypes, OLThreads, OLAt
      <3> QED
        BY <1>0, <2>2, <3>1, <3>2, <3>3, OLUntouched
    <2> QED
      BY <2>3, <2>4
  <1>7. ASSUME NEW t \in ol_Threads, OL!ConstructionFailed(t)
       PROVE  OLObject(o)'
    <2>a. ol_on[t] \in ol_Objects /\ OLAt(t, ol_on[t]) /\ OLObject(ol_on[t])
      BY <1>0, <1>7 DEF OL!ConstructionFailed, OL!Runs, OLInv, OLTypes, OLThreads, OLAt
    <2>b. CASE o # ol_on[t]
      <3>1. ol_life'[o] = ol_life[o] /\ ol_m_cRef'[o] = ol_m_cRef[o]
            /\ ol_deleted'[o] = ol_deleted[o]
        BY <1>0, <2>a, <2>b, <1>7
           DEF OL!ConstructionFailed, OL!Runs, OL!Goes, OL!counts, OL!objects, OLTypes,
               OLObjects
      <3>2. \A u \in ol_Threads : ol_refs'[u][o] = ol_refs[u][o]
        BY <1>0, <2>a, <2>b, <1>7
           DEF OL!ConstructionFailed, OL!Runs, OL!Goes, OL!counts, OL!objects, OLTypes,
               OLRefs
      <3>3. \A u \in ol_Threads : OLAt(u, o) => ol_on'[u] = ol_on[u] /\ ol_pc'[u] = ol_pc[u] /\ ol_local'[u] = ol_local[u]
        BY <1>0, <2>a, <2>b, <1>7
           DEF OL!ConstructionFailed, OL!Runs, OL!Goes, OL!counts, OL!objects, OLTypes,
               OLThreads, OLAt
      <3>4. \A u \in ol_Threads : OLAt(u, o)' => OLAt(u, o)
        BY <1>0, <2>a, <2>b, OLAssumption, <1>7
           DEF OL!ConstructionFailed, OL!Runs, OL!Goes, OL!counts, OL!objects, OLTypes,
               OLThreads, OLAt
      <3> QED
        BY <1>0, <3>1, <3>2, <3>3, <3>4, OLUntouched
    <2>c. CASE o = ol_on[t]
      <3>1. OLAlone(t, o)
        BY <1>0, <2>a, <2>c, <1>7, OLSingle DEF OL!ConstructionFailed, OL!Runs
      <3>2. \A u \in ol_Threads : ol_refs'[u][o] = ol_refs[u][o]
        BY <1>7 DEF OL!ConstructionFailed
      <3>3. \A u \in ol_Threads : u # t => ol_on'[u] = ol_on[u] /\ ol_pc'[u] = ol_pc[u]
        BY <1>0, <1>7
           DEF OL!ConstructionFailed, OL!Runs, OL!Goes, OL!counts, OL!objects, OLTypes,
               OLThreads
      <3>4. OLAt(t, o)' /\ ol_pc'[t] # "release"
        BY <1>0, <2>a, <2>c, <1>7
           DEF OL!ConstructionFailed, OL!Runs, OL!Goes, OL!counts, OL!objects, OLTypes,
               OLThreads, OLAt, OLObject, OLCalls
      <3>5. \/ /\ ol_pc'[t] \in {"destructor", "destructorRelease"}
               /\ ol_life'[o] = "dying" /\ ol_deleted'[o] = 1
            \/ /\ ol_pc'[t] \notin {"destructor", "destructorRelease"}
               /\ ol_life'[o] = "alive" /\ ol_deleted'[o] = 0
        BY <1>0, <2>a, <2>c, <1>7
           DEF OL!ConstructionFailed, OL!Runs, OL!Goes, OL!counts, OL!objects, OLTypes,
               OLThreads, OLObjects, OLObject, OLCalls, OLLives
      <3>6. /\ ol_pc'[t] \notin {"created", "failed", "zero", "innerDone"}
            /\ ol_pc'[t] = "query" => ol_m_cRef'[o] = 1
            /\ ol_pc'[t] = "destructorRelease" => ol_m_cRef'[o] = 2
            /\ ol_pc'[t] = "destructor" /\ ol_local'[t] = 0 => ol_m_cRef'[o] = 1
        BY <1>0, <2>a, <2>c, <1>7
           DEF OL!ConstructionFailed, OL!Runs, OL!Goes, OL!counts, OL!objects, OLTypes,
               OLThreads, OLObjects, OLObject, OLCalls
      <3> QED
        BY <1>0, <2>c, <3>1, <3>2, <3>3, <3>4, <3>5, <3>6, <2>a, OLSingleStep
    <2> QED
      BY <2>b, <2>c
  <1>8. ASSUME NEW t \in ol_Threads, OL!CreateAddRef(t)
       PROVE  OLObject(o)'
    <2>a. ol_on[t] \in ol_Objects /\ OLAt(t, ol_on[t]) /\ OLObject(ol_on[t])
      BY <1>0, <1>8 DEF OL!CreateAddRef, OL!Runs, OLInv, OLTypes, OLThreads, OLAt
    <2>b. CASE o # ol_on[t]
      <3>1. ol_life'[o] = ol_life[o] /\ ol_m_cRef'[o] = ol_m_cRef[o]
            /\ ol_deleted'[o] = ol_deleted[o]
        BY <1>0, <2>a, <2>b, <1>8
           DEF OL!CreateAddRef, OL!Runs, OL!Goes, OL!counts, OL!objects, OLTypes,
               OLObjects
      <3>2. \A u \in ol_Threads : ol_refs'[u][o] = ol_refs[u][o]
        BY <1>0, <2>a, <2>b, <1>8
           DEF OL!CreateAddRef, OL!Runs, OL!Goes, OL!counts, OL!objects, OLTypes,
               OLRefs
      <3>3. \A u \in ol_Threads : OLAt(u, o) => ol_on'[u] = ol_on[u] /\ ol_pc'[u] = ol_pc[u] /\ ol_local'[u] = ol_local[u]
        BY <1>0, <2>a, <2>b, <1>8
           DEF OL!CreateAddRef, OL!Runs, OL!Goes, OL!counts, OL!objects, OLTypes,
               OLThreads, OLAt
      <3>4. \A u \in ol_Threads : OLAt(u, o)' => OLAt(u, o)
        BY <1>0, <2>a, <2>b, OLAssumption, <1>8
           DEF OL!CreateAddRef, OL!Runs, OL!Goes, OL!counts, OL!objects, OLTypes,
               OLThreads, OLAt
      <3> QED
        BY <1>0, <3>1, <3>2, <3>3, <3>4, OLUntouched
    <2>c. CASE o = ol_on[t]
      <3>1. OLAlone(t, o)
        BY <1>0, <2>a, <2>c, <1>8, OLSingle DEF OL!CreateAddRef, OL!Runs
      <3>2. \A u \in ol_Threads : ol_refs'[u][o] = ol_refs[u][o]
        BY <1>8 DEF OL!CreateAddRef
      <3>3. \A u \in ol_Threads : u # t => ol_on'[u] = ol_on[u] /\ ol_pc'[u] = ol_pc[u]
        BY <1>0, <1>8
           DEF OL!CreateAddRef, OL!Runs, OL!Goes, OL!counts, OL!objects, OLTypes,
               OLThreads
      <3>4. OLAt(t, o)' /\ ol_pc'[t] # "release"
        BY <1>0, <2>a, <2>c, <1>8
           DEF OL!CreateAddRef, OL!Runs, OL!Goes, OL!counts, OL!objects, OLTypes,
               OLThreads, OLAt, OLObject, OLCalls
      <3>5. \/ /\ ol_pc'[t] \in {"destructor", "destructorRelease"}
               /\ ol_life'[o] = "dying" /\ ol_deleted'[o] = 1
            \/ /\ ol_pc'[t] \notin {"destructor", "destructorRelease"}
               /\ ol_life'[o] = "alive" /\ ol_deleted'[o] = 0
        BY <1>0, <2>a, <2>c, <1>8
           DEF OL!CreateAddRef, OL!Runs, OL!Goes, OL!counts, OL!objects, OLTypes,
               OLThreads, OLObjects, OLObject, OLCalls, OLLives
      <3>6. /\ ol_pc'[t] \notin {"created", "failed", "zero", "innerDone"}
            /\ ol_pc'[t] = "query" => ol_m_cRef'[o] = 1
            /\ ol_pc'[t] = "destructorRelease" => ol_m_cRef'[o] = 2
            /\ ol_pc'[t] = "destructor" /\ ol_local'[t] = 0 => ol_m_cRef'[o] = 1
        BY <1>0, <2>a, <2>c, <1>8
           DEF OL!CreateAddRef, OL!Runs, OL!Goes, OL!counts, OL!objects, OLTypes,
               OLThreads, OLObjects, OLObject, OLCalls
      <3> QED
        BY <1>0, <2>c, <3>1, <3>2, <3>3, <3>4, <3>5, <3>6, <2>a, OLSingleStep
    <2> QED
      BY <2>b, <2>c
  <1>9. ASSUME NEW t \in ol_Threads, OL!QueryInterface(t)
       PROVE  OLObject(o)'
    <2>a. ol_on[t] \in ol_Objects /\ OLAt(t, ol_on[t]) /\ OLObject(ol_on[t])
      BY <1>0, <1>9 DEF OL!QueryInterface, OL!Runs, OLInv, OLTypes, OLThreads, OLAt
    <2>b. CASE o # ol_on[t]
      <3>1. ol_life'[o] = ol_life[o] /\ ol_m_cRef'[o] = ol_m_cRef[o]
            /\ ol_deleted'[o] = ol_deleted[o]
        BY <1>0, <2>a, <2>b, <1>9
           DEF OL!QueryInterface, OL!Runs, OL!Goes, OL!counts, OL!objects, OLTypes,
               OLObjects
      <3>2. \A u \in ol_Threads : ol_refs'[u][o] = ol_refs[u][o]
        BY <1>0, <2>a, <2>b, <1>9
           DEF OL!QueryInterface, OL!Runs, OL!Goes, OL!counts, OL!objects, OLTypes,
               OLRefs
      <3>3. \A u \in ol_Threads : OLAt(u, o) => ol_on'[u] = ol_on[u] /\ ol_pc'[u] = ol_pc[u] /\ ol_local'[u] = ol_local[u]
        BY <1>0, <2>a, <2>b, <1>9
           DEF OL!QueryInterface, OL!Runs, OL!Goes, OL!counts, OL!objects, OLTypes,
               OLThreads, OLAt
      <3>4. \A u \in ol_Threads : OLAt(u, o)' => OLAt(u, o)
        BY <1>0, <2>a, <2>b, OLAssumption, <1>9
           DEF OL!QueryInterface, OL!Runs, OL!Goes, OL!counts, OL!objects, OLTypes,
               OLThreads, OLAt
      <3> QED
        BY <1>0, <3>1, <3>2, <3>3, <3>4, OLUntouched
    <2>c. CASE o = ol_on[t]
      <3>1. OLAlone(t, o) /\ ol_life[o] = "alive" /\ ol_deleted[o] = 0 /\ ol_m_cRef[o] = 1
        BY <1>0, <2>a, <2>c, <1>9, OLSingle
           DEF OL!QueryInterface, OL!Runs, OLObject, OLCalls, OLLives
      <3>2. \A u \in ol_Threads : u # t => ol_on'[u] = ol_on[u] /\ ol_pc'[u] = ol_pc[u]
        BY <1>0, <1>9
           DEF OL!QueryInterface, OL!Runs, OL!Goes, OL!counts, OL!objects, OLTypes,
               OLThreads
      <3>3. UNCHANGED <<ol_life, ol_deleted, ol_on, ol_local>>
        BY <1>9 DEF OL!QueryInterface
      <3>4. CASE /\ ol_m_cRef' = [ol_m_cRef EXCEPT ![ol_on[t]] = @ + 1] /\ UNCHANGED ol_refs
                 /\ ol_pc' = [ol_pc EXCEPT ![t] = "innerDone"]
        <4>1. ol_m_cRef'[o] = 2 /\ ol_pc'[t] = "innerDone" /\ OLAt(t, o)'
          BY <1>0, <2>c, <2>a, <3>1, <3>3, <3>4 DEF OLTypes, OLObjects, OLThreads, OLAt
        <4> QED
          BY <1>0, <3>1, <3>2, <3>3, <3>4, <4>1, OLSingleStep
      <3>5. CASE UNCHANGED <<ol_m_cRef, ol_refs>>
                 /\ ol_pc' = [ol_pc EXCEPT ![t] = "release"]
        <4>1. OLTokens(o)' = {<<t, 0>>}
          <5>1. <<t, 0>> \in OLTokens(o)'
            BY <1>0, <2>c, <3>3, <3>5, OLAssumption DEF OLTokens, OLTypes, OLThreads
          <5>2. ASSUME NEW x \in OLTokens(o)'
                PROVE  x = <<t, 0>>
            BY <1>0, <2>c, <3>1, <3>2, <3>3, <3>5
               DEF OLTokens, OLAlone, OLAt, OLTypes, OLThreads
          <5> QED
            BY <5>1, <5>2
        <4>2. Cardinality(OLTokens(o)') = 1
          BY <4>1, FS_Singleton
        <4>3. \A u \in ol_Threads : OLAt(u, o)' => ol_pc'[u] = "release"
          BY <1>0, <3>1, <3>2, <3>3, <3>5 DEF OLAlone, OLAt, OLTypes, OLThreads
        <4> QED
          BY <1>0, <3>1, <3>3, <3>5, <4>2, <4>3, OLReleaseStep
      <3>6. CASE /\ ol_m_cRef' = [ol_m_cRef EXCEPT ![ol_on[t]] = @ + 1]
                 /\ ol_refs' = [ol_refs EXCEPT ![t][ol_on[t]] = @ + 1]
                 /\ ol_pc' = [ol_pc EXCEPT ![t] = "release"]
        <4>1. /\ ol_refs'[t][o] = 1 /\ \A u \in ol_Threads : u # t => ol_refs'[u][o] = 0
              /\ ol_m_cRef'[o] = 2 /\ ol_pc'[t] = "release"
          BY <1>0, <2>c, <2>a, <3>1, <3>6
             DEF OLTypes, OLRefs, OLObjects, OLThreads, OLAlone
        <4>2. OLTokens(o)' = {<<t, 0>>} \cup {<<t, 1>>}
          <5>1. <<t, 0>> \in OLTokens(o)' /\ <<t, 1>> \in OLTokens(o)'
            BY <2>c, <3>3, <4>1, OLAssumption DEF OLTokens
          <5>2. ASSUME NEW x \in OLTokens(o)'
                PROVE  x = <<t, 0>> \/ x = <<t, 1>>
            BY <2>c, <3>1, <3>2, <3>3, <4>1 DEF OLTokens, OLAlone, OLAt
          <5> QED
            BY <5>1, <5>2
        <4>3. Cardinality(OLTokens(o)') = 2
          <5>1. IsFiniteSet({<<t, 0>>}) /\ Cardinality({<<t, 0>>}) = 1
            BY FS_Singleton
          <5>2. <<t, 1>> \notin {<<t, 0>>}
            OBVIOUS
          <5>3. Cardinality({<<t, 0>>} \cup {<<t, 1>>}) = Cardinality({<<t, 0>>}) + 1
            BY <5>1, <5>2, FS_AddElement
          <5> QED
            BY <4>2, <5>1, <5>3
        <4>4. \A u \in ol_Threads : OLAt(u, o)' => ol_pc'[u] = "release"
          BY <1>0, <3>1, <3>2, <3>3, <4>1 DEF OLAlone, OLAt
        <4> QED
          BY <1>0, <3>1, <3>3, <4>1, <4>3, <4>4, OLReleaseStep
      <3> QED
        BY <3>4, <3>5, <3>6, <1>9 DEF OL!QueryInterface, OL!Goes
    <2> QED
      BY <2>b, <2>c
  <1>10. ASSUME NEW t \in ol_Threads, OL!AddRef(t)
       PROVE  OLObject(o)'
    <2>1. PICK p \in ol_Objects, u \in ol_Threads :
            /\ ol_refs[t][p] > 0 /\ ol_refs[u][p] < ol_RefsMax
            /\ ol_m_cRef' = [ol_m_cRef EXCEPT ![p] = @ + 1]
            /\ ol_refs' = [ol_refs EXCEPT ![u][p] = @ + 1]
      BY <1>10 DEF OL!AddRef
    <2>2. UNCHANGED <<ol_life, ol_deleted, ol_pc, ol_on, ol_local>>
      BY <1>10 DEF OL!AddRef
    <2>a. /\ \A v \in ol_Threads, q \in ol_Objects :
               ol_refs'[v][q] = IF v = u /\ q = p THEN ol_refs[v][q] + 1 ELSE ol_refs[v][q]
          /\ \A q \in ol_Objects : ol_m_cRef'[q] = IF q = p THEN ol_m_cRef[q] + 1 ELSE ol_m_cRef[q]
      BY <1>0, <2>1 DEF OLTypes, OLRefs, OLObjects
    <2>3. CASE o = p
      <3>1. /\ ol_life[o] = "alive" /\ ol_deleted[o] = 0
            /\ \A v \in ol_Threads : OLAt(v, o) => ol_pc[v] = "release"
            /\ ol_m_cRef[o] = Cardinality(OLTokens(o)) /\ ol_m_cRef[o] > 0
        BY <1>0, <2>1, <2>3, OLTogether
      <3>2. OLTokens(o)' = OLTokens(o) \cup {<<u, ol_refs[u][o] + 1>>}
            /\ <<u, ol_refs[u][o] + 1>> \notin OLTokens(o)
        <4>1. ol_refs[u][o] \in Nat /\ ol_refs[u][o] + 1 \in 0..ol_RefsMax
              /\ ol_RefsMax \in Nat
          BY <1>0, <2>1, <2>3, OLAssumption DEF OLTypes, OLRefs
        <4>2. ASSUME NEW v \in ol_Threads, NEW k \in 0..ol_RefsMax
              PROVE  <<v, k>> \in OLTokens(o)' <=> <<v, k>> \in OLTokens(o) \/ <<v, k>> = <<u, ol_refs[u][o] + 1>>
          BY <1>0, <2>2, <2>3, <2>a, <4>1 DEF OLTokens, OLTypes, OLRefs
        <4>3. OLTokens(o) \subseteq ol_Threads \X (0..ol_RefsMax)
              /\ OLTokens(o)' \subseteq ol_Threads \X (0..ol_RefsMax)
          BY DEF OLTokens
        <4>4. <<u, ol_refs[u][o] + 1>> \notin OLTokens(o)
          BY <4>1 DEF OLTokens
        <4> QED
          BY <4>1, <4>2, <4>3, <4>4
      <3>3. Cardinality(OLTokens(o)') = ol_m_cRef[o] + 1
        BY <3>1, <3>2, OLFinite, FS_AddElement
      <3> QED
        BY <1>0, <2>2, <2>3, <2>a, <3>1, <3>3, OLReleaseStep
           DEF OLAt, OLTypes, OLObjects
    <2>4. CASE o # p
      <3>1. ol_m_cRef'[o] = ol_m_cRef[o]
            /\ \A v \in ol_Threads : ol_refs'[v][o] = ol_refs[v][o]
        BY <2>2, <2>4, <2>a
      <3>2. \A v \in ol_Threads : OLAt(v, o) => ol_on'[v] = ol_on[v] /\ ol_pc'[v] = ol_pc[v]
        BY <2>2, <2>4, <2>a DEF OLAt
      <3>3. \A v \in ol_Threads : OLAt(v, o)' => OLAt(v, o)
        BY <2>2, <2>4, <2>a DEF OLAt
      <3> QED
        BY <1>0, <2>2, <3>1, <3>2, <3>3, OLUntouched
    <2> QED
      BY <2>3, <2>4
  <1>11. ASSUME NEW t \in ol_Threads, OL!ReleaseCall(t)
       PROVE  OLObject(o)'
    <2>1. PICK p \in ol_Objects : /\ ol_refs[t][p] > 0
                                 /\ ol_refs' = [ol_refs EXCEPT ![t][p] = @ - 1]
                                 /\ ol_on' = [ol_on EXCEPT ![t] = p]
      BY <1>11 DEF OL!ReleaseCall
    <2>2. UNCHANGED <<ol_life, ol_deleted, ol_m_cRef, ol_local>>
          /\ ol_pc' = [ol_pc EXCEPT ![t] = "release"] /\ ol_pc[t] = "idle"
      BY <1>11 DEF OL!ReleaseCall, OL!Goes, OL!Runs, OL!objects
    <2>a. /\ \A v \in ol_Threads, q \in ol_Objects :
               ol_refs'[v][q] = IF v = t /\ q = p THEN ol_refs[v][q] - 1 ELSE ol_refs[v][q]
          /\ \A v \in ol_Threads : ol_on'[v] = IF v = t THEN p ELSE ol_on[v]
          /\ \A v \in ol_Threads : ol_pc'[v] = IF v = t THEN "release" ELSE ol_pc[v]
      BY <1>0, <2>1, <2>2 DEF OLTypes, OLRefs, OLThreads
    <2>3. CASE o = p
      <3>1. /\ ol_life[o] = "alive" /\ ol_deleted[o] = 0
            /\ \A v \in ol_Threads : OLAt(v, o) => ol_pc[v] = "release"
            /\ ol_m_cRef[o] = Cardinality(OLTokens(o)) /\ ol_m_cRef[o] > 0
        BY <1>0, <2>1, <2>3, OLTogether
      <3>2. /\ OLTokens(o)' = (OLTokens(o) \ {<<t, ol_refs[t][o]>>}) \cup {<<t, 0>>}
            /\ <<t, ol_refs[t][o]>> \in OLTokens(o) /\ <<t, 0>> \notin OLTokens(o)
        <4>1. ol_refs[t][o] \in 1..ol_RefsMax /\ ol_RefsMax \in Nat
          BY <1>0, <2>1, <2>3, OLAssumption DEF OLTypes, OLRefs
        <4>2. ASSUME NEW v \in ol_Threads, NEW k \in 0..ol_RefsMax
              PROVE  <<v, k>> \in OLTokens(o)' <=>
                       \/ <<v, k>> \in OLTokens(o) /\ <<v, k>> # <<t, ol_refs[t][o]>>
                       \/ <<v, k>> = <<t, 0>>
          <5>1. CASE k = 0
            <6>1. <<v, k>> \in OLTokens(o)' <=> v = t \/ (ol_on[v] = o /\ ol_pc[v] = "release")
              BY <2>3, <2>a, <5>1 DEF OLTokens
            <6>2. <<v, k>> \in OLTokens(o) <=> ol_on[v] = o /\ ol_pc[v] = "release"
              BY <5>1 DEF OLTokens
            <6> QED
              BY <4>1, <5>1, <6>1, <6>2
          <5>2. CASE k # 0
            <6>1. <<v, k>> \in OLTokens(o)' <=> k <= ol_refs'[v][o]
              BY <5>2 DEF OLTokens
            <6>2. <<v, k>> \in OLTokens(o) <=> k <= ol_refs[v][o]
              BY <5>2 DEF OLTokens
            <6>3. k \in Nat /\ ol_refs[v][o] \in Nat
              BY <1>0 DEF OLTypes, OLRefs
            <6> QED
              BY <2>3, <2>a, <4>1, <5>2, <6>1, <6>2, <6>3
          <5> QED
            BY <5>1, <5>2
        <4>3. OLTokens(o) \subseteq ol_Threads \X (0..ol_RefsMax)
              /\ OLTokens(o)' \subseteq ol_Threads \X (0..ol_RefsMax)
          BY DEF OLTokens
        <4>4. <<t, ol_refs[t][o]>> \in OLTokens(o) /\ <<t, 0>> \notin OLTokens(o)
          BY <2>2, <4>1 DEF OLTokens
        <4> QED
          BY <4>1, <4>2, <4>3, <4>4
      <3>3. Cardinality(OLTokens(o)') = ol_m_cRef[o]
        <4> DEFINE S == OLTokens(o) \ {<<t, ol_refs[t][o]>>}
        <4>1. IsFiniteSet(S) /\ Cardinality(S) = Cardinality(OLTokens(o)) - 1
          BY <3>2, OLFinite, FS_RemoveElement
        <4>2. <<t, 0>> \notin S
          BY <3>2
        <4>3. Cardinality(S \cup {<<t, 0>>}) = Cardinality(S) + 1
          BY <4>1, <4>2, FS_AddElement
        <4>4. ol_m_cRef[o] \in Int
          BY <1>0 DEF OLTypes, OLObjects
        <4> QED
          BY <3>1, <3>2, <4>1, <4>3, <4>4
      <3> QED
        BY <1>0, <2>2, <2>3, <2>a, <3>1, <3>3, OLReleaseStep DEF OLAt
    <2>4. CASE o # p
      <3>1. ol_m_cRef'[o] = ol_m_cRef[o]
            /\ \A v \in ol_Threads : ol_refs'[v][o] = ol_refs[v][o]
        BY <2>2, <2>4, <2>a
      <3>2. \A v \in ol_Threads : OLAt(v, o) => ol_on'[v] = ol_on[v] /\ ol_pc'[v] = ol_pc[v]
        BY <2>2, <2>4, <2>a DEF OLAt
      <3>3. \A v \in ol_Threads : OLAt(v, o)' => OLAt(v, o)
        BY <2>2, <2>4, <2>a DEF OLAt
      <3> QED
        BY <1>0, <2>2, <3>1, <3>2, <3>3, OLUntouched
    <2> QED
      BY <2>3, <2>4
  <1>12. ASSUME NEW t \in ol_Threads, OL!Decrement(t)
       PROVE  OLObject(o)'
    <2>a. ol_on[t] \in ol_Objects /\ OLAt(t, ol_on[t]) /\ OLObject(ol_on[t])
      BY <1>0, <1>12 DEF OL!Decrement, OL!Runs, OLInv, OLTypes, OLThreads, OLAt
    <2>b. CASE o # ol_on[t]
      <3>1. ol_life'[o] = ol_life[o] /\ ol_m_cRef'[o] = ol_m_cRef[o]
            /\ ol_deleted'[o] = ol_deleted[o]
        BY <1>0, <2>a, <2>b, <1>12
           DEF OL!Decrement, OL!Runs, OL!Goes, OL!counts, OL!objects, OLTypes,
               OLObjects
      <3>2. \A u \in ol_Threads : ol_refs'[u][o] = ol_refs[u][o]
        BY <1>0, <2>a, <2>b, <1>12
           DEF OL!Decrement, OL!Runs, OL!Goes, OL!counts, OL!objects, OLTypes, OLRefs
      <3>3. \A u \in ol_Threads : OLAt(u, o) => ol_on'[u] = ol_on[u] /\ ol_pc'[u] = ol_pc[u] /\ ol_local'[u] = ol_local[u]
        BY <1>0, <2>a, <2>b, <1>12
           DEF OL!Decrement, OL!Runs, OL!Goes, OL!counts, OL!objects, OLTypes,
               OLThreads, OLAt
      <3>4. \A u \in ol_Threads : OLAt(u, o)' => OLAt(u, o)
        BY <1>0, <2>a, <2>b, OLAssumption, <1>12
           DEF OL!Decrement, OL!Runs, OL!Goes, OL!counts, OL!objects, OLTypes,
               OLThreads, OLAt
      <3> QED
        BY <1>0, <3>1, <3>2, <3>3, <3>4, OLUntouched
    <2>c. CASE o = ol_on[t]
      <3>1. UNCHANGED <<ol_life, ol_deleted, ol_on, ol_local, ol_refs>>
        BY <1>12 DEF OL!Decrement
      <3>2. \A u \in ol_Threads : u # t => ol_on'[u] = ol_on[u] /\ ol_pc'[u] = ol_pc[u]
        BY <1>0, <1>12
           DEF OL!Decrement, OL!Runs, OL!Goes, OL!counts, OL!objects, OLTypes,
               OLThreads
      <3>3. ol_m_cRef'[o] = ol_m_cRef[o] - 1 /\ ol_m_cRef[o] \in Int
        BY <1>0, <2>a, <2>c, <1>12 DEF OL!Decrement, OLTypes, OLObjects
      <3>4. CASE ol_pc[t] = "innerDone"
        <4>1. OLAlone(t, o) /\ ol_life[o] = "alive" /\ ol_deleted[o] = 0 /\ ol_m_cRef[o] = 2
          BY <1>0, <2>a, <2>c, <3>4, OLSingle DEF OLObject, OLCalls, OLLives
        <4>2. ol_pc'[t] = "query" /\ OLAt(t, o)'
          BY <1>0, <2>c, <2>a, <3>1, <3>4, <4>1, <1>12
             DEF OL!Decrement, OL!Goes, OLTypes, OLThreads, OLAt
        <4> QED
          BY <1>0, <3>1, <3>2, <3>3, <4>1, <4>2, OLSingleStep
      <3>5. CASE ol_pc[t] = "release"
        <4>1. /\ ol_life[o] = "alive" /\ ol_deleted[o] = 0
              /\ \A u \in ol_Threads : OLAt(u, o) => ol_pc[u] = "release"
              /\ ol_m_cRef[o] = Cardinality(OLTokens(o)) /\ ol_m_cRef[o] > 0
          BY <1>0, <2>a, <2>c, <3>5, OLTogether
        <4>2. ol_pc'[t] = (IF ol_m_cRef[o] = 1 THEN "zero" ELSE "idle")
          BY <1>0, <2>c, <3>5, <1>12 DEF OL!Decrement, OL!Goes, OLTypes, OLThreads
        <4>3. OLTokens(o)' = OLTokens(o) \ {<<t, 0>>} /\ <<t, 0>> \in OLTokens(o)
          <5>1. ASSUME NEW u \in ol_Threads
                PROVE  (ol_on'[u] = o /\ ol_pc'[u] = "release") <=> (u # t /\ ol_on[u] = o /\ ol_pc[u] = "release")
            BY <3>1, <3>2, <4>2
          <5>2. OLTokens(o)' = OLTokens(o) \ {<<t, 0>>}
            BY <3>1, <5>1 DEF OLTokens
          <5> QED
            BY <2>c, <3>5, <5>2, OLAssumption DEF OLTokens
        <4>4. Cardinality(OLTokens(o)') = ol_m_cRef[o] - 1
          BY <4>1, <4>3, OLFinite, FS_RemoveElement
        <4>5. CASE ol_m_cRef[o] = 1
          <5>1. OLTokens(o)' = {}
            BY <4>4, <4>5, OLFinite, FS_EmptySet
          <5>2. \A u \in ol_Threads : ol_refs[u][o] = 0
            <6> SUFFICES ASSUME NEW u \in ol_Threads, ol_refs[u][o] # 0
                         PROVE  FALSE
              OBVIOUS
            <6>1. ol_refs[u][o] \in 1..ol_RefsMax
              BY <1>0 DEF OLTypes, OLRefs
            <6>2. <<u, ol_refs[u][o]>> \in OLTokens(o)'
              BY <3>1, <6>1, OLAssumption DEF OLTokens
            <6> QED
              BY <5>1, <6>2
          <5>3. \A u \in ol_Threads : u # t => ~OLAt(u, o)
            <6> SUFFICES ASSUME NEW u \in ol_Threads, u # t, OLAt(u, o)
                         PROVE  FALSE
              OBVIOUS
            <6>1. <<u, 0>> \in OLTokens(o)'
              BY <3>1, <3>2, <4>1, OLAssumption DEF OLTokens, OLAt
            <6> QED
              BY <5>1, <6>1
          <5>4. OLAt(t, o)' /\ ol_pc'[t] = "zero"
            BY <2>c, <3>1, <4>2, <4>5 DEF OLAt
          <5>5. OLAlone(t, o)
            BY <5>2, <5>3 DEF OLAlone
          <5> QED
            BY <1>0, <3>1, <3>2, <3>3, <4>1, <4>5, <5>4, <5>5, OLSingleStep
        <4>6. CASE ol_m_cRef[o] # 1
          <5>1. \A u \in ol_Threads : OLAt(u, o)' => ol_pc'[u] = "release"
            BY <3>1, <3>2, <4>1, <4>2, <4>6 DEF OLAt
          <5> QED
            BY <1>0, <3>1, <3>3, <4>1, <4>4, <4>6, <5>1, OLReleaseStep
        <4> QED
          BY <4>5, <4>6
      <3> QED
        BY <3>4, <3>5, <1>12 DEF OL!Decrement, OL!Runs
    <2> QED
      BY <2>b, <2>c
  <1>13. ASSUME NEW t \in ol_Threads, OL!Delete(t)
       PROVE  OLObject(o)'
    <2>a. ol_on[t] \in ol_Objects /\ OLAt(t, ol_on[t]) /\ OLObject(ol_on[t])
      BY <1>0, <1>13 DEF OL!Delete, OL!Runs, OLInv, OLTypes, OLThreads, OLAt
    <2>b. CASE o # ol_on[t]
      <3>1. ol_life'[o] = ol_life[o] /\ ol_m_cRef'[o] = ol_m_cRef[o]
            /\ ol_deleted'[o] = ol_deleted[o]
        BY <1>0, <2>a, <2>b, <1>13
           DEF OL!Delete, OL!Runs, OL!Goes, OL!counts, OL!objects, OLTypes, OLObjects
      <3>2. \A u \in ol_Threads : ol_refs'[u][o] = ol_refs[u][o]
        BY <1>0, <2>a, <2>b, <1>13
           DEF OL!Delete, OL!Runs, OL!Goes, OL!counts, OL!objects, OLTypes, OLRefs
      <3>3. \A u \in ol_Threads : OLAt(u, o) => ol_on'[u] = ol_on[u] /\ ol_pc'[u] = ol_pc[u] /\ ol_local'[u] = ol_local[u]
        BY <1>0, <2>a, <2>b, <1>13
           DEF OL!Delete, OL!Runs, OL!Goes, OL!counts, OL!objects, OLTypes, OLThreads,
               OLAt
      <3>4. \A u \in ol_Threads : OLAt(u, o)' => OLAt(u, o)
        BY <1>0, <2>a, <2>b, OLAssumption, <1>13
           DEF OL!Delete, OL!Runs, OL!Goes, OL!counts, OL!objects, OLTypes, OLThreads,
               OLAt
      <3> QED
        BY <1>0, <3>1, <3>2, <3>3, <3>4, OLUntouched
    <2>c. CASE o = ol_on[t]
      <3>1. OLAlone(t, o)
        BY <1>0, <2>a, <2>c, <1>13, OLSingle DEF OL!Delete, OL!Runs
      <3>2. \A u \in ol_Threads : ol_refs'[u][o] = ol_refs[u][o]
        BY <1>13 DEF OL!Delete
      <3>3. \A u \in ol_Threads : u # t => ol_on'[u] = ol_on[u] /\ ol_pc'[u] = ol_pc[u]
        BY <1>0, <1>13
           DEF OL!Delete, OL!Runs, OL!Goes, OL!counts, OL!objects, OLTypes, OLThreads
      <3>4. OLAt(t, o)' /\ ol_pc'[t] # "release"
        BY <1>0, <2>a, <2>c, <1>13
           DEF OL!Delete, OL!Runs, OL!Goes, OL!counts, OL!objects, OLTypes, OLThreads,
               OLAt, OLObject, OLCalls
      <3>5. \/ /\ ol_pc'[t] \in {"destructor", "destructorRelease"}
               /\ ol_life'[o] = "dying" /\ ol_deleted'[o] = 1
            \/ /\ ol_pc'[t] \notin {"destructor", "destructorRelease"}
               /\ ol_life'[o] = "alive" /\ ol_deleted'[o] = 0
        BY <1>0, <2>a, <2>c, <1>13
           DEF OL!Delete, OL!Runs, OL!Goes, OL!counts, OL!objects, OLTypes, OLThreads,
               OLObjects, OLObject, OLCalls, OLLives
      <3>6. /\ ol_pc'[t] \notin {"created", "failed", "zero", "innerDone"}
            /\ ol_pc'[t] = "query" => ol_m_cRef'[o] = 1
            /\ ol_pc'[t] = "destructorRelease" => ol_m_cRef'[o] = 2
            /\ ol_pc'[t] = "destructor" /\ ol_local'[t] = 0 => ol_m_cRef'[o] = 1
        BY <1>0, <2>a, <2>c, <1>13
           DEF OL!Delete, OL!Runs, OL!Goes, OL!counts, OL!objects, OLTypes, OLThreads,
               OLObjects, OLObject, OLCalls
      <3> QED
        BY <1>0, <2>c, <3>1, <3>2, <3>3, <3>4, <3>5, <3>6, <2>a, OLSingleStep
    <2> QED
      BY <2>b, <2>c
  <1>14. ASSUME NEW t \in ol_Threads, OL!DestructorAddRef(t)
       PROVE  OLObject(o)'
    <2>a. ol_on[t] \in ol_Objects /\ OLAt(t, ol_on[t]) /\ OLObject(ol_on[t])
      BY <1>0, <1>14 DEF OL!DestructorAddRef, OL!Runs, OLInv, OLTypes, OLThreads, OLAt
    <2>b. CASE o # ol_on[t]
      <3>1. ol_life'[o] = ol_life[o] /\ ol_m_cRef'[o] = ol_m_cRef[o]
            /\ ol_deleted'[o] = ol_deleted[o]
        BY <1>0, <2>a, <2>b, <1>14
           DEF OL!DestructorAddRef, OL!Runs, OL!Goes, OL!counts, OL!objects, OLTypes,
               OLObjects
      <3>2. \A u \in ol_Threads : ol_refs'[u][o] = ol_refs[u][o]
        BY <1>0, <2>a, <2>b, <1>14
           DEF OL!DestructorAddRef, OL!Runs, OL!Goes, OL!counts, OL!objects, OLTypes,
               OLRefs
      <3>3. \A u \in ol_Threads : OLAt(u, o) => ol_on'[u] = ol_on[u] /\ ol_pc'[u] = ol_pc[u] /\ ol_local'[u] = ol_local[u]
        BY <1>0, <2>a, <2>b, <1>14
           DEF OL!DestructorAddRef, OL!Runs, OL!Goes, OL!counts, OL!objects, OLTypes,
               OLThreads, OLAt
      <3>4. \A u \in ol_Threads : OLAt(u, o)' => OLAt(u, o)
        BY <1>0, <2>a, <2>b, OLAssumption, <1>14
           DEF OL!DestructorAddRef, OL!Runs, OL!Goes, OL!counts, OL!objects, OLTypes,
               OLThreads, OLAt
      <3> QED
        BY <1>0, <3>1, <3>2, <3>3, <3>4, OLUntouched
    <2>c. CASE o = ol_on[t]
      <3>1. OLAlone(t, o)
        BY <1>0, <2>a, <2>c, <1>14, OLSingle DEF OL!DestructorAddRef, OL!Runs
      <3>2. \A u \in ol_Threads : ol_refs'[u][o] = ol_refs[u][o]
        BY <1>14 DEF OL!DestructorAddRef
      <3>3. \A u \in ol_Threads : u # t => ol_on'[u] = ol_on[u] /\ ol_pc'[u] = ol_pc[u]
        BY <1>0, <1>14
           DEF OL!DestructorAddRef, OL!Runs, OL!Goes, OL!counts, OL!objects, OLTypes,
               OLThreads
      <3>4. OLAt(t, o)' /\ ol_pc'[t] # "release"
        BY <1>0, <2>a, <2>c, <1>14
           DEF OL!DestructorAddRef, OL!Runs, OL!Goes, OL!counts, OL!objects, OLTypes,
               OLThreads, OLAt, OLObject, OLCalls
      <3>5. \/ /\ ol_pc'[t] \in {"destructor", "destructorRelease"}
               /\ ol_life'[o] = "dying" /\ ol_deleted'[o] = 1
            \/ /\ ol_pc'[t] \notin {"destructor", "destructorRelease"}
               /\ ol_life'[o] = "alive" /\ ol_deleted'[o] = 0
        BY <1>0, <2>a, <2>c, <1>14
           DEF OL!DestructorAddRef, OL!Runs, OL!Goes, OL!counts, OL!objects, OLTypes,
               OLThreads, OLObjects, OLObject, OLCalls, OLLives
      <3>6. /\ ol_pc'[t] \notin {"created", "failed", "zero", "innerDone"}
            /\ ol_pc'[t] = "query" => ol_m_cRef'[o] = 1
            /\ ol_pc'[t] = "destructorRelease" => ol_m_cRef'[o] = 2
            /\ ol_pc'[t] = "destructor" /\ ol_local'[t] = 0 => ol_m_cRef'[o] = 1
        BY <1>0, <2>a, <2>c, <1>14
           DEF OL!DestructorAddRef, OL!Runs, OL!Goes, OL!counts, OL!objects, OLTypes,
               OLThreads, OLObjects, OLObject, OLCalls
      <3> QED
        BY <1>0, <2>c, <3>1, <3>2, <3>3, <3>4, <3>5, <3>6, <2>a, OLSingleStep
    <2> QED
      BY <2>b, <2>c
  <1>15. ASSUME NEW t \in ol_Threads, OL!DestructorRelease(t)
       PROVE  OLObject(o)'
    <2>a. ol_on[t] \in ol_Objects /\ OLAt(t, ol_on[t]) /\ OLObject(ol_on[t])
      BY <1>0, <1>15 DEF OL!DestructorRelease, OL!Runs, OLInv, OLTypes, OLThreads, OLAt
    <2>b. CASE o # ol_on[t]
      <3>1. ol_life'[o] = ol_life[o] /\ ol_m_cRef'[o] = ol_m_cRef[o]
            /\ ol_deleted'[o] = ol_deleted[o]
        BY <1>0, <2>a, <2>b, <1>15
           DEF OL!DestructorRelease, OL!Runs, OL!Goes, OL!counts, OL!objects, OLTypes,
               OLObjects
      <3>2. \A u \in ol_Threads : ol_refs'[u][o] = ol_refs[u][o]
        BY <1>0, <2>a, <2>b, <1>15
           DEF OL!DestructorRelease, OL!Runs, OL!Goes, OL!counts, OL!objects, OLTypes,
               OLRefs
      <3>3. \A u \in ol_Threads : OLAt(u, o) => ol_on'[u] = ol_on[u] /\ ol_pc'[u] = ol_pc[u] /\ ol_local'[u] = ol_local[u]
        BY <1>0, <2>a, <2>b, <1>15
           DEF OL!DestructorRelease, OL!Runs, OL!Goes, OL!counts, OL!objects, OLTypes,
               OLThreads, OLAt
      <3>4. \A u \in ol_Threads : OLAt(u, o)' => OLAt(u, o)
        BY <1>0, <2>a, <2>b, OLAssumption, <1>15
           DEF OL!DestructorRelease, OL!Runs, OL!Goes, OL!counts, OL!objects, OLTypes,
               OLThreads, OLAt
      <3> QED
        BY <1>0, <3>1, <3>2, <3>3, <3>4, OLUntouched
    <2>c. CASE o = ol_on[t]
      <3>1. OLAlone(t, o)
        BY <1>0, <2>a, <2>c, <1>15, OLSingle DEF OL!DestructorRelease, OL!Runs
      <3>2. \A u \in ol_Threads : ol_refs'[u][o] = ol_refs[u][o]
        BY <1>15 DEF OL!DestructorRelease
      <3>3. \A u \in ol_Threads : u # t => ol_on'[u] = ol_on[u] /\ ol_pc'[u] = ol_pc[u]
        BY <1>0, <1>15
           DEF OL!DestructorRelease, OL!Runs, OL!Goes, OL!counts, OL!objects, OLTypes,
               OLThreads
      <3>4. OLAt(t, o)' /\ ol_pc'[t] # "release"
        BY <1>0, <2>a, <2>c, <1>15
           DEF OL!DestructorRelease, OL!Runs, OL!Goes, OL!counts, OL!objects, OLTypes,
               OLThreads, OLAt, OLObject, OLCalls
      <3>5. \/ /\ ol_pc'[t] \in {"destructor", "destructorRelease"}
               /\ ol_life'[o] = "dying" /\ ol_deleted'[o] = 1
            \/ /\ ol_pc'[t] \notin {"destructor", "destructorRelease"}
               /\ ol_life'[o] = "alive" /\ ol_deleted'[o] = 0
        BY <1>0, <2>a, <2>c, <1>15
           DEF OL!DestructorRelease, OL!Runs, OL!Goes, OL!counts, OL!objects, OLTypes,
               OLThreads, OLObjects, OLObject, OLCalls, OLLives
      <3>6. /\ ol_pc'[t] \notin {"created", "failed", "zero", "innerDone"}
            /\ ol_pc'[t] = "query" => ol_m_cRef'[o] = 1
            /\ ol_pc'[t] = "destructorRelease" => ol_m_cRef'[o] = 2
            /\ ol_pc'[t] = "destructor" /\ ol_local'[t] = 0 => ol_m_cRef'[o] = 1
        BY <1>0, <2>a, <2>c, <1>15
           DEF OL!DestructorRelease, OL!Runs, OL!Goes, OL!counts, OL!objects, OLTypes,
               OLThreads, OLObjects, OLObject, OLCalls
      <3> QED
        BY <1>0, <2>c, <3>1, <3>2, <3>3, <3>4, <3>5, <3>6, <2>a, OLSingleStep
    <2> QED
      BY <2>b, <2>c
  <1>16. ASSUME NEW t \in ol_Threads, OL!Destroyed(t)
       PROVE  OLObject(o)'
    <2>a. ol_on[t] \in ol_Objects /\ OLAt(t, ol_on[t]) /\ OLObject(ol_on[t])
      BY <1>0, <1>16 DEF OL!Destroyed, OL!Runs, OLInv, OLTypes, OLThreads, OLAt
    <2>b. CASE o # ol_on[t]
      <3>1. ol_life'[o] = ol_life[o] /\ ol_m_cRef'[o] = ol_m_cRef[o]
            /\ ol_deleted'[o] = ol_deleted[o]
        BY <1>0, <2>a, <2>b, <1>16
           DEF OL!Destroyed, OL!Runs, OL!Goes, OL!counts, OL!objects, OLTypes,
               OLObjects
      <3>2. \A u \in ol_Threads : ol_refs'[u][o] = ol_refs[u][o]
        BY <1>0, <2>a, <2>b, <1>16
           DEF OL!Destroyed, OL!Runs, OL!Goes, OL!counts, OL!objects, OLTypes, OLRefs
      <3>3. \A u \in ol_Threads : OLAt(u, o) => ol_on'[u] = ol_on[u] /\ ol_pc'[u] = ol_pc[u] /\ ol_local'[u] = ol_local[u]
        BY <1>0, <2>a, <2>b, <1>16
           DEF OL!Destroyed, OL!Runs, OL!Goes, OL!counts, OL!objects, OLTypes,
               OLThreads, OLAt
      <3>4. \A u \in ol_Threads : OLAt(u, o)' => OLAt(u, o)
        BY <1>0, <2>a, <2>b, OLAssumption, <1>16
           DEF OL!Destroyed, OL!Runs, OL!Goes, OL!counts, OL!objects, OLTypes,
               OLThreads, OLAt
      <3> QED
        BY <1>0, <3>1, <3>2, <3>3, <3>4, OLUntouched
    <2>c. CASE o = ol_on[t]
      <3>1. OLAlone(t, o) /\ ol_life[o] = "dying" /\ ol_deleted[o] = 1
        BY <1>0, <2>a, <2>c, <1>16, OLSingle
           DEF OL!Destroyed, OL!Runs, OLObject, OLCalls, OLLives
      <3>2. \A u \in ol_Threads : ~OLAt(u, o)'
        BY <1>0, <3>1, <1>16, OLAssumption
           DEF OL!Destroyed, OL!Goes, OLTypes, OLThreads, OLAt, OLAlone
      <3>3. ol_life'[o] = "gone" /\ ol_deleted'[o] = 1 /\ ol_refs' = ol_refs
        BY <1>0, <2>a, <2>c, <3>1, <1>16 DEF OL!Destroyed, OLTypes, OLObjects
      <3> QED
        BY <3>1, <3>2, <3>3 DEF OLObject, OLCalls, OLLives, OLCount, OLShared, OLAlone
    <2> QED
      BY <2>b, <2>c
  <1>17. CASE OL!IsLocked \/ OL!ObjectsActive \/ UNCHANGED OL!vars
    <2>1. UNCHANGED <<ol_life, ol_m_cRef, ol_deleted, ol_refs, ol_on, ol_pc, ol_local>>
      BY <1>17 DEF OL!IsLocked, OL!ObjectsActive, OL!vars, OL!counts, OL!objects
    <2> QED
      BY <1>0, <2>1, OLUntouched DEF OLAt
  <1> QED
    BY <1>1, <1>2, <1>3, <1>4, <1>5, <1>6, <1>7, <1>8, <1>9, <1>10, <1>11, <1>12, <1>13,
       <1>14, <1>15, <1>16, <1>17, <1>18 DEF OL!Next
LEMMA OLStepLoaded == OLInv /\ [OL!Next]_(OL!vars) => OLLoaded'
  <1> SUFFICES ASSUME OLInv, [OL!Next]_(OL!vars)
               PROVE  OLLoaded'
    OBVIOUS
  <1>0. OLTypes /\ OLTypes' /\ OLLoaded /\ (\A o \in ol_Objects : OLObject(o))
    BY OLStepTypes DEF OLInv
  <1>a. Cardinality(OLMade) \in Nat /\ Cardinality(OLFactories) \in Nat
    BY OLFinite, FS_CardinalityType
  <1>1. ASSUME NEW t \in ol_Threads, OL!DllGetClassObject(t)
       PROVE  OLLoaded'
    <2>1. OLFactories' = OLFactories \cup {t} /\ t \notin OLFactories
      BY <1>0, <1>1
         DEF OL!DllGetClassObject, OL!Runs, OL!counts, OL!objects, OLFactories, OLTypes,
             OLLibrary
    <2>2. Cardinality(OLFactories') = Cardinality(OLFactories) + 1
      BY <2>1, OLFinite, FS_AddElement
    <2>3. OLMade' = OLMade /\ ol_m_cObjects' = ol_m_cObjects + 1
          /\ ol_library' = ol_library /\ ol_library # "unloaded"
      BY <1>1 DEF OL!DllGetClassObject, OL!Runs, OL!counts, OL!objects, OLMade
    <2> QED
      BY <1>0, <1>a, <2>2, <2>3 DEF OLLoaded
  <1>2. ASSUME NEW t \in ol_Threads, OL!FactoryQueryInterface(t)
       PROVE  OLLoaded'
    <2>1. OLMade' = OLMade /\ ol_m_cObjects' = ol_m_cObjects /\ ol_library' = ol_library
      BY <1>2 DEF OL!FactoryQueryInterface, OL!Runs, OL!counts, OL!objects, OLMade
    <2>2. OLFactories' = OLFactories
      BY <1>0, <1>2
         DEF OL!FactoryQueryInterface, OL!Runs, OL!counts, OL!objects, OLFactories,
             OLTypes, OLLibrary
    <2> QED
      BY <1>0, <2>1, <2>2, OLSame
  <1>18. ASSUME NEW t \in ol_Threads, OL!FactoryReferenced(t)
       PROVE  OLLoaded'
    <2>1. OLMade' = OLMade /\ ol_m_cObjects' = ol_m_cObjects /\ ol_library' = ol_library
      BY <1>18 DEF OL!FactoryReferenced, OL!Runs, OL!counts, OL!objects, OLMade
    <2>2. OLFactories' = OLFactories
      BY <1>0, <1>18
         DEF OL!FactoryReferenced, OL!Runs, OL!counts, OL!objects, OLFactories, OLTypes,
             OLLibrary
    <2> QED
      BY <1>0, <2>1, <2>2, OLSame
  <1>3. ASSUME NEW t \in ol_Threads, OL!FactoryRelease(t)
       PROVE  OLLoaded'
    <2>1. OLMade' = OLMade /\ ol_library' = ol_library /\ ol_library # "unloaded"
      BY <1>3 DEF OL!FactoryRelease, OL!Runs, OL!counts, OL!objects, OLMade
    <2>2. CASE ol_factory[t] = 1
      <3>1. OLFactories' = OLFactories \ {t} /\ t \in OLFactories
        BY <1>0, <1>3, <2>2
           DEF OL!FactoryRelease, OL!Runs, OL!counts, OL!objects, OLFactories, OLTypes,
               OLLibrary
      <3>2. Cardinality(OLFactories') = Cardinality(OLFactories) - 1
        BY <3>1, OLFinite, FS_RemoveElement
      <3>3. ol_m_cObjects' = ol_m_cObjects - 1
        BY <1>3, <2>2 DEF OL!FactoryRelease
      <3> QED
        BY <1>0, <1>a, <2>1, <3>2, <3>3 DEF OLLoaded
    <2>3. CASE ol_factory[t] # 1
      <3>1. OLFactories' = OLFactories
        BY <1>0, <1>3, <2>3
           DEF OL!FactoryRelease, OL!Runs, OL!counts, OL!objects, OLFactories, OLTypes,
               OLLibrary
      <3>2. ol_m_cObjects' = ol_m_cObjects
        BY <1>3, <2>3 DEF OL!FactoryRelease
      <3> QED
        BY <1>0, <2>1, <3>1, <3>2, OLSame
    <2> QED
      BY <2>2, <2>3
  <1>4. ASSUME NEW t \in ol_Threads, OL!LockServer(t)
       PROVE  OLLoaded'
    <2>1. OLMade' = OLMade /\ ol_m_cObjects' = ol_m_cObjects /\ ol_library' = ol_library
      BY <1>4 DEF OL!LockServer, OL!Runs, OL!counts, OL!objects, OLMade
    <2>2. OLFactories' = OLFactories
      BY <1>0, <1>4
         DEF OL!LockServer, OL!Runs, OL!counts, OL!objects, OLFactories, OLTypes,
             OLLibrary
    <2> QED
      BY <1>0, <2>1, <2>2, OLSame
  <1>5. ASSUME NEW t \in ol_Threads, OL!Locked(t)
       PROVE  OLLoaded'
    <2>1. OLMade' = OLMade /\ ol_m_cObjects' = ol_m_cObjects /\ ol_library' = ol_library
      BY <1>5 DEF OL!Locked, OL!Runs, OL!counts, OL!objects, OLMade
    <2>2. OLFactories' = OLFactories
      BY <1>0, <1>5
         DEF OL!Locked, OL!Runs, OL!counts, OL!objects, OLFactories, OLTypes, OLLibrary
    <2> QED
      BY <1>0, <2>1, <2>2, OLSame
  <1>6. ASSUME NEW t \in ol_Threads, OL!CreateInstance(t)
       PROVE  OLLoaded'
    <2>1. PICK p \in ol_Objects : ol_life[p] = "unmade"
          /\ ol_life' = [ol_life EXCEPT ![p] = "alive"]
      BY <1>6 DEF OL!CreateInstance
    <2>2. OLMade' = OLMade \cup {p} /\ p \notin OLMade
      BY <1>0, <2>1 DEF OLMade, OLTypes, OLObjects
    <2>3. Cardinality(OLMade') = Cardinality(OLMade) + 1
      BY <2>2, OLFinite, FS_AddElement
    <2>4. OLFactories' = OLFactories /\ ol_m_cObjects' = ol_m_cObjects + 1
          /\ ol_library' = ol_library /\ ol_library # "unloaded"
      BY <1>6 DEF OL!CreateInstance, OL!Runs, OL!counts, OL!objects, OLFactories
    <2> QED
      BY <1>0, <1>a, <2>3, <2>4 DEF OLLoaded
  <1>7. ASSUME NEW t \in ol_Threads, OL!ConstructionFailed(t)
       PROVE  OLLoaded'
    <2>1. ol_on[t] \in ol_Objects /\ ol_life[ol_on[t]] = "alive"
          /\ ol_life' = [ol_life EXCEPT ![ol_on[t]] = "dying"]
      BY <1>0, <1>7
         DEF OL!ConstructionFailed, OL!Runs, OLTypes, OLThreads, OLObject, OLCalls,
             OLAt
    <2>2. OLMade' = OLMade
      BY <1>0, <2>1 DEF OLMade, OLTypes, OLObjects
    <2>3. OLFactories' = OLFactories /\ ol_m_cObjects' = ol_m_cObjects
          /\ ol_library' = ol_library
      BY <1>7 DEF OL!ConstructionFailed, OL!Runs, OL!counts, OL!objects, OLFactories
    <2> QED
      BY <1>0, <2>2, <2>3, OLSame
  <1>8. ASSUME NEW t \in ol_Threads, OL!CreateAddRef(t)
       PROVE  OLLoaded'
    <2>1. OLMade' = OLMade /\ ol_m_cObjects' = ol_m_cObjects /\ ol_library' = ol_library
      BY <1>8 DEF OL!CreateAddRef, OL!Runs, OL!counts, OL!objects, OLMade
    <2>2. OLFactories' = OLFactories
      BY <1>0, <1>8
         DEF OL!CreateAddRef, OL!Runs, OL!counts, OL!objects, OLFactories, OLTypes,
             OLLibrary
    <2> QED
      BY <1>0, <2>1, <2>2, OLSame
  <1>9. ASSUME NEW t \in ol_Threads, OL!QueryInterface(t)
       PROVE  OLLoaded'
    <2>1. OLMade' = OLMade /\ ol_m_cObjects' = ol_m_cObjects /\ ol_library' = ol_library
      BY <1>9 DEF OL!QueryInterface, OL!Runs, OL!counts, OL!objects, OLMade
    <2>2. OLFactories' = OLFactories
      BY <1>0, <1>9
         DEF OL!QueryInterface, OL!Runs, OL!counts, OL!objects, OLFactories, OLTypes,
             OLLibrary
    <2> QED
      BY <1>0, <2>1, <2>2, OLSame
  <1>10. ASSUME NEW t \in ol_Threads, OL!AddRef(t)
       PROVE  OLLoaded'
    <2>1. OLMade' = OLMade /\ ol_m_cObjects' = ol_m_cObjects /\ ol_library' = ol_library
      BY <1>10 DEF OL!AddRef, OL!Runs, OL!counts, OL!objects, OLMade
    <2>2. OLFactories' = OLFactories
      BY <1>0, <1>10
         DEF OL!AddRef, OL!Runs, OL!counts, OL!objects, OLFactories, OLTypes, OLLibrary
    <2> QED
      BY <1>0, <2>1, <2>2, OLSame
  <1>11. ASSUME NEW t \in ol_Threads, OL!ReleaseCall(t)
       PROVE  OLLoaded'
    <2>1. OLMade' = OLMade /\ ol_m_cObjects' = ol_m_cObjects /\ ol_library' = ol_library
      BY <1>11 DEF OL!ReleaseCall, OL!Runs, OL!counts, OL!objects, OLMade
    <2>2. OLFactories' = OLFactories
      BY <1>0, <1>11
         DEF OL!ReleaseCall, OL!Runs, OL!counts, OL!objects, OLFactories, OLTypes,
             OLLibrary
    <2> QED
      BY <1>0, <2>1, <2>2, OLSame
  <1>12. ASSUME NEW t \in ol_Threads, OL!Decrement(t)
       PROVE  OLLoaded'
    <2>1. OLMade' = OLMade /\ ol_m_cObjects' = ol_m_cObjects /\ ol_library' = ol_library
      BY <1>12 DEF OL!Decrement, OL!Runs, OL!counts, OL!objects, OLMade
    <2>2. OLFactories' = OLFactories
      BY <1>0, <1>12
         DEF OL!Decrement, OL!Runs, OL!counts, OL!objects, OLFactories, OLTypes,
             OLLibrary
    <2> QED
      BY <1>0, <2>1, <2>2, OLSame
  <1>13. ASSUME NEW t \in ol_Threads, OL!Delete(t)
       PROVE  OLLoaded'
    <2>1. ol_on[t] \in ol_Objects /\ ol_life[ol_on[t]] = "alive"
          /\ ol_life' = [ol_life EXCEPT ![ol_on[t]] = "dying"]
      BY <1>0, <1>13 DEF OL!Delete, OL!Runs, OLTypes, OLThreads, OLObject, OLCalls, OLAt
    <2>2. OLMade' = OLMade
      BY <1>0, <2>1 DEF OLMade, OLTypes, OLObjects
    <2>3. OLFactories' = OLFactories /\ ol_m_cObjects' = ol_m_cObjects
          /\ ol_library' = ol_library
      BY <1>13 DEF OL!Delete, OL!Runs, OL!counts, OL!objects, OLFactories
    <2> QED
      BY <1>0, <2>2, <2>3, OLSame
  <1>14. ASSUME NEW t \in ol_Threads, OL!DestructorAddRef(t)
       PROVE  OLLoaded'
    <2>1. OLMade' = OLMade /\ ol_m_cObjects' = ol_m_cObjects /\ ol_library' = ol_library
      BY <1>14 DEF OL!DestructorAddRef, OL!Runs, OL!counts, OL!objects, OLMade
    <2>2. OLFactories' = OLFactories
      BY <1>0, <1>14
         DEF OL!DestructorAddRef, OL!Runs, OL!counts, OL!objects, OLFactories, OLTypes,
             OLLibrary
    <2> QED
      BY <1>0, <2>1, <2>2, OLSame
  <1>15. ASSUME NEW t \in ol_Threads, OL!DestructorRelease(t)
       PROVE  OLLoaded'
    <2>1. OLMade' = OLMade /\ ol_m_cObjects' = ol_m_cObjects /\ ol_library' = ol_library
      BY <1>15 DEF OL!DestructorRelease, OL!Runs, OL!counts, OL!objects, OLMade
    <2>2. OLFactories' = OLFactories
      BY <1>0, <1>15
         DEF OL!DestructorRelease, OL!Runs, OL!counts, OL!objects, OLFactories, OLTypes,
             OLLibrary
    <2> QED
      BY <1>0, <2>1, <2>2, OLSame
  <1>16. ASSUME NEW t \in ol_Threads, OL!Destroyed(t)
       PROVE  OLLoaded'
    <2>1. ol_on[t] \in ol_Objects /\ ol_life[ol_on[t]] = "dying"
          /\ ol_life' = [ol_life EXCEPT ![ol_on[t]] = "gone"]
      BY <1>0, <1>16
         DEF OL!Destroyed, OL!Runs, OLTypes, OLThreads, OLObject, OLCalls, OLAt
    <2>2. OLMade' = OLMade \ {ol_on[t]} /\ ol_on[t] \in OLMade
      BY <1>0, <2>1 DEF OLMade, OLTypes, OLObjects
    <2>3. Cardinality(OLMade') = Cardinality(OLMade) - 1
      BY <2>2, OLFinite, FS_RemoveElement
    <2>4. OLFactories' = OLFactories /\ ol_m_cObjects' = ol_m_cObjects - 1
          /\ ol_library' = ol_library /\ ol_library # "unloaded"
      BY <1>16 DEF OL!Destroyed, OL!Runs, OL!counts, OL!objects, OLFactories
    <2> QED
      BY <1>0, <1>a, <2>3, <2>4 DEF OLLoaded
  <1>17. CASE OL!IsLocked \/ OL!ObjectsActive \/ UNCHANGED OL!vars
    <2>1. UNCHANGED <<ol_life, ol_factory, ol_m_cObjects>>
      BY <1>17 DEF OL!IsLocked, OL!ObjectsActive, OL!vars, OL!counts, OL!objects
    <2>2. OLMade' = OLMade /\ OLFactories' = OLFactories
      BY <2>1 DEF OLMade, OLFactories
    <2>3. ol_library' = ol_library \/ ol_library' # "unloaded" \/ ol_m_cObjects = 0
      BY <1>17 DEF OL!IsLocked, OL!ObjectsActive, OL!vars
    <2> QED
      BY <1>0, <2>1, <2>2, <2>3, OLSame
  <1> QED
    BY <1>1, <1>2, <1>3, <1>4, <1>5, <1>6, <1>7, <1>8, <1>9, <1>10, <1>11, <1>12, <1>13,
       <1>14, <1>15, <1>16, <1>17, <1>18 DEF OL!Next

LEMMA OLStep == OLInv /\ [OL!Next]_(OL!vars) => OLInv'
  BY OLStepTypes, OLStepObjects, OLStepLoaded DEF OLInv

LEMMA OLLasts == OLInv => OL!LivesWhileReferenced
  <1> SUFFICES ASSUME OLInv
               PROVE  OL!LivesWhileReferenced
    OBVIOUS
  <1>1. ASSUME NEW o \in ol_Objects
        PROVE  /\ (\E t \in ol_Threads : ol_refs[t][o] > 0) => ol_life[o] = "alive"
               /\ ol_deleted[o] <= 1
               /\ ol_life[o] = "alive" => \E t \in ol_Threads : ol_refs[t][o] > 0 \/ t \in OL!At(o)
    <2>1. OLTypes /\ OLCalls(o) /\ OLLives(o) /\ OLCount(o)
      BY DEF OLInv, OLObject
    <2>2. ol_deleted[o] <= 1
      <3>1. ol_life[o] \in {"unmade", "alive", "dying", "gone"}
        BY <2>1 DEF OLTypes, OLObjects
      <3>2. ol_deleted[o] = 0 \/ ol_deleted[o] = 1
        BY <2>1, <3>1 DEF OLLives
      <3> QED
        BY <3>2
    <2>3. ASSUME ol_life[o] = "alive", ~(\E t \in ol_Threads : ol_refs[t][o] > 0 \/ t \in OL!At(o))
          PROVE  FALSE
      <3>1. OLShared(o)
        BY <2>3 DEF OLShared, OLAt, OL!At
      <3>2. OLTokens(o) = {}
        <4> SUFFICES ASSUME NEW x \in OLTokens(o)
                     PROVE  FALSE
          OBVIOUS
        <4>1. x[1] \in ol_Threads /\ x[2] \in 0..ol_RefsMax
          BY DEF OLTokens
        <4>2. ol_refs[x[1]][o] \in 0..ol_RefsMax /\ ~(ol_refs[x[1]][o] > 0)
              /\ x[1] \notin OL!At(o)
          BY <2>1, <2>3, <4>1 DEF OLTypes, OLRefs
        <4> QED
          BY <4>1, <4>2, OLAssumption DEF OLTokens, OL!At
      <3>3. Cardinality(OLTokens(o)) = 0
        BY <3>2, FS_EmptySet
      <3> QED
        BY <2>1, <3>1, <3>3 DEF OLCount
    <2> QED
      BY <2>1, <2>2, <2>3 DEF OLLives
  <1>2. ASSUME ol_library = "unloaded"
        PROVE  /\ \A o \in ol_Objects : ol_life[o] \in {"unmade", "gone"}
               /\ \A t \in ol_Threads : ol_factory[t] = 0
    <2>1. OLMade = {} /\ OLFactories = {}
      BY <1>2 DEF OLInv, OLLoaded
    <2>2. \A t \in ol_Threads : ol_factory[t] \in Nat /\ ~(ol_factory[t] > 0)
      BY <2>1 DEF OLInv, OLTypes, OLLibrary, OLFactories
    <2>3. \A o \in ol_Objects : ol_life[o] \in {"unmade", "alive", "dying", "gone"} /\ ol_life[o] \notin {"alive", "dying"}
      BY <2>1 DEF OLInv, OLTypes, OLObjects, OLMade
    <2> QED
      BY <2>2, <2>3
  <1> QED
    BY <1>1, <1>2 DEF OL!LivesWhileReferenced

-----------------------------------------------------------------------------
(***************************************************************************)
(* Media types.  MYOwn: each block belongs to one type.  MYReplace and     *)
(* MYCount: a step that replaces what one type holds keeps the blocks owned and*)
(* the references counted; the actions are instances of that.              *)
(***************************************************************************)

MYRecord ==
  [is : {"unmade", "object", "created"}, formattype : my_FormatTypes \cup {MY!GUID_NULL},
   cbFormat : MY!Lengths \cup {0}, pbFormat : 0..my_Blocks, pUnk : BOOLEAN]

MYTypes ==
  /\ my_type \in [my_Types -> MYRecord]
  /\ my_heap \in [1..my_Blocks -> my_Formats \cup {MY!Free}]
  /\ my_m_cRef \in Int /\ my_lost \in Int

\* What one type may be, with its block in h.
MYWhole(r, h) ==
  /\ r.cbFormat = 0 => r.pbFormat = MY!NULL
  /\ r.cbFormat # 0 => r.pbFormat \in 1..my_Blocks /\ Len(h[r.pbFormat]) = r.cbFormat
  /\ r.is = "unmade" => r = MY!Unmade

MYHolds(t, b) == my_type[t].cbFormat # 0 /\ my_type[t].pbFormat = b

\* Each block that is not free is that of one type.
MYOwn ==
  /\ \A t \in my_Types : MYWhole(my_type[t], my_heap)
  /\ \A s, t \in my_Types : \A b \in 1..my_Blocks : MYHolds(s, b) /\ MYHolds(t, b) => s = t
  /\ \A b \in 1..my_Blocks : my_heap[b] # MY!Free => \E t \in my_Types : MYHolds(t, b)

MYHolders == {t \in my_Types : my_type[t].pUnk}

MYRefs == my_m_cRef = Cardinality(MYHolders) - my_lost

MYInv == MYTypes /\ MYOwn /\ MYRefs /\ MY!CopyIsEqual

LEMMA MYLengths ==
  /\ \A f \in my_Formats : Len(f) \in Nat \ {0} /\ Len(f) \in MY!Lengths /\ f # MY!Free
  /\ MY!Lengths \subseteq Nat \ {0}
  /\ Len(MY!Free) = 0
  <1>1. \A f \in my_Formats : Len(f) \in Nat \ {0}
    BY TypesAssumption, EmptySeq, LenProperties
  <1> QED
    BY <1>1, TypesAssumption DEF MY!Lengths, MY!Free

LEMMA MYBlocks == my_Blocks \in Nat /\ MY!NULL = 0 /\ MY!NULL \in 0..my_Blocks
/\ 0 \in MY!Lengths \cup {0}
  BY TypesAssumption DEF MY!NULL

(* A step that replaces one type, and frees its block unless it goes on     *)
(* having it.                                                              *)
LEMMA MYReplace ==
  ASSUME MYTypes, MYOwn, NEW t \in my_Types, NEW r \in MYRecord, NEW h \in [1..my_Blocks -> my_Formats \cup {MY!Free}],
         MYWhole(r, h),
         r.cbFormat # 0 => my_heap[r.pbFormat] = MY!Free \/ MYHolds(t, r.pbFormat),
         \A b \in 1..my_Blocks : r.cbFormat = 0 \/ b # r.pbFormat =>
            h[b] = IF MYHolds(t, b) THEN MY!Free ELSE my_heap[b],
         my_type' = [my_type EXCEPT ![t] = r], my_heap' = h
  PROVE  MYOwn'
  <1>1. /\ my_type'[t] = r
        /\ \A s \in my_Types : s # t => my_type'[s] = my_type[s]
    BY DEF MYTypes
  <1>2. \A s \in my_Types, b \in 1..my_Blocks :
           MYHolds(s, b)' <=> IF s = t THEN r.cbFormat # 0 /\ r.pbFormat = b ELSE MYHolds(s, b)
    BY <1>1 DEF MYHolds
  <1>3. ASSUME NEW s \in my_Types, s # t, NEW b \in 1..my_Blocks, MYHolds(s, b)
        PROVE  h[b] = my_heap[b] /\ ~(r.cbFormat # 0 /\ r.pbFormat = b)
    <2>1. my_heap[b] # MY!Free /\ ~MYHolds(t, b)
      BY <1>3, MYLengths DEF MYOwn, MYWhole, MYHolds, MYTypes
    <2> QED
      BY <1>3, <2>1
  <1>4. \A s \in my_Types : MYWhole(my_type'[s], my_heap')
    <2> SUFFICES ASSUME NEW s \in my_Types, s # t
                 PROVE  MYWhole(my_type[s], h)
      BY <1>1
    <2>1. MYWhole(my_type[s], my_heap)
      BY DEF MYOwn
    <2>2. my_type[s].cbFormat # 0 => h[my_type[s].pbFormat] = my_heap[my_type[s].pbFormat]
      BY <1>3, <2>1 DEF MYHolds, MYWhole
    <2> QED
      BY <2>1, <2>2 DEF MYWhole
  <1>5. \A s, u \in my_Types : \A b \in 1..my_Blocks : MYHolds(s, b)' /\ MYHolds(u, b)' => s = u
    <2> SUFFICES ASSUME NEW s \in my_Types, NEW u \in my_Types, NEW b \in 1..my_Blocks,
                        MYHolds(s, b)', MYHolds(u, b)'
                 PROVE  s = u
      OBVIOUS
    <2> QED
      BY <1>2, <1>3 DEF MYOwn
  <1>6. \A b \in 1..my_Blocks : my_heap'[b] # MY!Free => \E s \in my_Types : MYHolds(s, b)'
    <2> SUFFICES ASSUME NEW b \in 1..my_Blocks, h[b] # MY!Free
                 PROVE  \E s \in my_Types : MYHolds(s, b)'
      OBVIOUS
    <2>1. CASE r.cbFormat # 0 /\ r.pbFormat = b
      BY <1>2, <2>1
    <2>2. CASE ~(r.cbFormat # 0 /\ r.pbFormat = b)
      <3>1. ~MYHolds(t, b) /\ my_heap[b] # MY!Free
        BY <2>2
      <3>2. PICK s \in my_Types : MYHolds(s, b)
        BY <3>1 DEF MYOwn
      <3> QED
        BY <1>2, <3>1, <3>2
    <2> QED
      BY <2>1, <2>2
  <1> QED
    BY <1>4, <1>5, <1>6 DEF MYOwn

LEMMA MYFinite == IsFiniteSet(MYHolders) /\ Cardinality(MYHolders) \in Nat
  <1>1. MYHolders \in SUBSET my_Types
    BY DEF MYHolders
  <1>2. IsFiniteSet(MYHolders)
    BY <1>1, TypesAssumption, FS_Subset
  <1> QED
    BY <1>2, FS_CardinalityType

LEMMA MYCount ==
  ASSUME MYTypes, MYRefs, NEW t \in my_Types, NEW r \in MYRecord,
         my_type' = [my_type EXCEPT ![t] = r], my_lost' \in Int,
         my_m_cRef' + my_lost' = my_m_cRef + my_lost + MY!One(r.pUnk) - MY!One(my_type[t].pUnk), my_m_cRef' \in Int
  PROVE  MYRefs'
  <1>1. /\ my_type'[t] = r
        /\ \A s \in my_Types : s # t => my_type'[s] = my_type[s]
    BY DEF MYTypes
  <1>2. r.pUnk \in BOOLEAN /\ my_type[t].pUnk \in BOOLEAN /\ my_m_cRef \in Int
        /\ my_lost \in Int
    BY DEF MYTypes, MYRecord
  <1>3. CASE r.pUnk /\ my_type[t].pUnk
    <2>1. MYHolders' = MYHolders
      BY <1>1, <1>3 DEF MYHolders
    <2> QED
      BY <1>2, <1>3, <2>1, MYFinite DEF MYRefs, MY!One
  <1>4. CASE ~r.pUnk /\ ~my_type[t].pUnk
    <2>1. MYHolders' = MYHolders
      BY <1>1, <1>4 DEF MYHolders
    <2> QED
      BY <1>2, <1>4, <2>1, MYFinite DEF MYRefs, MY!One
  <1>5. CASE r.pUnk /\ ~my_type[t].pUnk
    <2>1. MYHolders' = MYHolders \cup {t} /\ t \notin MYHolders
      BY <1>1, <1>5 DEF MYHolders
    <2>2. Cardinality(MYHolders') = Cardinality(MYHolders) + 1
      BY <2>1, MYFinite, FS_AddElement
    <2> QED
      BY <1>2, <1>5, <2>2, MYFinite DEF MYRefs, MY!One
  <1>6. CASE ~r.pUnk /\ my_type[t].pUnk
    <2>1. MYHolders' = MYHolders \ {t} /\ t \in MYHolders
      BY <1>1, <1>6 DEF MYHolders
    <2>2. Cardinality(MYHolders') = Cardinality(MYHolders) - 1
      BY <2>1, MYFinite, FS_RemoveElement
    <2> QED
      BY <1>2, <1>6, <2>2, MYFinite DEF MYRefs, MY!One
  <1> QED
    BY <1>3, <1>4, <1>5, <1>6

LEMMA MYFreed ==
  ASSUME MYTypes, MYOwn, NEW t \in my_Types
  PROVE  /\ MY!Freed(my_heap, t) \in [1..my_Blocks -> my_Formats \cup {MY!Free}]
         /\ \A b \in 1..my_Blocks : MY!Freed(my_heap, t)[b] = IF MYHolds(t, b) THEN MY!Free ELSE my_heap[b]
  BY DEF MY!Freed, MY!CoTaskMemFree, MYTypes, MYOwn, MYWhole, MYHolds, MYRecord

LEMMA MYAlloc ==
  ASSUME NEW h \in [1..my_Blocks -> my_Formats \cup {MY!Free}], NEW b \in MY!CoTaskMemAlloc(h), b # MY!NULL
  PROVE  b \in 1..my_Blocks /\ h[b] = MY!Free
  BY DEF MY!CoTaskMemAlloc, MY!NewBlock

(* The outcomes of a copy of s where the heap is h.                        *)
MYOutcome(h, s, c) ==
  /\ c.fields.is = s.is /\ c.fields.formattype = s.formattype /\ c.fields.pUnk = s.pUnk
  /\ c.taken \in Int /\ c.lost \in Int /\ c.taken + c.lost = MY!One(s.pUnk)
  /\ \/ /\ s.cbFormat = 0 /\ c.fields = s /\ c.heap = h
     \/ /\ s.cbFormat # 0 /\ c.ok = FALSE /\ c.heap = h
        /\ c.fields = [s EXCEPT !.cbFormat = 0, !.pbFormat = MY!NULL]
     \/ /\ s.cbFormat # 0 /\ c.fields.pbFormat \in 1..my_Blocks
        /\ h[c.fields.pbFormat] = MY!Free
        /\ c.fields = [s EXCEPT !.pbFormat = c.fields.pbFormat]
        /\ c.heap = [h EXCEPT ![c.fields.pbFormat] = h[s.pbFormat]]

LEMMA MYForms ==
  ASSUME NEW h \in [1..my_Blocks -> my_Formats \cup {MY!Free}], NEW s \in MYRecord, NEW c \in MY!CopyMediaType(h, s)
  PROVE  MYOutcome(h, s, c)
  <1> DEFINE Into(b) == [heap |-> [h EXCEPT ![b] = h[s.pbFormat]],
                         fields |-> [s EXCEPT !.pbFormat = b], ok |-> TRUE,
                         taken |-> MY!One(s.pUnk), lost |-> 0]
             Fails == [heap |-> h, fields |-> [s EXCEPT !.cbFormat = 0, !.pbFormat = MY!NULL],
                       ok |-> FALSE, taken |-> 0, lost |-> MY!One(s.pUnk)]
  <1>0. MY!One(s.pUnk) \in Int
    BY DEF MY!One
  <1>1. CASE s.cbFormat = 0
    BY <1>0, <1>1 DEF MY!CopyMediaType, MY!CopyShallow, MYOutcome
  <1>2. CASE s.cbFormat # 0
    <2>1. c \in {IF b = MY!NULL THEN Fails ELSE Into(b) : b \in MY!CoTaskMemAlloc(h)}
      BY <1>2 DEF MY!CopyMediaType
    <2>2. PICK b \in MY!CoTaskMemAlloc(h) : c = IF b = MY!NULL THEN Fails ELSE Into(b)
      BY <2>1
    <2>3. CASE b = MY!NULL
      <3>1. c = Fails
        BY <2>2, <2>3
      <3>2. /\ c.fields = [s EXCEPT !.cbFormat = 0, !.pbFormat = MY!NULL]
            /\ c.heap = h /\ c.ok = FALSE /\ c.taken = 0 /\ c.lost = MY!One(s.pUnk)
        BY <3>1
      <3>3. c.fields.is = s.is /\ c.fields.formattype = s.formattype
            /\ c.fields.pUnk = s.pUnk
        BY <3>2 DEF MYRecord
      <3> QED
        BY <1>0, <1>2, <3>2, <3>3 DEF MYOutcome
    <2>4. CASE b # MY!NULL
      <3>1. b \in 1..my_Blocks /\ h[b] = MY!Free
        BY <2>4, MYAlloc
      <3>2. c = Into(b)
        BY <2>2, <2>4
      <3>3. /\ c.fields = [s EXCEPT !.pbFormat = b]
            /\ c.heap = [h EXCEPT ![b] = h[s.pbFormat]]
            /\ c.taken = MY!One(s.pUnk) /\ c.lost = 0
        BY <3>2
      <3>4. /\ c.fields.pbFormat = b /\ c.fields.is = s.is
            /\ c.fields.formattype = s.formattype /\ c.fields.pUnk = s.pUnk
        BY <3>3 DEF MYRecord
      <3> QED
        BY <1>0, <1>2, <3>1, <3>3, <3>4 DEF MYOutcome
    <2> QED
      BY <2>3, <2>4
  <1> QED
    BY <1>1, <1>2

(* What Set, a constructor that copies and CreateMediaType leave.           *)
LEMMA MYCopy ==
  ASSUME MYTypes, MYOwn, MYRefs, NEW t \in my_Types, NEW s \in my_Types, t # s,
         NEW k \in {"object", "created"}, s \in MY!Live,
         NEW c \in MY!CopyMediaType(MY!Freed(my_heap, t), my_type[s]),
         my_type' = [my_type EXCEPT ![t] = [c.fields EXCEPT !.is = k]], MY!Copies(t, s, c),
         my_m_cRef' = my_m_cRef - MY!One(my_type[t].pUnk) + c.taken
  PROVE  MYInv'
  <1> DEFINE r == [c.fields EXCEPT !.is = k]
             h == MY!Freed(my_heap, t)
  <1>1. h \in [1..my_Blocks -> my_Formats \cup {MY!Free}] /\ my_type[s] \in MYRecord
    BY MYFreed DEF MYTypes
  <1>2. /\ c.fields.is = my_type[s].is /\ c.fields.formattype = my_type[s].formattype
        /\ c.fields.pUnk = my_type[s].pUnk
        /\ c.taken \in Int /\ c.lost \in Int /\ c.taken + c.lost = MY!One(my_type[s].pUnk)
        /\ \/ /\ my_type[s].cbFormat = 0 /\ c.fields = my_type[s] /\ c.heap = h
           \/ /\ my_type[s].cbFormat # 0 /\ c.ok = FALSE /\ c.heap = h
              /\ c.fields = [my_type[s] EXCEPT !.cbFormat = 0, !.pbFormat = MY!NULL]
           \/ /\ my_type[s].cbFormat # 0 /\ c.fields.pbFormat \in 1..my_Blocks
              /\ h[c.fields.pbFormat] = MY!Free
              /\ c.fields = [my_type[s] EXCEPT !.pbFormat = c.fields.pbFormat]
              /\ c.heap = [h EXCEPT ![c.fields.pbFormat] = h[my_type[s].pbFormat]]
    <2>1. c \in MY!CopyMediaType(h, my_type[s])
      OBVIOUS
    <2>2. MYOutcome(h, my_type[s], c)
      <3> HIDE DEF h
      <3> QED
        BY <1>1, <2>1, MYForms
    <2> QED
      BY <2>2 DEF MYOutcome
  <1>3. my_heap' = c.heap /\ my_lost' = my_lost + c.lost
        /\ my_copied' = IF c.ok THEN <<t, s>> ELSE <<>>
    BY DEF MY!Copies
  <1>4. \A b \in 1..my_Blocks : h[b] = IF MYHolds(t, b) THEN MY!Free ELSE my_heap[b]
    BY MYFreed
  <1>5. MYWhole(my_type[s], my_heap)
    BY DEF MYOwn
  <1>6. my_type[s].cbFormat # 0 => /\ my_type[s].pbFormat \in 1..my_Blocks
                                  /\ h[my_type[s].pbFormat] = my_heap[my_type[s].pbFormat]
                                  /\ h[my_type[s].pbFormat] \in my_Formats
                                  /\ Len(h[my_type[s].pbFormat]) = my_type[s].cbFormat
    <2> SUFFICES ASSUME my_type[s].cbFormat # 0
                 PROVE  /\ my_type[s].pbFormat \in 1..my_Blocks
                        /\ h[my_type[s].pbFormat] = my_heap[my_type[s].pbFormat]
                        /\ h[my_type[s].pbFormat] \in my_Formats
                        /\ Len(h[my_type[s].pbFormat]) = my_type[s].cbFormat
      OBVIOUS
    <2>1. my_type[s].pbFormat \in 1..my_Blocks /\ MYHolds(s, my_type[s].pbFormat)
      BY <1>5 DEF MYWhole, MYHolds
    <2>2. ~MYHolds(t, my_type[s].pbFormat)
      BY <2>1 DEF MYOwn
    <2>3. h[my_type[s].pbFormat] = my_heap[my_type[s].pbFormat]
      BY <1>4, <2>1, <2>2
    <2>4. Len(h[my_type[s].pbFormat]) = my_type[s].cbFormat
      BY <1>5, <2>3 DEF MYWhole
    <2>5. h[my_type[s].pbFormat] # MY!Free
      BY <2>4, MYLengths
    <2> QED
      BY <1>1, <2>1, <2>3, <2>4, <2>5
  <1>7. /\ r \in MYRecord /\ r.is = k /\ r.formattype = my_type[s].formattype
        /\ r.pUnk = my_type[s].pUnk
        /\ r.cbFormat = c.fields.cbFormat /\ r.pbFormat = c.fields.pbFormat
    <2>1. c.fields \in MYRecord
      <3>1. CASE c.fields = my_type[s]
        BY <1>1, <3>1
      <3>2. CASE c.fields = [my_type[s] EXCEPT !.cbFormat = 0, !.pbFormat = MY!NULL]
        BY <1>1, <3>2, MYBlocks DEF MYRecord
      <3>3. CASE c.fields.pbFormat \in 1..my_Blocks
                 /\ c.fields = [my_type[s] EXCEPT !.pbFormat = c.fields.pbFormat]
        BY <1>1, <3>3, MYBlocks DEF MYRecord
      <3> QED
        BY <1>2, <3>1, <3>2, <3>3
    <2> QED
      BY <1>2, <2>1 DEF MYRecord
  <1>8. c.heap \in [1..my_Blocks -> my_Formats \cup {MY!Free}]
    BY <1>1, <1>2, <1>6
  <1>9. MYWhole(r, c.heap) /\ (r.cbFormat # 0 => h[r.pbFormat] = MY!Free)
    <2>1. CASE my_type[s].cbFormat = 0 /\ c.fields = my_type[s]
      BY <1>5, <1>7, <2>1 DEF MYWhole
    <2>2. CASE c.fields = [my_type[s] EXCEPT !.cbFormat = 0, !.pbFormat = MY!NULL]
      <3>1. c.fields.cbFormat = 0 /\ c.fields.pbFormat = MY!NULL
        BY <1>1, <2>2 DEF MYRecord
      <3> QED
        BY <1>7, <3>1 DEF MYWhole
    <2>3. CASE /\ my_type[s].cbFormat # 0 /\ c.fields.pbFormat \in 1..my_Blocks
               /\ h[c.fields.pbFormat] = MY!Free
               /\ c.fields = [my_type[s] EXCEPT !.pbFormat = c.fields.pbFormat]
               /\ c.heap = [h EXCEPT ![c.fields.pbFormat] = h[my_type[s].pbFormat]]
      <3>1. c.fields.cbFormat = my_type[s].cbFormat
        BY <1>1, <2>3 DEF MYRecord
      <3>2. c.heap[c.fields.pbFormat] = h[my_type[s].pbFormat]
        BY <1>1, <2>3
      <3> QED
        BY <1>6, <1>7, <2>3, <3>1, <3>2 DEF MYWhole
    <2> QED
      BY <1>2, <2>1, <2>2, <2>3
  <1>10. \A b \in 1..my_Blocks : r.cbFormat = 0 \/ b # r.pbFormat =>
            c.heap[b] = IF MYHolds(t, b) THEN MY!Free ELSE my_heap[b]
    <2>1. CASE c.heap = h
      BY <1>4, <2>1
    <2>2. CASE /\ my_type[s].cbFormat # 0 /\ c.fields.pbFormat \in 1..my_Blocks
               /\ c.fields = [my_type[s] EXCEPT !.pbFormat = c.fields.pbFormat]
               /\ c.heap = [h EXCEPT ![c.fields.pbFormat] = h[my_type[s].pbFormat]]
      <3>1. c.fields.cbFormat = my_type[s].cbFormat
        BY <1>1, <2>2 DEF MYRecord
      <3> QED
        BY <1>1, <1>4, <1>7, <2>2, <3>1
    <2> QED
      BY <1>2, <2>1, <2>2
  <1>11. r.cbFormat # 0 => my_heap[r.pbFormat] = MY!Free \/ MYHolds(t, r.pbFormat)
    BY <1>4, <1>9 DEF MYWhole
  <1>12. MYOwn'
    <2> HIDE DEF r, h
    <2> QED
      BY <1>3, <1>7, <1>8, <1>9, <1>10, <1>11, MYReplace DEF r
  <1>13. /\ my_m_cRef' \in Int /\ my_lost' \in Int
         /\ my_m_cRef' + my_lost' = my_m_cRef + my_lost + MY!One(r.pUnk) - MY!One(my_type[t].pUnk)
    <2>1. MY!One(r.pUnk) = MY!One(my_type[s].pUnk)
      BY <1>7
    <2>2. MY!One(my_type[s].pUnk) \in Int /\ MY!One(my_type[t].pUnk) \in Int
      BY DEF MY!One
    <2>3. my_m_cRef \in Int /\ my_lost \in Int
      BY DEF MYTypes
    <2> HIDE DEF r
    <2> QED
      <3>1. /\ c.taken \in Int /\ c.lost \in Int
            /\ c.taken + c.lost = MY!One(my_type[s].pUnk)
            /\ my_lost' = my_lost + c.lost
        BY <1>2, <1>3
      <3> QED
        BY <2>1, <2>2, <2>3, <3>1
  <1>14. MYRefs'
    <2> HIDE DEF r
    <2> QED
      BY <1>7, <1>13, MYCount DEF r
  <1>15. MYTypes'
    <2>1. my_type' \in [my_Types -> MYRecord]
      BY <1>7 DEF MYTypes
    <2> QED
      BY <1>3, <1>8, <1>13, <2>1 DEF MYTypes
  <1>16. MY!CopyIsEqual'
    <2> SUFFICES ASSUME c.ok # FALSE
                 PROVE  (MY!Equal(t, s) /\ my_type[t].pUnk = my_type[s].pUnk)'
      BY <1>3 DEF MY!CopyIsEqual, MY!MatchesPartial
    <2>1. my_type'[t] = r /\ my_type'[s] = my_type[s]
      BY DEF MYTypes
    <2>2. MY!Format(t)' = MY!Format(s)'
      <3>1. CASE my_type[s].cbFormat = 0 /\ c.fields = my_type[s]
        BY <1>7, <2>1, <3>1 DEF MY!Format
      <3>2. CASE /\ my_type[s].cbFormat # 0 /\ c.fields.pbFormat \in 1..my_Blocks
                 /\ h[c.fields.pbFormat] = MY!Free
                 /\ c.fields = [my_type[s] EXCEPT !.pbFormat = c.fields.pbFormat]
                 /\ c.heap = [h EXCEPT ![c.fields.pbFormat] = h[my_type[s].pbFormat]]
        <4>1. c.fields.cbFormat = my_type[s].cbFormat
          BY <1>1, <3>2 DEF MYRecord
        <4>2. c.heap[c.fields.pbFormat] = h[my_type[s].pbFormat]
          BY <1>1, <3>2
        <4>3. c.heap[my_type[s].pbFormat] = h[my_type[s].pbFormat]
          BY <1>1, <1>6, <3>2, <4>2
        <4> QED
          BY <1>3, <1>7, <2>1, <3>2, <4>1, <4>2, <4>3 DEF MY!Format
      <3> QED
        BY <1>2, <3>1, <3>2
    <2> QED
      BY <1>7, <2>1, <2>2 DEF MY!Equal
  <1> QED
    BY <1>12, <1>14, <1>15, <1>16 DEF MYInv

(* What every other step leaves: no copy is told of.                        *)
LEMMA MYChange ==
  ASSUME MYInv, NEW t \in my_Types, NEW r \in MYRecord, NEW h \in [1..my_Blocks -> my_Formats \cup {MY!Free}],
         MYWhole(r, h),
         r.cbFormat # 0 => my_heap[r.pbFormat] = MY!Free \/ MYHolds(t, r.pbFormat),
         \A b \in 1..my_Blocks : r.cbFormat = 0 \/ b # r.pbFormat =>
            h[b] = IF MYHolds(t, b) THEN MY!Free ELSE my_heap[b],
         my_type' = [my_type EXCEPT ![t] = r], my_heap' = h, my_lost' = my_lost, my_copied' = <<>>,
         my_m_cRef' = my_m_cRef + MY!One(r.pUnk) - MY!One(my_type[t].pUnk)
  PROVE  MYInv'
  <1>1. my_m_cRef' \in Int /\ my_lost' \in Int
        /\ my_m_cRef' + my_lost' = my_m_cRef + my_lost + MY!One(r.pUnk) - MY!One(my_type[t].pUnk)
    BY DEF MYInv, MYTypes, MY!One
  <1>2. MYTypes /\ MYOwn /\ MYRefs
    BY DEF MYInv
  <1>3. MYOwn'
    BY <1>2, MYReplace
  <1>4. MYRefs'
    BY <1>1, <1>2, MYCount
  <1>5. MYTypes'
    BY <1>1, <1>2 DEF MYTypes
  <1>6. MY!CopyIsEqual'
    BY DEF MY!CopyIsEqual
  <1> QED
    BY <1>3, <1>4, <1>5, <1>6 DEF MYInv

(* The block a type holds is its own, and a step may leave it where it is.  *)
LEMMA MYKeeps ==
  ASSUME MYTypes, MYOwn, NEW t \in my_Types, NEW r \in MYRecord,
         r.cbFormat = my_type[t].cbFormat, r.pbFormat = my_type[t].pbFormat, r.is = "unmade" => r = MY!Unmade
  PROVE  /\ MYWhole(r, my_heap)
         /\ r.cbFormat # 0 => my_heap[r.pbFormat] = MY!Free \/ MYHolds(t, r.pbFormat)
         /\ \A b \in 1..my_Blocks : r.cbFormat = 0 \/ b # r.pbFormat =>
              my_heap[b] = IF MYHolds(t, b) THEN MY!Free ELSE my_heap[b]
  BY DEF MYOwn, MYWhole, MYHolds

LEMMA MYStart == MY!Init => MYInv
  <1> SUFFICES ASSUME MY!Init
               PROVE  MYInv
    OBVIOUS
  <1> USE DEF MY!Init
  <1>1. MYTypes
    BY TypesAssumption DEF MYTypes, MYRecord, MY!Unmade, MY!Free, MY!NULL
  <1>2. MYOwn
    BY DEF MYOwn, MYWhole, MYHolds, MY!Unmade, MY!Free, MY!NULL
  <1>3. MYHolders = {}
    BY DEF MYHolders, MY!Unmade
  <1>4. MYRefs
    BY <1>3, FS_EmptySet DEF MYRefs
  <1> QED
    BY <1>1, <1>2, <1>4 DEF MYInv, MY!CopyIsEqual

LEMMA MYKinds ==
  ASSUME NEW t, NEW n, NEW old, NEW c \in MY!Buffers(t, n, old)
  PROVE  \/ c = MY!Same(t, n)
         \/ \E b \in MY!CoTaskMemAlloc(my_heap) \ {MY!NULL}, f \in MY!Fills(n, old) : c = MY!Fresh(t, b, f)
  <1> DEFINE B == IF my_type[t].cbFormat = n THEN {} ELSE MY!CoTaskMemAlloc(my_heap) \ {MY!NULL}
  <1>1. c \in {MY!Same(t, n)} \cup {MY!Fresh(t, b, f) : b \in B, f \in MY!Fills(n, old)}
    BY DEF MY!Buffers
  <1>2. B \subseteq MY!CoTaskMemAlloc(my_heap) \ {MY!NULL}
    OBVIOUS
  <1> HIDE DEF B
  <1>3. c = MY!Same(t, n) \/ \E b \in B, f \in MY!Fills(n, old) : c = MY!Fresh(t, b, f)
    BY <1>1
  <1> QED
    BY <1>2, <1>3

(* A buffer of another length: the old one, or a fresh one in its place.    *)
LEMMA MYBuffers ==
  ASSUME MYTypes, MYOwn, NEW t \in MY!Live, NEW n \in MY!Lengths, NEW old, NEW c \in MY!Buffers(t, n, old)
  PROVE  /\ c.fields \in MYRecord /\ c.fields.is = my_type[t].is
         /\ c.fields.pUnk = my_type[t].pUnk
         /\ c.heap \in [1..my_Blocks -> my_Formats \cup {MY!Free}]
         /\ MYWhole(c.fields, c.heap)
         /\ c.fields.cbFormat # 0 => my_heap[c.fields.pbFormat] = MY!Free \/ MYHolds(t, c.fields.pbFormat)
         /\ \A b \in 1..my_Blocks : c.fields.cbFormat = 0 \/ b # c.fields.pbFormat =>
              c.heap[b] = IF MYHolds(t, b) THEN MY!Free ELSE my_heap[b]
         /\ c.ok => n <= c.fields.cbFormat
  <1> DEFINE s == my_type[t]
  <1>0. /\ t \in my_Types /\ s \in MYRecord /\ s.is # "unmade"
        /\ my_heap \in [1..my_Blocks -> my_Formats \cup {MY!Free}] /\ n \in Nat \ {0}
    BY MYLengths DEF MY!Live, MYTypes
  <1>1. \/ c = MY!Same(t, n)
        \/ \E b \in MY!CoTaskMemAlloc(my_heap) \ {MY!NULL}, f \in MY!Fills(n, old) : c = MY!Fresh(t, b, f)
    <2>1. c \in MY!Buffers(t, n, old)
      OBVIOUS
    <2> QED
      BY <2>1, MYKinds
  <1>2. CASE c = MY!Same(t, n)
    <2>1. c.fields = s /\ c.heap = my_heap /\ (c.ok => n <= s.cbFormat)
      BY <1>2 DEF MY!Same
    <2>2. /\ MYWhole(s, my_heap)
          /\ s.cbFormat # 0 => my_heap[s.pbFormat] = MY!Free \/ MYHolds(t, s.pbFormat)
          /\ \A b \in 1..my_Blocks : s.cbFormat = 0 \/ b # s.pbFormat =>
               my_heap[b] = IF MYHolds(t, b) THEN MY!Free ELSE my_heap[b]
      BY <1>0, MYKeeps
    <2> HIDE DEF s
    <2> QED
      BY <1>0, <2>1, <2>2 DEF s
  <1>3. ASSUME NEW b \in MY!CoTaskMemAlloc(my_heap) \ {MY!NULL}, NEW f \in MY!Fills(n, old), c = MY!Fresh(t, b, f)
        PROVE  /\ c.fields \in MYRecord /\ c.fields.is = my_type[t].is
               /\ c.fields.pUnk = my_type[t].pUnk
               /\ c.heap \in [1..my_Blocks -> my_Formats \cup {MY!Free}]
               /\ MYWhole(c.fields, c.heap)
               /\ c.fields.cbFormat # 0 =>
                    my_heap[c.fields.pbFormat] = MY!Free \/ MYHolds(t, c.fields.pbFormat)
               /\ \A x \in 1..my_Blocks : c.fields.cbFormat = 0 \/ x # c.fields.pbFormat =>
                    c.heap[x] = IF MYHolds(t, x) THEN MY!Free ELSE my_heap[x]
               /\ c.ok => n <= c.fields.cbFormat
    <2>1. b \in 1..my_Blocks /\ my_heap[b] = MY!Free
      BY <1>0, MYAlloc
    <2>2. f \in my_Formats /\ Len(f) = n
      BY DEF MY!Fills
    <2>3. c.fields = [s EXCEPT !.cbFormat = n, !.pbFormat = b]
          /\ c.heap = MY!Freed([my_heap EXCEPT ![b] = f], t)
      BY <1>3, <2>2 DEF MY!Fresh
    <2>4. /\ c.fields \in MYRecord /\ c.fields.is = s.is /\ c.fields.pUnk = s.pUnk
          /\ c.fields.cbFormat = n /\ c.fields.pbFormat = b
      <3>1. n \in MY!Lengths \cup {0} /\ b \in 0..my_Blocks
        BY <2>1, MYBlocks
      <3> HIDE DEF s
      <3> QED
        BY <1>0, <2>3, <3>1 DEF MYRecord
    <2>5. ~MYHolds(t, b)
      BY <1>0, <2>1, MYLengths DEF MYOwn, MYWhole, MYHolds
    <2>6. s.cbFormat # 0 => s.pbFormat \in 1..my_Blocks /\ s.pbFormat # b
      BY <1>0, <2>5 DEF MYOwn, MYWhole, MYHolds
    <2>7. /\ c.heap \in [1..my_Blocks -> my_Formats \cup {MY!Free}] /\ c.heap[b] = f
          /\ \A x \in 1..my_Blocks : x # b => c.heap[x] = IF MYHolds(t, x) THEN MY!Free ELSE my_heap[x]
      <3>1. CASE s.cbFormat # 0
        <4>1. c.heap = [[my_heap EXCEPT ![b] = f] EXCEPT ![s.pbFormat] = MY!Free]
          BY <2>3, <3>1 DEF MY!Freed, MY!CoTaskMemFree
        <4> QED
          BY <1>0, <2>1, <2>2, <2>6, <3>1, <4>1 DEF MYHolds
      <3>2. CASE s.cbFormat = 0
        <4>1. c.heap = [my_heap EXCEPT ![b] = f]
          BY <2>3, <3>2 DEF MY!Freed
        <4> QED
          BY <1>0, <2>1, <2>2, <3>2, <4>1 DEF MYHolds
      <3> QED
        BY <3>1, <3>2
    <2>8. MYWhole(c.fields, c.heap)
      BY <1>0, <2>1, <2>2, <2>4, <2>7 DEF MYWhole
    <2> HIDE DEF s
    <2>9. n <= c.fields.cbFormat
      BY <1>0, <2>4
    <2> QED
      BY <1>0, <2>1, <2>4, <2>7, <2>8, <2>9 DEF s
  <1> QED
    <2>1. CASE c = MY!Same(t, n)
      BY <1>2, <2>1
    <2>2. CASE \E b \in MY!CoTaskMemAlloc(my_heap) \ {MY!NULL}, f \in MY!Fills(n, old) : c = MY!Fresh(t, b, f)
      BY <1>3, <2>2
    <2> HIDE DEF s
    <2> QED
      BY <1>1, <2>1, <2>2

(* The format in front of the old one is as long as the old one.            *)
LEMMA MYOverlay ==
  ASSUME NEW f \in my_Formats, NEW g \in my_Formats, Len(f) <= Len(g)
  PROVE  LET x == [i \in DOMAIN g |-> IF i <= Len(f) THEN f[i] ELSE g[i]]
         IN  x \in my_Formats /\ Len(x) = Len(g)
  <1> DEFINE x == [i \in DOMAIN g |-> IF i <= Len(f) THEN f[i] ELSE g[i]]
  <1>1. x \in my_Formats /\ x \in Seq(Int) /\ g \in Seq(Int)
    BY TypesAssumption
  <1>2. DOMAIN x = DOMAIN g
    OBVIOUS
  <1>3. DOMAIN x = 1..Len(x) /\ Len(x) \in Nat /\ DOMAIN g = 1..Len(g) /\ Len(g) \in Nat
    <2> HIDE DEF x
    <2> QED
      BY <1>1, LenProperties
  <1>4. Len(x) = Len(g)
    <2>1. 1..Len(x) = 1..Len(g)
      BY <1>2, <1>3
    <2> HIDE DEF x
    <2>2. Len(x) \in Nat /\ Len(g) \in Nat
      BY <1>3
    <2>3. Len(x) <= Len(g)
      <3>1. CASE Len(x) = 0
        BY <2>2, <3>1
      <3>2. CASE Len(x) # 0
        <4>1. Len(x) \in 1..Len(x)
          BY <2>2, <3>2
        <4> QED
          BY <2>1, <4>1
      <3> QED
        BY <3>1, <3>2
    <2>4. Len(g) <= Len(x)
      <3>1. CASE Len(g) = 0
        BY <2>2, <3>1
      <3>2. CASE Len(g) # 0
        <4>1. Len(g) \in 1..Len(g)
          BY <2>2, <3>2
        <4> QED
          BY <2>1, <4>1
      <3> QED
        BY <3>1, <3>2
    <2> QED
      BY <2>2, <2>3, <2>4
  <1> QED
    BY <1>1, <1>4

LEMMA MYStep == MYInv /\ [MY!Next]_(MY!vars) => MYInv'
  <1> SUFFICES ASSUME MYInv, [MY!Next]_(MY!vars)
               PROVE  MYInv'
    OBVIOUS
  <1>0. MYTypes /\ MYOwn /\ MYRefs
    BY DEF MYInv
  <1>a. \A t \in my_Types : my_type[t] \in MYRecord /\ MYWhole(my_type[t], my_heap)
    BY <1>0 DEF MYTypes, MYOwn
  <1>b. \A t \in my_Types : t \notin MY!Live => my_type[t] = MY!Unmade
    BY <1>a DEF MY!Live, MYWhole
  <1>c. my_heap \in [1..my_Blocks -> my_Formats \cup {MY!Free}] /\ my_m_cRef \in Int
        /\ my_lost \in Int
    BY <1>0 DEF MYTypes
  <1>d. \A x : MY!One(x) \in Int
    BY DEF MY!One
  <1>1. ASSUME NEW t \in my_Types, MY!Construct(t)
        PROVE  MYInv'
    <2>1. MY!Empty \in MYRecord /\ MY!Empty.cbFormat = 0 /\ MY!Empty.pbFormat = MY!NULL
          /\ MY!Empty.is # "unmade"
          /\ MY!Empty.pUnk = FALSE
      BY MYBlocks DEF MY!Empty, MY!Unmade, MYRecord
    <2>2. my_type[t] = MY!Unmade
      BY <1>1, <1>b DEF MY!Construct
    <2>3. MY!Empty.cbFormat = my_type[t].cbFormat
          /\ MY!Empty.pbFormat = my_type[t].pbFormat /\ MY!Empty.pUnk = my_type[t].pUnk
      BY <2>1, <2>2 DEF MY!Unmade, MY!Empty
    <2>4. my_m_cRef' = my_m_cRef + MY!One(MY!Empty.pUnk) - MY!One(my_type[t].pUnk)
      BY <1>1, <1>c, <1>d, <2>3 DEF MY!Construct
    <2>5. /\ MYWhole(MY!Empty, my_heap)
          /\ MY!Empty.cbFormat # 0 => my_heap[MY!Empty.pbFormat] = MY!Free \/ MYHolds(t, MY!Empty.pbFormat)
          /\ \A b \in 1..my_Blocks : MY!Empty.cbFormat = 0 \/ b # MY!Empty.pbFormat =>
               my_heap[b] = IF MYHolds(t, b) THEN MY!Free ELSE my_heap[b]
      BY <1>0, <2>1, <2>3, MYKeeps
    <2> QED
      BY <1>1, <1>c, <2>1, <2>4, <2>5, MYChange DEF MY!Construct, MY!Changes
  <1>2. ASSUME NEW t \in my_Types, MY!SetFormatType(t)
        PROVE  MYInv'
    <2>1. PICK f \in my_FormatTypes \cup {MY!GUID_NULL} : my_type' = [my_type EXCEPT ![t].formattype = f]
      BY <1>2 DEF MY!SetFormatType
    <2> DEFINE r == [my_type[t] EXCEPT !.formattype = f]
    <2>2. /\ r \in MYRecord /\ r.cbFormat = my_type[t].cbFormat
          /\ r.pbFormat = my_type[t].pbFormat
          /\ r.is # "unmade" /\ r.pUnk = my_type[t].pUnk
      BY <1>2, <1>a DEF MYRecord, MY!SetFormatType, MY!Live
    <2>3. my_type' = [my_type EXCEPT ![t] = r]
      BY <2>1
    <2>4. my_m_cRef' = my_m_cRef + MY!One(r.pUnk) - MY!One(my_type[t].pUnk)
      <3> HIDE DEF r
      <3> QED
        BY <1>2, <1>c, <1>d, <2>2 DEF MY!SetFormatType
    <2> HIDE DEF r
    <2>5. /\ MYWhole(r, my_heap)
          /\ r.cbFormat # 0 => my_heap[r.pbFormat] = MY!Free \/ MYHolds(t, r.pbFormat)
          /\ \A b \in 1..my_Blocks : r.cbFormat = 0 \/ b # r.pbFormat =>
               my_heap[b] = IF MYHolds(t, b) THEN MY!Free ELSE my_heap[b]
      BY <1>0, <2>2, MYKeeps
    <2> QED
      BY <1>2, <1>c, <2>2, <2>3, <2>4, <2>5, MYChange DEF MY!SetFormatType, MY!Changes
  <1>3. ASSUME NEW t \in my_Types, MY!SetUnknown(t)
        PROVE  MYInv'
    <2> DEFINE r == [my_type[t] EXCEPT !.pUnk = TRUE]
    <2>2. /\ r \in MYRecord /\ r.cbFormat = my_type[t].cbFormat
          /\ r.pbFormat = my_type[t].pbFormat
          /\ r.is # "unmade" /\ r.pUnk = TRUE /\ my_type[t].pUnk = FALSE
      BY <1>3, <1>a DEF MYRecord, MY!SetUnknown, MY!Live
    <2>3. my_type' = [my_type EXCEPT ![t] = r]
      BY <1>3 DEF MY!SetUnknown
    <2>4. my_m_cRef' = my_m_cRef + MY!One(r.pUnk) - MY!One(my_type[t].pUnk)
      <3>1. MY!One(r.pUnk) = 1 /\ MY!One(my_type[t].pUnk) = 0
        BY <2>2 DEF MY!One
      <3> HIDE DEF r
      <3> QED
        BY <1>3, <1>c, <3>1 DEF MY!SetUnknown
    <2> HIDE DEF r
    <2>5. /\ MYWhole(r, my_heap)
          /\ r.cbFormat # 0 => my_heap[r.pbFormat] = MY!Free \/ MYHolds(t, r.pbFormat)
          /\ \A b \in 1..my_Blocks : r.cbFormat = 0 \/ b # r.pbFormat =>
               my_heap[b] = IF MYHolds(t, b) THEN MY!Free ELSE my_heap[b]
      BY <1>0, <2>2, MYKeeps
    <2> QED
      BY <1>3, <1>c, <2>2, <2>3, <2>4, <2>5, MYChange DEF MY!SetUnknown, MY!Changes
  <1>4. ASSUME NEW t \in my_Types, MY!ReallocFormatBuffer(t)
        PROVE  MYInv'
    <2>1. t \in MY!Live /\ \E n \in MY!Lengths : \E c \in MY!Buffers(t, n, MY!Format(t)) :
            my_type' = [my_type EXCEPT ![t] = c.fields] /\ my_heap' = c.heap
      BY <1>4 DEF MY!ReallocFormatBuffer
    <2>n. PICK n \in MY!Lengths : \E c \in MY!Buffers(t, n, MY!Format(t)) :
            my_type' = [my_type EXCEPT ![t] = c.fields] /\ my_heap' = c.heap
      BY <2>1
    <2>2. PICK c \in MY!Buffers(t, n, MY!Format(t)) :
            my_type' = [my_type EXCEPT ![t] = c.fields] /\ my_heap' = c.heap
      BY <2>n
    <2>3. /\ c.fields \in MYRecord /\ c.fields.is = my_type[t].is
          /\ c.fields.pUnk = my_type[t].pUnk
          /\ c.heap \in [1..my_Blocks -> my_Formats \cup {MY!Free}]
          /\ MYWhole(c.fields, c.heap)
          /\ c.fields.cbFormat # 0 => my_heap[c.fields.pbFormat] = MY!Free \/ MYHolds(t, c.fields.pbFormat)
          /\ \A b \in 1..my_Blocks : c.fields.cbFormat = 0 \/ b # c.fields.pbFormat =>
               c.heap[b] = IF MYHolds(t, b) THEN MY!Free ELSE my_heap[b]
      BY <1>0, <2>1, MYBuffers
    <2>4. my_m_cRef' = my_m_cRef + MY!One(c.fields.pUnk) - MY!One(my_type[t].pUnk)
      BY <1>4, <1>c, <1>d, <2>3 DEF MY!ReallocFormatBuffer
    <2> QED
      BY <1>4, <2>2, <2>3, <2>4, MYChange DEF MY!ReallocFormatBuffer, MY!Changes
  <1>5. ASSUME NEW t \in my_Types, MY!SetFormat(t)
        PROVE  MYInv'
    <2>1. t \in MY!Live /\ \E f \in my_Formats : \E c \in MY!Buffers(t, Len(f), MY!Free) :
       /\ my_type' = [my_type EXCEPT ![t] = c.fields]
       /\ my_heap' = IF c.ok
                       THEN [c.heap EXCEPT ![c.fields.pbFormat] =
                               [i \in DOMAIN @ |-> IF i <= Len(f) THEN f[i] ELSE @[i]]]
                       ELSE my_heap
      BY <1>5 DEF MY!SetFormat, MY!AllocFormatBuffer
    <2>f. PICK f \in my_Formats : \E c \in MY!Buffers(t, Len(f), MY!Free) :
       /\ my_type' = [my_type EXCEPT ![t] = c.fields]
       /\ my_heap' = IF c.ok
                       THEN [c.heap EXCEPT ![c.fields.pbFormat] =
                               [i \in DOMAIN @ |-> IF i <= Len(f) THEN f[i] ELSE @[i]]]
                       ELSE my_heap
      BY <2>1
    <2>2. PICK c \in MY!Buffers(t, Len(f), MY!Free) :
       /\ my_type' = [my_type EXCEPT ![t] = c.fields]
       /\ my_heap' = IF c.ok
                       THEN [c.heap EXCEPT ![c.fields.pbFormat] =
                               [i \in DOMAIN @ |-> IF i <= Len(f) THEN f[i] ELSE @[i]]]
                       ELSE my_heap
      BY <2>f
    <2> DEFINE r == c.fields
               g == c.heap[r.pbFormat]
    <2>3. /\ r \in MYRecord /\ r.is = my_type[t].is /\ r.pUnk = my_type[t].pUnk
          /\ c.heap \in [1..my_Blocks -> my_Formats \cup {MY!Free}]
          /\ MYWhole(r, c.heap)
          /\ r.cbFormat # 0 => my_heap[r.pbFormat] = MY!Free \/ MYHolds(t, r.pbFormat)
          /\ \A b \in 1..my_Blocks : r.cbFormat = 0 \/ b # r.pbFormat =>
               c.heap[b] = IF MYHolds(t, b) THEN MY!Free ELSE my_heap[b]
          /\ c.ok => Len(f) <= r.cbFormat
      BY <1>0, <2>1, MYBuffers, MYLengths
    <2>4. my_m_cRef' = my_m_cRef + MY!One(r.pUnk) - MY!One(my_type[t].pUnk)
      BY <1>5, <1>c, <1>d, <2>3 DEF MY!SetFormat
    <2>5. CASE c.ok
      <3> DEFINE x == [i \in DOMAIN g |-> IF i <= Len(f) THEN f[i] ELSE g[i]]
                 h == [c.heap EXCEPT ![r.pbFormat] = x]
      <3>1. r.cbFormat # 0
        BY <2>3, <2>5, MYLengths
      <3>2. r.pbFormat \in 1..my_Blocks /\ Len(g) = r.cbFormat
        BY <2>3, <3>1 DEF MYWhole
      <3>3. g \in my_Formats
        BY <2>3, <3>1, <3>2, MYLengths
      <3>4. x \in my_Formats /\ Len(x) = Len(g)
        BY <2>3, <2>5, <3>2, <3>3, MYOverlay
      <3>5. my_heap' = h
        BY <2>2, <2>5
      <3> HIDE DEF x, g, r
      <3>6. h \in [1..my_Blocks -> my_Formats \cup {MY!Free}] /\ h[r.pbFormat] = x
        BY <2>3, <3>2, <3>4
      <3>7. MYWhole(r, h)
        <4> HIDE DEF h
        <4> QED
          BY <2>3, <3>1, <3>2, <3>4, <3>6 DEF MYWhole
      <3>8. \A b \in 1..my_Blocks : b # r.pbFormat => h[b] = c.heap[b]
        BY <2>3
      <3>9. \A b \in 1..my_Blocks : r.cbFormat = 0 \/ b # r.pbFormat =>
               h[b] = IF MYHolds(t, b) THEN MY!Free ELSE my_heap[b]
        <4> HIDE DEF h
        <4> QED
          BY <2>3, <3>1, <3>8
      <3>10. my_type' = [my_type EXCEPT ![t] = r]
        BY <2>2 DEF r
      <3> HIDE DEF h
      <3> QED
        BY <1>5, <2>3, <2>4, <3>5, <3>6, <3>7, <3>9, <3>10, MYChange
           DEF MY!SetFormat, MY!Changes
    <2>6. CASE ~c.ok
      <3>1. r = my_type[t]
        <4>1. CASE c = MY!Same(t, Len(f))
          BY <4>1 DEF MY!Same
        <4>2. CASE \E b \in MY!CoTaskMemAlloc(my_heap) \ {MY!NULL}, k \in MY!Fills(Len(f), MY!Free) : c = MY!Fresh(t, b, k)
          BY <2>6, <4>2 DEF MY!Fresh
        <4> HIDE DEF r
        <4>3. c \in MY!Buffers(t, Len(f), MY!Free)
          OBVIOUS
        <4>4. \/ c = MY!Same(t, Len(f))
              \/ \E b \in MY!CoTaskMemAlloc(my_heap) \ {MY!NULL}, k \in MY!Fills(Len(f), MY!Free) : c = MY!Fresh(t, b, k)
          BY <4>3, MYKinds
        <4> QED
          BY <4>1, <4>2, <4>4
      <3>2. my_heap' = my_heap /\ my_type' = [my_type EXCEPT ![t] = r]
        BY <2>2, <2>6
      <3>3. r.is = "unmade" => r = MY!Unmade
        BY <2>3 DEF MYWhole
      <3> HIDE DEF r
      <3>4. /\ MYWhole(r, my_heap)
            /\ r.cbFormat # 0 => my_heap[r.pbFormat] = MY!Free \/ MYHolds(t, r.pbFormat)
            /\ \A b \in 1..my_Blocks : r.cbFormat = 0 \/ b # r.pbFormat =>
                 my_heap[b] = IF MYHolds(t, b) THEN MY!Free ELSE my_heap[b]
        BY <1>0, <2>3, <3>1, <3>3, MYKeeps
      <3> QED
        BY <1>5, <1>c, <2>3, <2>4, <3>2, <3>4, MYChange DEF MY!SetFormat, MY!Changes
    <2> QED
      BY <2>5, <2>6
  <1>6. ASSUME NEW t \in my_Types, MY!ResetFormatBuffer(t)
        PROVE  MYInv'
    <2> DEFINE r == [my_type[t] EXCEPT !.cbFormat = 0, !.pbFormat = MY!NULL]
               h == MY!Freed(my_heap, t)
    <2>1. my_type' = [my_type EXCEPT ![t] = r] /\ my_heap' = h
      <3>1. my_type' = [my_type EXCEPT ![t].cbFormat = 0, ![t].pbFormat = MY!NULL]
        BY <1>6 DEF MY!ResetFormatBuffer
      <3> QED
        BY <1>6, <1>0, <3>1 DEF MY!ResetFormatBuffer, MYTypes
    <2>2. /\ r \in MYRecord /\ r.cbFormat = 0 /\ r.pbFormat = MY!NULL
          /\ r.is # "unmade" /\ r.pUnk = my_type[t].pUnk
      <3>1. my_type[t] \in MYRecord /\ my_type[t].is # "unmade"
        BY <1>6, <1>a DEF MY!ResetFormatBuffer, MY!Live
      <3> QED
        BY <3>1, MYBlocks DEF MYRecord
    <2>3. /\ h \in [1..my_Blocks -> my_Formats \cup {MY!Free}]
          /\ \A b \in 1..my_Blocks : h[b] = IF MYHolds(t, b) THEN MY!Free ELSE my_heap[b]
      BY <1>0, MYFreed
    <2> HIDE DEF r, h
    <2>4. my_m_cRef' = my_m_cRef + MY!One(r.pUnk) - MY!One(my_type[t].pUnk)
      BY <1>6, <1>c, <1>d, <2>2 DEF MY!ResetFormatBuffer
    <2>5. MYWhole(r, h)
      BY <2>2 DEF MYWhole
    <2> QED
      BY <1>6, <2>1, <2>2, <2>3, <2>4, <2>5, MYChange
         DEF MY!ResetFormatBuffer, MY!Changes
  <1>7. ASSUME NEW t \in my_Types, NEW gone \in BOOLEAN, MY!FreeMediaType(t, gone)
        PROVE  MYInv'
    <2> DEFINE r == IF gone THEN MY!Unmade
                    ELSE [my_type[t] EXCEPT !.cbFormat = 0, !.pbFormat = MY!NULL, !.pUnk = FALSE]
               h == MY!Freed(my_heap, t)
    <2>1. my_type' = [my_type EXCEPT ![t] = r] /\ my_heap' = h
      BY <1>7 DEF MY!FreeMediaType
    <2>2. /\ r \in MYRecord /\ r.cbFormat = 0 /\ r.pbFormat = MY!NULL
          /\ r.is = "unmade" => r = MY!Unmade
          /\ r.pUnk = FALSE
      <3>1. CASE gone
        BY <3>1, MYBlocks DEF MYRecord, MY!Unmade
      <3>2. CASE ~gone
        <4>1. my_type[t] \in MYRecord /\ my_type[t].is # "unmade"
          BY <1>7, <1>a DEF MY!FreeMediaType, MY!Live
        <4> QED
          BY <3>2, <4>1, MYBlocks DEF MYRecord
      <3> QED
        BY <3>1, <3>2
    <2>3. /\ h \in [1..my_Blocks -> my_Formats \cup {MY!Free}]
          /\ \A b \in 1..my_Blocks : h[b] = IF MYHolds(t, b) THEN MY!Free ELSE my_heap[b]
      BY <1>0, MYFreed
    <2> HIDE DEF r, h
    <2>4. my_m_cRef' = my_m_cRef + MY!One(r.pUnk) - MY!One(my_type[t].pUnk)
      <3>1. MY!One(r.pUnk) = 0
        BY <2>2 DEF MY!One
      <3> QED
        BY <1>7, <1>c, <1>d, <3>1 DEF MY!FreeMediaType
    <2>5. MYWhole(r, h)
      BY <2>2 DEF MYWhole
    <2> QED
      BY <1>7, <2>1, <2>2, <2>3, <2>4, <2>5, MYChange DEF MY!FreeMediaType, MY!Changes
  <1>8. ASSUME NEW t \in my_Types, NEW s \in my_Types, MY!Set(t, s)
        PROVE  MYInv'
    <2>1. PICK c \in MY!CopyMediaType(MY!Freed(my_heap, t), my_type[s]) :
            /\ my_type' = [my_type EXCEPT ![t] = [c.fields EXCEPT !.is = my_type[t].is]]
            /\ MY!Copies(t, s, c)
            /\ my_m_cRef' = my_m_cRef - MY!One(my_type[t].pUnk) + c.taken
      BY <1>8 DEF MY!Set
    <2>2. t # s /\ s \in MY!Live /\ my_type[t].is \in {"object", "created"}
      BY <1>8, <1>a DEF MY!Set, MY!Live, MYRecord
    <2> QED
      BY <1>0, <2>1, <2>2, MYCopy
  <1>9. ASSUME NEW t \in my_Types, NEW s \in my_Types, MY!ConstructCopy(t, s) \/ MY!CreateMediaType(t, s)
        PROVE  MYInv'
    <2>1. PICK k \in {"object", "created"}, c \in MY!CopyMediaType(my_heap, my_type[s]) :
            /\ my_type' = [my_type EXCEPT ![t] = [c.fields EXCEPT !.is = k]]
            /\ MY!Copies(t, s, c) /\ my_m_cRef' = my_m_cRef + c.taken
      BY <1>9 DEF MY!ConstructCopy, MY!CreateMediaType
    <2>2. my_type[t] = MY!Unmade /\ s \in MY!Live /\ t # s
      BY <1>9, <1>b DEF MY!ConstructCopy, MY!CreateMediaType
    <2>3. MY!Freed(my_heap, t) = my_heap /\ MY!One(my_type[t].pUnk) = 0
      BY <2>2 DEF MY!Freed, MY!Unmade, MY!One
    <2>4. c.taken \in Int
      <3>1. MYOutcome(my_heap, my_type[s], c)
        BY <1>a, <1>c, MYForms
      <3> QED
        BY <3>1 DEF MYOutcome
    <2>5. my_m_cRef' = my_m_cRef - MY!One(my_type[t].pUnk) + c.taken
      BY <1>c, <2>1, <2>3, <2>4
    <2> QED
      BY <1>0, <2>1, <2>2, <2>3, <2>5, MYCopy
  <1>10. CASE UNCHANGED MY!vars
    <2>1. MYTypes' /\ MYRefs'
      BY <1>0, <1>10 DEF MY!vars, MYTypes, MYRefs, MYHolders
    <2>2. MYOwn'
      BY <1>0, <1>10 DEF MY!vars, MYOwn, MYHolds
    <2>3. MY!CopyIsEqual'
      BY <1>10
         DEF MY!vars, MYInv, MY!CopyIsEqual, MY!Equal, MY!MatchesPartial, MY!Format
    <2> QED
      BY <2>1, <2>2, <2>3 DEF MYInv
  <1> QED
    BY <1>1, <1>2, <1>3, <1>4, <1>5, <1>6, <1>7, <1>8, <1>9, <1>10 DEF MY!Next

LEMMA MYCardinality == \A S : MY!Cardinality(S) = Cardinality(S)
  BY DEF MY!Cardinality, Cardinality

LEMMA MYSafe == MYInv => MY!TypeOK /\ MY!OwnsItsFormat /\ MY!ReferencesHeld /\ MY!CopyIsEqual
  <1> SUFFICES ASSUME MYInv
               PROVE  MY!TypeOK /\ MY!OwnsItsFormat /\ MY!ReferencesHeld
    BY DEF MYInv
  <1>0. MYTypes /\ MYOwn /\ MYRefs
    BY DEF MYInv
  <1>1. MY!TypeOK
    BY <1>0 DEF MYTypes, MYRecord, MY!TypeOK
  <1>2. MY!ReferencesHeld
    <2>1. {t \in MY!Live : my_type[t].pUnk} = MYHolders
      BY <1>0 DEF MYHolders, MY!Live, MYOwn, MYWhole, MY!Unmade
    <2> QED
      BY <1>0, <2>1, MYCardinality DEF MYRefs, MY!ReferencesHeld
  <1>3. \A t \in my_Types : IF my_type[t].cbFormat = 0 THEN my_type[t].pbFormat = MY!NULL
                            ELSE Len(my_heap[my_type[t].pbFormat]) = my_type[t].cbFormat
    BY <1>0 DEF MYOwn, MYWhole
  <1>4. ASSUME NEW b \in DOMAIN my_heap
        PROVE  Cardinality({t \in my_Types : my_type[t].cbFormat # 0 /\ my_type[t].pbFormat = b}) =
                 (IF my_heap[b] = MY!Free THEN 0 ELSE 1)
    <2> DEFINE S == {t \in my_Types : my_type[t].cbFormat # 0 /\ my_type[t].pbFormat = b}
    <2>1. b \in 1..my_Blocks
      BY <1>0 DEF MYTypes
    <2>2. CASE my_heap[b] = MY!Free
      <3>1. S = {}
        BY <1>0, <2>2, MYLengths DEF MYOwn, MYWhole
      <3> QED
        BY <2>2, <3>1, FS_EmptySet
    <2>3. CASE my_heap[b] # MY!Free
      <3>1. PICK t \in my_Types : MYHolds(t, b)
        BY <1>0, <2>1, <2>3 DEF MYOwn
      <3>2. S = {t}
        BY <1>0, <2>1, <3>1 DEF MYOwn, MYHolds
      <3>3. Cardinality({t}) = 1
        BY FS_Singleton
      <3> QED
        BY <2>3, <3>2, <3>3
    <2> QED
      BY <2>2, <2>3
  <1> QED
    BY <1>1, <1>2, <1>3, <1>4, MYCardinality DEF MY!OwnsItsFormat

(* Induction over the naturals, for a set: the least number outside of it  *)
(* does not exist.                                                         *)
LEMMA NatInd ==
  ASSUME NEW S, 0 \in S, \A n \in Nat : n \in S => n + 1 \in S
  PROVE  Nat \subseteq S
  <1> DEFINE T == Nat \ S
             R == OpToRel(<, Nat)
  <1>1. SUFFICES ASSUME T # {} PROVE FALSE
    OBVIOUS
  <1>2. IsWellFoundedOn(R, Nat)
    BY NatLessThanWellFounded
  <1>3. T \subseteq Nat
    OBVIOUS
  <1>4. PICK x \in T : \A y \in T : ~ (<<y, x>> \in R)
    <2> HIDE DEF T, R
    <2> QED BY <1>1, <1>2, <1>3, WFMin
  <1>5. x \in Nat /\ x # 0 /\ x - 1 \in Nat
    OBVIOUS
  <1>6. <<x - 1, x>> \in R
    BY <1>5 DEF OpToRel
  <1>7. x - 1 \in S
    BY <1>4, <1>5, <1>6
  <1> QED
    BY <1>5, <1>7

-----------------------------------------------------------------------------
(***************************************************************************)
(* Arithmetic.  The halves of a 64 bit number and the long multiplication of*)
(* two of them (MDPair, MDSum); the division bit by bit, which keeps what was*)
(* divided and what remains (MDKept); and what either function answers.    *)
(***************************************************************************)

(* Where n steps T lead from a, one after the other.                       *)
Leads(f, a, T, n) == f[0] = a /\ \A i \in 1..n : f[i] = T[f[i - 1]]

LEMMA MDSteps ==
  ASSUME NEW A, NEW a \in A, NEW T \in [A -> A], NEW m \in Nat
  PROVE  \E f \in [0..m -> A] : Leads(f, a, T, m)
  <1> DEFINE Steps(f, n) == Leads(f, a, T, n)
             P == {n \in Nat : \E f \in [0..n -> A] : Steps(f, n)}
  <1>1. 0 \in P
    <2> DEFINE f == [i \in 0..0 |-> a]
    <2>1. f \in [0..0 -> A] /\ Steps(f, 0)
      BY DEF Leads
    <2> QED
      BY <2>1
  <1>2. ASSUME NEW n \in Nat, n \in P PROVE n + 1 \in P
    <2>1. PICK f \in [0..n -> A] : Steps(f, n)
      BY <1>2
    <2> DEFINE g == [i \in 0..n + 1 |-> IF i = n + 1 THEN T[f[n]] ELSE f[i]]
    <2>2. g \in [0..n + 1 -> A]
      BY <2>1
    <2>3. Steps(g, n + 1)
      BY <2>1 DEF Leads
    <2> HIDE DEF g, Steps
    <2> QED
      BY <2>2, <2>3
  <1> HIDE DEF P
  <1>3. m \in P
    BY <1>1, <1>2, NatInd
  <1> QED
    BY <1>3 DEF P

LEMMA MDPowers ==
  /\ MD!Power \in [0 .. 2 * md_Width -> Nat \ {0}]
  /\ MD!Power[0] = 1 /\ \A n \in 1 .. 2 * md_Width : MD!Power[n] = 2 * MD!Power[n - 1]
  <1> DEFINE A == Nat \ {0}
             T == [k \in A |-> 2 * k]
             m == 2 * md_Width
             one == 1
  <1>1. m \in Nat /\ T \in [A -> A] /\ one \in A
    BY ArithmeticAssumption
  <1>2. PICK f \in [0..m -> A] : Leads(f, one, T, m)
    <2> HIDE DEF A, T, m, one
    <2> QED
      BY <1>1, MDSteps
  <1> HIDE DEF m
  <1>3. f = [n \in 0..m |-> IF n = 0 THEN 1 ELSE 2 * f[n - 1]]
    <2>1. ASSUME NEW i \in 1..m PROVE f[i] = 2 * f[i - 1]
      <3>1. i - 1 \in 0..m
        BY <1>1, <2>1
      <3> QED
        BY <1>2, <3>1 DEF Leads
    <2>2. f[0] = 1
      BY <1>2 DEF Leads
    <2> HIDE DEF T, A
    <2> QED
      BY <1>2, <2>1, <2>2
  <1>4. MD!Power = [n \in 0..m |-> IF n = 0 THEN 1 ELSE 2 * MD!Power[n - 1]]
    BY <1>3 DEF MD!Power, m
  <1> HIDE DEF T
  <1>5. \A n \in Nat : n \in 0..m => MD!Power[n] \in Nat \ {0}
    <2> DEFINE P == {n \in Nat : n \in 0..m => MD!Power[n] \in Nat \ {0}}
    <2>1. 0 \in P
      BY <1>1, <1>4
    <2>2. ASSUME NEW n \in Nat, n \in P PROVE n + 1 \in P
      <3>1. SUFFICES ASSUME n + 1 \in 0..m PROVE MD!Power[n + 1] \in Nat \ {0}
        BY <2>2
      <3>2. MD!Power[n] \in Nat \ {0}
        BY <1>1, <2>2, <3>1
      <3>3. MD!Power[n + 1] = 2 * MD!Power[n]
        BY <1>1, <1>4, <3>1
      <3> QED
        BY <3>2, <3>3
    <2> HIDE DEF P
    <2>3. Nat \subseteq P
      BY <2>1, <2>2, NatInd
    <2> QED
      BY <2>3 DEF P
  <1>6. \A n \in 1..m : MD!Power[n] = 2 * MD!Power[n - 1]
    BY <1>1, <1>4
  <1>7. MD!Power[0] = 1
    BY <1>1, <1>4
  <1>8. MD!Power \in [0..m -> Nat \ {0}]
    BY <1>1, <1>4, <1>5
  <1> QED
    BY <1>6, <1>7, <1>8 DEF m

(* Division with remainder.                                                *)
LEMMA MDParts ==
  ASSUME NEW w \in Nat \ {0}, NEW n \in Int, NEW q, q = n \div w, NEW r, r = n % w
  PROVE  q \in Int /\ r \in 0 .. w - 1 /\ n = w * q + r
  <1>1. n = w * q + r
    OBVIOUS
  <1>2. q \in Int
    OBVIOUS
  <1>3. r \in 0 .. w - 1
    OBVIOUS
  <1> QED
    BY <1>1, <1>2, <1>3

LEMMA MDDivide ==
  ASSUME NEW w \in Nat \ {0}, NEW n \in Int
  PROVE  \E q \in Int, r \in 0 .. w - 1 : q = n \div w /\ r = n % w /\ n = w * q + r
  <1> DEFINE q == n \div w
             r == n % w
  <1>1. q = n \div w /\ r = n % w
    OBVIOUS
  <1> HIDE DEF q, r
  <1>2. q \in Int /\ r \in 0 .. w - 1 /\ n = w * q + r
    BY <1>1, MDParts
  <1> QED
    BY <1>1, <1>2

LEMMA MDUnique ==
  ASSUME NEW w \in Nat \ {0}, NEW q \in Int, NEW r \in 0 .. w - 1, NEW n \in Int,
         n = w * q + r
  PROVE  n \div w = q /\ n % w = r
  OBVIOUS

(* A word is even, and two of them are a double one.                       *)
MDHalf == MD!Word \div 2
MDMost == MD!Word * MDHalf

LEMMA MDWords ==
  /\ MD!Word \in Nat \ {0} /\ MDHalf \in Nat \ {0} /\ MD!Word = 2 * MDHalf
  /\ MD!Double = MD!Word * MD!Word /\ MD!Double \in Nat
  /\ MD!Power[2 * md_Width] = MD!Double
  /\ MDMost \in Nat \ {0} /\ MD!Double \div 2 = MDMost /\ MD!Double = 2 * MDMost
  <1>1. md_Width \in Nat \ {0} /\ md_Width \in 0 .. 2 * md_Width
    BY ArithmeticAssumption
  <1>2. MD!Word \in Nat \ {0}
    BY <1>1, MDPowers DEF MD!Word
  <1>3. MD!Word = 2 * MD!Power[md_Width - 1] /\ MD!Power[md_Width - 1] \in Nat \ {0}
    <2>1. md_Width \in 1 .. 2 * md_Width /\ md_Width - 1 \in 0 .. 2 * md_Width
      BY <1>1
    <2>2. MD!Power[md_Width] = 2 * MD!Power[md_Width - 1]
      BY <2>1, MDPowers
    <2>3. MD!Power[md_Width - 1] \in Nat \ {0}
      BY <2>1, MDPowers
    <2> QED
      BY <2>2, <2>3 DEF MD!Word
  <1>4. \A n \in Nat : n \in 0..md_Width => MD!Power[md_Width + n] = MD!Word * MD!Power[n]
    <2> DEFINE P == {n \in Nat : n \in 0..md_Width => MD!Power[md_Width + n] = MD!Word * MD!Power[n]}
    <2>1. 0 \in P
      BY <1>1, <1>2, MDPowers DEF MD!Word
    <2>2. ASSUME NEW n \in Nat, n \in P PROVE n + 1 \in P
      <3>1. SUFFICES ASSUME n + 1 \in 0..md_Width PROVE MD!Power[md_Width + (n + 1)] = MD!Word * MD!Power[n + 1]
        BY <2>2
      <3>2. MD!Power[md_Width + n] = MD!Word * MD!Power[n]
        BY <1>1, <2>2, <3>1
      <3>3. MD!Power[md_Width + (n + 1)] = 2 * MD!Power[md_Width + n]
        BY <1>1, <3>1, MDPowers
      <3>4. MD!Power[n + 1] = 2 * MD!Power[n] /\ MD!Power[n] \in Nat
        <4>1. n + 1 \in 1 .. 2 * md_Width /\ n \in 0 .. 2 * md_Width /\ (n + 1) - 1 = n
          BY <1>1, <3>1
        <4>2. MD!Power[n + 1] = 2 * MD!Power[(n + 1) - 1]
          BY <4>1, MDPowers
        <4>3. MD!Power[n] \in Nat
          BY <4>1, MDPowers
        <4> QED
          BY <4>1, <4>2, <4>3
      <3>5. \A w, k \in Nat : 2 * (w * k) = w * (2 * k)
        OBVIOUS
      <3> QED
        BY <1>2, <3>2, <3>3, <3>4, <3>5
    <2> HIDE DEF P
    <2>3. Nat \subseteq P
      BY <2>1, <2>2, NatInd
    <2> QED
      BY <2>3 DEF P
  <1>5. MD!Power[2 * md_Width] = MD!Word * MD!Word
    <2>1. MD!Power[md_Width + md_Width] = MD!Word * MD!Power[md_Width]
          /\ md_Width + md_Width = 2 * md_Width
      BY <1>1, <1>4
    <2> QED
      BY <2>1 DEF MD!Word
  <1> DEFINE v == MD!Power[md_Width - 1]
  <1>6. v \in Nat \ {0} /\ MD!Word = 2 * v
    BY <1>3
  <1> HIDE DEF v
  <1>7. MDHalf = v
    BY <1>6 DEF MDHalf
  <1>8. \A u, w \in Nat \ {0} : w = 2 * u =>
          w * u \in Nat \ {0} /\ w * w = 2 * (w * u) /\ w * w \in Nat
    OBVIOUS
  <1>9. MDMost \in Nat \ {0} /\ MD!Double = 2 * MDMost /\ MD!Double \in Nat
    BY <1>2, <1>6, <1>7, <1>8 DEF MDMost, MD!Double
  <1>10. MD!Double \div 2 = MDMost
    BY <1>9
  <1> QED
    BY <1>2, <1>5, <1>6, <1>7, <1>9, <1>10 DEF MD!Double

LEMMA MDLess ==
  ASSUME NEW w \in Nat \ {0}, NEW j \in Int, NEW k \in Int
  PROVE  w * j < w * k => j < k
  <1> SUFFICES ASSUME j >= k PROVE w * j >= w * k
    OBVIOUS
  <1>1. w * (j - k) \in Nat
    OBVIOUS
  <1> QED
    BY <1>1

LEMMA MDTimes ==
  ASSUME NEW a \in Nat, NEW b \in Nat, NEW c \in Nat, NEW d \in Nat, a <= c, b <= d
  PROVE  a * b \in Nat /\ a * b <= c * d
  <1>1. a * b \in Nat /\ (c - a) * b \in Nat /\ c * (d - b) \in Nat
    OBVIOUS
  <1>2. c * d = a * b + (c - a) * b + c * (d - b)
    OBVIOUS
  <1> QED
    BY <1>1, <1>2

(* The two words of a number, and how far the upper one goes.              *)
LEMMA MDTwoWords ==
  ASSUME NEW n \in Nat
  PROVE  /\ MD!Low(n) \in 0 .. MD!Word - 1 /\ MD!High(n) \in Nat
         /\ n = MD!Word * MD!High(n) + MD!Low(n)
         /\ \A k \in Nat : n < MD!Word * k => MD!High(n) < k
         /\ \A k \in Nat : n <= MD!Word * k => MD!High(n) <= k
  <1>1. PICK q \in Int, r \in 0 .. MD!Word - 1 :
          q = n \div MD!Word /\ r = n % MD!Word /\ n = MD!Word * q + r
    BY MDDivide, MDWords
  <1>2. MD!Low(n) = r /\ MD!High(n) = q
    BY <1>1 DEF MD!Low, MD!High
  <1>3. \A w \in Nat \ {0} : \A k \in Int : w * k > -w => k >= 0
    <2> SUFFICES ASSUME NEW w \in Nat \ {0}, NEW k \in Int, k <= -1 PROVE w * k <= -w
      OBVIOUS
    <2>1. w * (-1 - k) \in Nat
      OBVIOUS
    <2> QED
      BY <2>1
  <1> DEFINE w == MD!Word
  <1>4. w \in Nat \ {0} /\ r \in 0 .. w - 1 /\ n = w * q + r
    BY <1>1, MDWords
  <1> HIDE DEF w
  <1>5. q >= 0
    BY <1>3, <1>4
  <1>6. ASSUME NEW k \in Nat, n < w * k PROVE q < k
    <2>1. w * (k - q) > 0
      BY <1>4, <1>6
    <2>2. k - q >= 0
      BY <1>3, <1>4, <2>1
    <2> QED
      BY <1>4, <1>6, <2>2
  <1>7. ASSUME NEW k \in Nat, n <= w * k PROVE q <= k
    <2>1. w * (k - q) >= 0
      BY <1>4, <1>7
    <2>2. k - q >= 0
      BY <1>3, <1>4, <2>1
    <2> QED
      BY <2>2
  <1> QED
    BY <1>2, <1>4, <1>5, <1>6, <1>7 DEF w

(* Multiplication word by word.                                            *)
LEMMA MDLong ==
  ASSUME NEW w \in Nat, NEW hx \in Nat, NEW lx \in Nat, NEW hy \in Nat, NEW ly \in Nat,
         NEW lh \in Nat, NEW ll \in Nat, NEW mh \in Nat, NEW ml \in Nat,
         lx * ly = w * lh + ll, lx * hy + hx * ly + lh = w * mh + ml
  PROVE  (w * hx + lx) * (w * hy + ly) = (w * w) * (hx * hy + mh) + (w * ml + ll)
  <1>1. (w * hx + lx) * (w * hy + ly)
          = (w * w) * (hx * hy) + w * (lx * hy + hx * ly) + lx * ly
    OBVIOUS
  <1>2. w * (lx * hy + hx * ly + lh) = w * (w * mh + ml)
    OBVIOUS
  <1>3. w * (lx * hy + hx * ly) = w * (w * mh + ml) - w * lh
    BY <1>2
  <1> QED
    BY <1>1, <1>3

MDNumber(p) == p[1] + MD!Double * p[2]
MDPair == (0 .. MD!Double - 1) \X (0 .. MD!Double - 1)

LEMMA MDProduct ==
  ASSUME NEW x \in 0 .. MDMost, NEW y \in 0 .. MDMost
  PROVE  MD!Product(x, y) \in MDPair /\ MDNumber(MD!Product(x, y)) = x * y
  <1> DEFINE w == MD!Word
             v == MDHalf
             lx == MD!Low(x)
             hx == MD!High(x)
             ly == MD!Low(y)
             hy == MD!High(y)
             low == lx * ly
             ll == MD!Low(low)
             lh == MD!High(low)
             middle == lx * hy + hx * ly + lh
             ml == MD!Low(middle)
             mh == MD!High(middle)
  <1>1. w \in Nat /\ v \in Nat \ {0} /\ w = 2 * v /\ MDMost = w * v
        /\ x \in Nat /\ y \in Nat /\ x <= w * v /\ y <= w * v
    BY MDWords DEF MDMost
  <1>2. /\ lx \in 0 .. w - 1 /\ hx \in 0..v /\ x = w * hx + lx
        /\ ly \in 0 .. w - 1 /\ hy \in 0..v /\ y = w * hy + ly
    <2> HIDE DEF v, lx, hx, ly, hy
    <2> QED
      BY <1>1, MDTwoWords DEF lx, hx, ly, hy
  <1> HIDE DEF w, v, lx, hx, ly, hy
  <1>3. low \in Nat /\ low < w * w
    <2>1. low \in Nat /\ low <= (w - 1) * (w - 1)
      BY <1>1, <1>2, MDTimes
    <2>2. (w - 1) * (w - 1) = w * w - 2 * w + 1
      BY <1>1
    <2> QED
      BY <1>1, <2>1, <2>2
  <1> HIDE DEF low
  <1>4. ll \in 0 .. w - 1 /\ lh \in 0 .. w - 1 /\ low = w * lh + ll
    BY <1>1, <1>3, MDTwoWords DEF w
  <1> HIDE DEF ll, lh
  <1>5. middle \in Nat /\ middle < w * w
    <2>1. lx * hy \in Nat /\ lx * hy <= (w - 1) * v
      BY <1>1, <1>2, MDTimes
    <2>2. hx * ly \in Nat /\ hx * ly <= v * (w - 1)
      BY <1>1, <1>2, MDTimes
    <2>3. (w - 1) * v + v * (w - 1) + w - 1 = w * w - 1
      BY <1>1
    <2> DEFINE a == lx * hy
               b == hx * ly
               c == (w - 1) * v
               d == v * (w - 1)
               e == w * w
    <2>4. a \in Nat /\ b \in Nat /\ c \in Int /\ d \in Int /\ e \in Int /\ a <= c /\ b <= d
          /\ c + d + w - 1 = e - 1
      BY <1>1, <2>1, <2>2, <2>3
    <2> HIDE DEF a, b, c, d, e
    <2>5. a + b + lh \in Nat /\ a + b + lh < e
      BY <1>1, <1>4, <2>4
    <2> QED
      BY <2>5 DEF a, b, e
  <1> HIDE DEF middle
  <1>6. ml \in 0 .. w - 1 /\ mh \in 0 .. w - 1 /\ middle = w * mh + ml
    BY <1>1, <1>5, MDTwoWords DEF w
  <1> HIDE DEF ml, mh
  <1>7. middle % MD!Double = middle
    <2>1. middle \in 0 .. MD!Double - 1 /\ MD!Double \in Nat \ {0}
      BY <1>1, <1>5, MDWords DEF w
    <2> QED
      BY <2>1
  <1>8. hx * hy + mh \in 0 .. MD!Double - 1
    <2>1. hx * hy \in Nat /\ hx * hy <= v * v
      BY <1>1, <1>2, MDTimes
    <2>2. v * v >= v /\ w * w = 4 * (v * v)
      BY <1>1
    <2> DEFINE a == hx * hy
               b == v * v
               e == w * w
    <2>3. a \in Nat /\ a <= b /\ b \in Int /\ b >= v /\ e = 4 * b
      BY <1>1, <2>1, <2>2
    <2>4. MD!Double = e
      BY MDWords DEF w
    <2> HIDE DEF a, b, e
    <2>5. a + mh \in 0 .. MD!Double - 1
      BY <1>1, <1>6, <2>3, <2>4
    <2> QED
      BY <2>5 DEF a
  <1>9. ml * w + ll = w * ml + ll /\ w * ml + ll \in 0 .. MD!Double - 1
    <2>1. w * ml \in Nat /\ w * ml <= w * (w - 1) /\ ml * w = w * ml
      BY <1>1, <1>6, MDTimes
    <2>2. w * (w - 1) + w = w * w
      BY <1>1
    <2> DEFINE a == w * ml
               b == w * (w - 1)
               e == w * w
    <2>3. a \in Nat /\ a <= b /\ b \in Int /\ b + w = e /\ ml * w = a
      BY <1>1, <2>1, <2>2
    <2>4. MD!Double = e
      BY MDWords DEF w
    <2> HIDE DEF a, b, e
    <2>5. ml * w + ll = a + ll /\ a + ll \in 0 .. MD!Double - 1
      BY <1>1, <1>4, <2>3, <2>4
    <2> QED
      BY <2>5 DEF a
  <1> DEFINE p1 == w * ml + ll
             p2 == hx * hy + mh
  <1>10. MD!Product(x, y) = <<p1, p2>>
    <2>1. p2 % MD!Double = p2
      <3> HIDE DEF p2
      <3>1. p2 \in 0 .. MD!Double - 1 /\ MD!Double \in Nat \ {0}
        BY <1>8, MDWords DEF p2
      <3> QED
        BY <3>1
    <2>2. MD!Join(MD!Low(middle), MD!Low(low)) = p1
      BY <1>9 DEF MD!Join, ml, ll, w
    <2>3. MD!Product(x, y) = <<MD!Join(MD!Low(middle % MD!Double), MD!Low(low)), (hx * hy + MD!High(middle % MD!Double)) % MD!Double>>
      BY DEF MD!Product, middle, lh, low, hx, hy, lx, ly
    <2> QED
      BY <1>7, <2>1, <2>2, <2>3 DEF mh
  <1>11. x * y = (w * w) * p2 + p1
    BY <1>1, <1>2, <1>4, <1>6, MDLong DEF low, middle
  <1>12. MD!Double = w * w
    BY MDWords DEF w
  <1>13. p1 \in 0 .. MD!Double - 1 /\ p2 \in 0 .. MD!Double - 1
    BY <1>8, <1>9
  <1> HIDE DEF p1, p2
  <1> QED
    BY <1>10, <1>11, <1>12, <1>13 DEF MDNumber, MDPair
(* Addition: a carry out of the upper LONGLONG is lost.                    *)
LEMMA MDAdd ==
  ASSUME NEW p \in MDPair, NEW q \in MDPair
  PROVE  /\ MD!Sum(p, q) \in MDPair
         /\ \E k \in 0 .. 1 :
              MDNumber(p) + MDNumber(q) = MDNumber(MD!Sum(p, q)) + k * (MD!Double * MD!Double)
  <1> DEFINE w == MD!Word
             D == MD!Double
             p1 == p[1]
             p2 == p[2]
             q1 == q[1]
             q2 == q[2]
             lp == MD!Low(p1)
             hp == MD!High(p1)
             lq == MD!Low(q1)
             hq == MD!High(q1)
             first == lp + lq
             fl == MD!Low(first)
             fh == MD!High(first)
             second == hp + hq + fh
             sl == MD!Low(second)
             sh == MD!High(second)
             s1 == w * sl + fl
             top == p2 + q2 + sh
  <1>1. w \in Nat \ {0} /\ D \in Nat \ {0} /\ D = w * w
    BY MDWords
  <1>2. p1 \in 0 .. D - 1 /\ p2 \in 0 .. D - 1 /\ q1 \in 0 .. D - 1 /\ q2 \in 0 .. D - 1
    BY DEF MDPair
  <1> HIDE DEF p1, p2, q1, q2
  <1>3. lp \in 0 .. w - 1 /\ hp \in Nat /\ p1 = w * hp + lp
    <2>1. p1 \in Nat
      BY <1>1, <1>2
    <2> QED
      BY <2>1, MDTwoWords
  <1>4. lq \in 0 .. w - 1 /\ hq \in Nat /\ q1 = w * hq + lq
    <2>1. q1 \in Nat
      BY <1>1, <1>2
    <2> QED
      BY <2>1, MDTwoWords
  <1> HIDE DEF w, D, lp, hp, lq, hq
  <1>5. fl \in 0 .. w - 1 /\ fh \in Nat /\ first = w * fh + fl
    <2>1. first \in Nat
      BY <1>1, <1>3, <1>4
    <2> HIDE DEF first
    <2> QED
      BY <2>1, MDTwoWords DEF w
  <1> HIDE DEF fl, fh
  <1>6. sl \in 0 .. w - 1 /\ sh \in Nat /\ second = w * sh + sl
    <2>1. second \in Nat
      BY <1>1, <1>3, <1>4, <1>5
    <2> HIDE DEF second
    <2> QED
      BY <2>1, MDTwoWords DEF w
  <1> HIDE DEF sl, sh
  <1>7. p1 + q1 = D * sh + s1
    <2>1. p1 + q1 = w * (w * sh + sl) + fl
      <3>1. p1 + q1 = w * (hp + hq) + first
        BY <1>1, <1>3, <1>4
      <3>2. p1 + q1 = w * (hp + hq) + (w * fh + fl)
        BY <1>5, <3>1
      <3>3. p1 + q1 = w * second + fl
        BY <1>1, <1>3, <1>4, <1>5, <3>2
      <3> QED
        BY <1>6, <3>3
    <2> QED
      BY <1>1, <1>5, <1>6, <2>1
  <1>8. sl * w + fl = s1 /\ s1 \in 0 .. D - 1
    <2>1. w * sl \in Nat /\ w * sl <= w * (w - 1) /\ sl * w = w * sl
      BY <1>1, <1>6, MDTimes
    <2>2. w * (w - 1) + w = w * w
      BY <1>1
    <2> DEFINE a == w * sl
               b == w * (w - 1)
               e == w * w
    <2>3. a \in Nat /\ a <= b /\ b \in Int /\ b + w = e /\ sl * w = a /\ D = e
      BY <1>1, <2>1, <2>2
    <2> HIDE DEF a, b, e
    <2>4. sl * w + fl = a + fl /\ a + fl \in 0 .. D - 1
      BY <1>1, <1>5, <2>3
    <2> QED
      BY <2>4 DEF a
  <1> HIDE DEF s1
  <1>9. sh \in 0 .. 1
    <2>1. D * sh < D * 2
      BY <1>1, <1>2, <1>6, <1>7, <1>8
    <2>2. sh < 2
      BY <1>1, <1>6, <2>1, MDLess
    <2> QED
      BY <1>6, <2>2
  <1>10. PICK k \in 0 .. 1, r \in 0 .. D - 1 : r = top % D /\ top = D * k + r
    <2>1. top \in Nat /\ top < 2 * D
      BY <1>1, <1>2, <1>9
    <2> HIDE DEF top
    <2>2. PICK k \in Int, r \in 0 .. D - 1 : k = top \div D /\ r = top % D
          /\ top = D * k + r
      BY <1>1, <2>1, MDDivide
    <2>3. k \in 0 .. 1
      <3>1. D * (-1) < D * k /\ D * k < D * 2
        BY <1>1, <2>1, <2>2
      <3>2. -1 < k /\ k < 2
        BY <1>1, <2>2, <3>1, MDLess
      <3> QED
        BY <2>2, <3>2
    <2> QED
      BY <2>2, <2>3
  <1>11. MD!Sum(p, q) = <<s1, r>>
    <2>1. MD!Sum(p, q) = <<MD!Join(MD!Low(second), MD!Low(first)), (p[2] + q[2] + MD!High(second)) % MD!Double>>
      BY DEF MD!Sum, second, fh, first, lp, lq, hp, hq, p1, q1
    <2>2. MD!Join(MD!Low(second), MD!Low(first)) = s1
      BY <1>8 DEF MD!Join, sl, fl, w
    <2>3. (p[2] + q[2] + MD!High(second)) % MD!Double = r
      BY <1>10 DEF sh, p2, q2, D
    <2> QED
      BY <2>1, <2>2, <2>3
  <1>12. (p1 + D * p2) + (q1 + D * q2) = (s1 + D * r) + k * (D * D)
    <2>1. (p1 + D * p2) + (q1 + D * q2) = s1 + D * top
      BY <1>1, <1>2, <1>6, <1>7, <1>8
    <2>2. D * top = D * (D * k + r)
      BY <1>10
    <2> QED
      BY <1>1, <1>8, <1>10, <2>1, <2>2
  <1> QED
    BY <1>8, <1>10, <1>11, <1>12 DEF MDNumber, MDPair, p1, p2, q1, q2, D
LEMMA MDNegated ==
  ASSUME NEW p \in MDPair, MDNumber(p) > 0
  PROVE  MD!Negated(p) \in MDPair
         /\ MDNumber(MD!Negated(p)) = MD!Double * MD!Double - MDNumber(p)
  <1> DEFINE D == MD!Double
             p1 == p[1]
             p2 == p[2]
             low == (D - p1) % D
             high == (D - 1 - p2 + IF low = 0 THEN 1 ELSE 0) % D
  <1>1. D \in Nat \ {0}
    BY MDWords
  <1>2. p1 \in 0 .. D - 1 /\ p2 \in 0 .. D - 1 /\ p1 + D * p2 > 0
    BY DEF MDPair, MDNumber
  <1>3. MD!Negated(p) = <<low, high>>
    BY DEF MD!Negated
  <1> HIDE DEF D, p1, p2
  <1>4. CASE p1 = 0
    <2>1. low = 0
      BY <1>1, <1>4
    <2>2. p2 # 0
      BY <1>1, <1>2, <1>4
    <2>3. high = D - p2
      <3>1. high = (D - 1 - p2 + 1) % D
        BY <2>1
      <3>2. D - 1 - p2 + 1 \in 0 .. D - 1 /\ D - 1 - p2 + 1 = D - p2
        BY <1>1, <1>2, <2>2
      <3> QED
        BY <1>1, <3>1, <3>2
    <2>4. 0 + D * (D - p2) = D * D - (p1 + D * p2)
      BY <1>1, <1>2, <1>4
    <2>5. D - p2 \in 0 .. D - 1 /\ 0 \in 0 .. D - 1
      BY <1>1, <1>2, <2>2
    <2> HIDE DEF low, high
    <2> QED
      BY <1>3, <2>1, <2>3, <2>4, <2>5 DEF MDNumber, MDPair, D, p1, p2
  <1>5. CASE p1 # 0
    <2>1. low = D - p1 /\ D - p1 \in 1 .. D - 1
      <3>1. D - p1 \in 1 .. D - 1
        BY <1>1, <1>2, <1>5
      <3> QED
        BY <1>1, <3>1
    <2>2. high = D - 1 - p2
      <3> DEFINE n == D - 1 - p2
      <3>1. low # 0
        BY <2>1
      <3> HIDE DEF low
      <3>2. high = (n + 0) % D
        BY <3>1
      <3>3. n \in 0 .. D - 1
        BY <1>1, <1>2
      <3> HIDE DEF n, high
      <3>4. high = n
        BY <1>1, <3>2, <3>3
      <3> QED
        BY <3>4 DEF n
    <2>3. (D - p1) + D * (D - 1 - p2) = D * D - (p1 + D * p2)
      BY <1>1, <1>2
    <2>4. D - 1 - p2 \in 0 .. D - 1 /\ D - p1 \in 0 .. D - 1
      BY <1>1, <1>2, <2>1
    <2> HIDE DEF low, high
    <2> QED
      BY <1>3, <2>1, <2>2, <2>3, <2>4 DEF MDNumber, MDPair, D, p1, p2
  <1> QED
    BY <1>4, <1>5

LEMMA MDBelow ==
  ASSUME NEW w \in Nat \ {0}, NEW n \in Int, -w <= n, n < 0
  PROVE  n % w = n + w
  <1> DEFINE r == n + w
             q == -1
  <1>1. r \in 0 .. w - 1 /\ q \in Int /\ n = w * q + r
    OBVIOUS
  <1> HIDE DEF q, r
  <1>2. n % w = r
    BY <1>1, MDUnique
  <1> QED
    BY <1>2 DEF r

LEMMA MDExtended ==
  ASSUME NEW d \in MD!LongLongs, NEW negative \in BOOLEAN,
         NEW s, s = IF negative THEN -d ELSE d
  PROVE  /\ s \in -MDMost .. MDMost
         /\ MD!Extended(d, negative) \in MDPair
         /\ s >= 0 => MDNumber(MD!Extended(d, negative)) = s
         /\ s < 0 => MDNumber(MD!Extended(d, negative)) = MD!Double * MD!Double + s
  <1> DEFINE D == MD!Double
             M == MDMost
  <1>1. M \in Nat \ {0} /\ D = 2 * M /\ D \in Nat \ {0}
    BY MDWords
  <1>2. d \in -M .. M - 1
    BY MDWords DEF MD!LongLongs
  <1> HIDE DEF D, M
  <1>3. s \in -M .. M
    BY <1>1, <1>2
  <1>4. MD!Extended(d, negative) = <<s % D, IF s < 0 THEN D - 1 ELSE 0>>
    BY DEF MD!Extended, D
  <1>5. CASE s >= 0
    <2>1. s \in 0 .. D - 1
      BY <1>1, <1>3, <1>5
    <2>2. s % D = s
      BY <1>1, <2>1
    <2>3. MD!Extended(d, negative) = <<s, 0>>
      BY <1>3, <1>4, <1>5, <2>2
    <2>4. s + D * 0 = s /\ 0 \in 0 .. D - 1
      BY <1>1, <1>3
    <2> QED
      BY <1>3, <1>5, <2>1, <2>3, <2>4 DEF MDNumber, MDPair, D, M
  <1>6. CASE s < 0
    <2>1. s + D \in 0 .. D - 1 /\ s = D * (-1) + (s + D)
      BY <1>1, <1>3, <1>6
    <2>2. s % D = s + D
      <3>1. s \in Int /\ -D <= s /\ s < 0
        BY <1>1, <1>3, <1>6
      <3> QED
        BY <1>1, <3>1, MDBelow
    <2>3. MD!Extended(d, negative) = <<s + D, D - 1>>
      BY <1>3, <1>4, <1>6, <2>2
    <2>4. (s + D) + D * (D - 1) = D * D + s /\ D - 1 \in 0 .. D - 1
      BY <1>1, <1>3
    <2> QED
      BY <1>3, <1>6, <2>1, <2>3, <2>4 DEF MDNumber, MDPair, D, M
  <1> QED
    BY <1>3, <1>5, <1>6
(* The sum of a product and an addend: its absolute value and its sign.    *)
LEMMA MDUpper ==
  ASSUME NEW M \in Nat, M >= 2, NEW s1 \in Nat, NEW s2 \in Nat, s1 < 2 * M
  PROVE  /\ s1 + (2 * M) * s2 <= M * M + M => s2 < M
         /\ s1 + (2 * M) * s2 >= (2 * M) * (2 * M) - M => s2 >= M
  <1>1. ASSUME s2 >= M PROVE s1 + (2 * M) * s2 > M * M + M
    <2>1. (2 * M) * s2 >= (2 * M) * M
      <3>1. (2 * M) * (s2 - M) \in Nat
        BY <1>1
      <3> QED
        BY <3>1
    <2>2. M * M >= 2 * M
      <3>1. M * (M - 2) \in Nat
        OBVIOUS
      <3> QED
        BY <3>1
    <2> DEFINE a == (2 * M) * s2
               b == M * M
    <2>3. a \in Int /\ b \in Int /\ a >= 2 * b /\ b >= 2 * M
      BY <2>1, <2>2
    <2> HIDE DEF a, b
    <2>4. s1 + a > b + M
      BY <2>3
    <2> QED
      BY <2>4 DEF a, b
  <1>2. ASSUME s2 < M PROVE s1 + (2 * M) * s2 < (2 * M) * (2 * M) - M
    <2>1. (2 * M) * s2 <= (2 * M) * (M - 1)
      <3>1. (2 * M) * ((M - 1) - s2) \in Nat
        BY <1>2
      <3> QED
        BY <3>1
    <2>2. M * M >= 2 * M
      <3>1. M * (M - 2) \in Nat
        OBVIOUS
      <3> QED
        BY <3>1
    <2> DEFINE a == (2 * M) * s2
               b == M * M
    <2>3. a \in Int /\ b \in Int /\ a <= 2 * b - 2 * M /\ b >= 2 * M
          /\ (2 * M) * (2 * M) = 4 * b
      BY <2>1, <2>2
    <2> HIDE DEF a, b
    <2>4. s1 + a < 4 * b - M
      BY <2>3
    <2> QED
      BY <2>3, <2>4 DEF a
  <1>3. s1 + (2 * M) * s2 \in Nat /\ M * M + M \in Nat /\ (2 * M) * (2 * M) - M \in Int
    OBVIOUS
  <1> QED
    BY <1>1, <1>2, <1>3

Signed(n, negative) == IF negative THEN -n ELSE n

LEMMA MDTotal ==
  ASSUME NEW p \in MDPair, MDNumber(p) <= MDMost * MDMost,
         NEW d \in MD!LongLongs, NEW negative \in BOOLEAN,
         NEW t, t = MD!Total(p, d, negative)
  PROVE  /\ t[1] \in MDPair /\ t[2] \in BOOLEAN
         /\ Signed(MDNumber(t[1]), t[2]) = Signed(MDNumber(p), negative) + d
  <1> DEFINE D == MD!Double
             M == MDMost
             m == MDNumber(p)
             s == IF negative THEN -d ELSE d
             e == MD!Extended(d, negative)
             sum == MD!Sum(p, e)
             n == MDNumber(sum)
             v == m + s
  <1>1. M \in Nat /\ M >= 2 /\ D = 2 * M /\ D \in Nat \ {0}
    <2>1. \A w \in Nat : \A h \in Nat \ {0} : w = 2 * h => w * h >= 2
      OBVIOUS
    <2> QED
      BY <2>1, MDWords DEF MDMost
  <1>2. s \in -M .. M /\ e \in MDPair /\ (s >= 0 => MDNumber(e) = s)
        /\ (s < 0 => MDNumber(e) = D * D + s)
    <2>1. s = IF negative THEN -d ELSE d
      OBVIOUS
    <2> HIDE DEF s
    <2> QED
      BY <2>1, MDExtended
  <1>3. d \in Int
    BY MDWords DEF MD!LongLongs
  <1>4. m \in 0 .. M * M
    <2>1. p[1] \in Nat /\ p[2] \in Nat
      BY <1>1 DEF MDPair
    <2>2. MDNumber(p) \in Nat
      BY <1>1, <2>1 DEF MDNumber
    <2>3. M * M \in Nat
      BY <1>1
    <2> QED
      BY <2>2, <2>3
  <1>5. PICK k \in 0 .. 1 : m + MDNumber(e) = n + k * (D * D)
    <2> HIDE DEF e
    <2> QED
      BY <1>2, MDAdd
  <1>6. sum \in MDPair
    <2> HIDE DEF e
    <2> QED
      BY <1>2, MDAdd
  <1> DEFINE s1 == sum[1]
             s2 == sum[2]
  <1>7. s1 \in 0 .. D - 1 /\ s2 \in 0 .. D - 1 /\ n = s1 + D * s2
    <2> HIDE DEF sum
    <2> QED
      BY <1>6 DEF MDPair, MDNumber
  <1>8. t = IF d = 0 THEN <<p, negative>>
            ELSE IF s2 >= D \div 2 THEN <<MD!Negated(sum), ~negative>> ELSE <<sum, negative>>
    BY DEF MD!Total
  <1>9. D \div 2 = M
    BY MDWords
  <1>10. Signed(v, negative) = Signed(m, negative) + d
    <2>1. v = m + (IF negative THEN -d ELSE d) /\ m \in Int
      BY <1>4
    <2> HIDE DEF m, v
    <2> QED
      BY <1>3, <2>1 DEF Signed
  <1>11. d = 0 => v = m
    <2>1. d = 0 => -d = 0
      <3>1. \A i \in Int : i >= 0 /\ i <= 0 => -i = 0
        OBVIOUS
      <3>2. d = 0 => d >= 0 /\ d <= 0
        OBVIOUS
      <3> QED
        BY <1>3, <3>1, <3>2, Zenon
    <2>2. d = 0 => s = 0
      BY <2>1, Zenon
    <2> HIDE DEF m, s
    <2> QED
      BY <1>4, <2>2
  <1> DEFINE mm == M * M
             dd == D * D
  <1>12. mm \in Nat /\ dd = 4 * mm /\ mm >= 2 * M
    <2>1. M * (M - 2) \in Nat
      BY <1>1
    <2> QED
      BY <1>1, <2>1
  <1>13. n \in 0 .. dd - 1
    <2>1. D * s2 \in Nat /\ D * s2 <= D * (D - 1)
      BY <1>1, <1>7, MDTimes
    <2>2. D * (D - 1) = dd - D
      BY <1>1
    <2> DEFINE a == D * s2
    <2>3. a \in Nat /\ a <= dd - D /\ n = s1 + a
      BY <1>7, <2>1, <2>2
    <2> HIDE DEF a, n, s1, s2, dd, D
    <2> QED
      BY <1>1, <1>7, <1>12, <2>3
  <1> HIDE DEF D, M, m, s, e, sum, n, v, mm, s1, s2
  <1>14. k * dd = IF k = 0 THEN 0 ELSE dd
    <2> HIDE DEF dd
    <2> QED
      BY <1>5, <1>12
  <1>15. n = IF v < 0 THEN dd + v ELSE v
    <2>1. m + MDNumber(e) = n + IF k = 0 THEN 0 ELSE dd
      BY <1>5, <1>14
    <2>2. s >= 0 => MDNumber(e) = s
      BY <1>2
    <2>3. s < 0 => MDNumber(e) = dd + s
      BY <1>2
    <2>4. v = m + s /\ s \in -M .. M /\ m \in 0 .. mm
      BY <1>2, <1>4 DEF v, mm
    <2> HIDE DEF dd
    <2> QED
      BY <1>1, <1>5, <1>12, <1>13, <2>1, <2>2, <2>3, <2>4
  <1>16. v \in -M .. mm + M
    <2>1. v = m + s /\ s \in -M .. M /\ m \in 0 .. mm
      BY <1>2, <1>4 DEF v, mm
    <2> QED
      BY <1>1, <1>12, <2>1
  <1>17. CASE d = 0
    <2>1. t = <<p, negative>>
      BY <1>8, <1>17
    <2> QED
      BY <1>10, <1>11, <1>17, <2>1 DEF m
  <1>18. CASE d # 0 /\ v < 0
    <2>1. s2 >= M
      <3>1. s1 + D * s2 >= dd - M
        <4> HIDE DEF dd
        <4> QED
          BY <1>1, <1>7, <1>12, <1>15, <1>16, <1>18
      <3>2. s1 + (2 * M) * s2 >= (2 * M) * (2 * M) - M
        BY <1>1, <3>1
      <3> QED
        BY <1>1, <1>7, <3>2, MDUpper
    <2>2. t = <<MD!Negated(sum), ~negative>>
      BY <1>1, <1>7, <1>8, <1>9, <1>18, <2>1
    <2>3. n > 0
      <3> HIDE DEF dd
      <3> QED
        BY <1>1, <1>12, <1>15, <1>16, <1>18
    <2>4. MD!Negated(sum) \in MDPair /\ MDNumber(MD!Negated(sum)) = dd - n
      BY <1>6, <2>3, MDNegated DEF n, D
    <2>5. dd - n = -v
      <3> HIDE DEF dd
      <3> QED
        BY <1>1, <1>12, <1>15, <1>16, <1>18
    <2>6. Signed(-v, ~negative) = Signed(v, negative)
      BY <1>1, <1>12, <1>16 DEF Signed
    <2> QED
      BY <1>10, <2>2, <2>4, <2>5, <2>6 DEF m
  <1>19. CASE d # 0 /\ v >= 0
    <2>1. s2 < M
      <3>1. s1 + D * s2 <= mm + M
        <4> HIDE DEF dd
        <4> QED
          BY <1>1, <1>7, <1>12, <1>15, <1>16, <1>19
      <3>2. s1 + (2 * M) * s2 <= M * M + M
        BY <1>1, <3>1 DEF mm
      <3> QED
        BY <1>1, <1>7, <3>2, MDUpper
    <2>2. t = <<sum, negative>>
      BY <1>1, <1>7, <1>8, <1>9, <1>19, <2>1
    <2>3. n = v
      <3> HIDE DEF dd
      <3> QED
        BY <1>1, <1>12, <1>15, <1>16, <1>19
    <2> QED
      BY <1>6, <1>10, <2>2, <2>3 DEF m, n
  <1> QED
    BY <1>1, <1>12, <1>16, <1>17, <1>18, <1>19
(* The quotient of a number of less than c double words fits one.          *)
LEMMA MDFits ==
  ASSUME NEW D \in Nat \ {0}, NEW c \in Nat \ {0}, NEW n \in Nat, NEW q, q = n \div c
  PROVE  /\ q \in Nat
         /\ n < D * c => q < D
         /\ n >= D * c => q >= D
  <1>1. PICK k \in Int, r \in 0 .. c - 1 : k = n \div c /\ r = n % c /\ n = c * k + r
    BY MDDivide
  <1>2. q = k
    BY <1>1
  <1>3. c * (-1) < c * k
    BY <1>1
  <1>4. -1 < k
    BY <1>1, <1>3, MDLess
  <1>5. ASSUME n < D * c PROVE k < D
    <2>1. c * k < c * D
      BY <1>1, <1>5
    <2> QED
      BY <1>1, <2>1, MDLess
  <1>6. ASSUME n >= D * c PROVE k >= D
    <2> DEFINE j == k + 1
    <2>1. c * D < c * j
      BY <1>1, <1>6
    <2>2. j \in Int
      BY <1>1
    <2> HIDE DEF j
    <2>3. D < j
      BY <2>1, <2>2, MDLess
    <2> QED
      BY <1>1, <2>3 DEF j
  <1> QED
    BY <1>1, <1>2, <1>4, <1>5, <1>6

LEMMA MDNumberOf ==
  ASSUME NEW p \in MDPair, NEW c \in Nat
  PROVE  /\ MDNumber(p) \in Nat
         /\ p[2] < c => MDNumber(p) < MD!Double * c
         /\ p[2] >= c => MDNumber(p) >= MD!Double * c
  <1> DEFINE D == MD!Double
             p1 == p[1]
             p2 == p[2]
             a == D * p2
  <1>1. D \in Nat \ {0}
    BY MDWords
  <1>2. p1 \in 0 .. D - 1 /\ p2 \in 0 .. D - 1
    BY DEF MDPair
  <1>3. MDNumber(p) = p1 + a
    BY DEF MDNumber
  <1> HIDE DEF D, p1, p2
  <1>4. a \in Nat
    BY <1>1, <1>2
  <1>5. p2 < c => a <= D * c - D
    <2> SUFFICES ASSUME p2 < c PROVE a <= D * c - D
      OBVIOUS
    <2>1. D * (c - 1 - p2) \in Nat
      BY <1>1, <1>2
    <2> QED
      BY <1>1, <1>2, <2>1
  <1>6. p2 >= c => a >= D * c
    <2> SUFFICES ASSUME p2 >= c PROVE a >= D * c
      OBVIOUS
    <2>1. D * (p2 - c) \in Nat
      BY <1>1, <1>2
    <2> QED
      BY <1>1, <1>2, <2>1
  <1> DEFINE b == D * c
  <1>7. b \in Int
    BY <1>1
  <1> HIDE DEF a, b
  <1>8. /\ p1 + a \in Nat
        /\ p2 < c => p1 + a < b
        /\ p2 >= c => p1 + a >= b
    BY <1>1, <1>2, <1>4, <1>5, <1>6, <1>7 DEF b
  <1> QED
    BY <1>3, <1>8 DEF b, p2, D

(* Division word by word.                                                  *)
LEMMA MDTwoSteps ==
  ASSUME NEW w \in Nat \ {0}, NEW c \in Nat \ {0}, NEW u \in Nat, NEW l \in 0 .. w - 1,
         NEW q1 \in Nat, NEW r1 \in 0 .. c - 1, u = c * q1 + r1,
         NEW q2 \in Nat, NEW r2 \in 0 .. c - 1, w * r1 + l = c * q2 + r2
  PROVE  q2 < w /\ w * u + l = c * (w * q1 + q2) + r2
  <1>1. c * q2 < c * w
    <2>1. w * (c - 1 - r1) \in Nat
      OBVIOUS
    <2> QED
      BY <2>1
  <1>2. w * u = w * (c * q1 + r1)
    OBVIOUS
  <1>3. w * u + l = c * (w * q1) + (c * q2 + r2)
    BY <1>2
  <1> QED
    BY <1>1, <1>3, MDLess

MDSplit(q1, q2, w, c, u, l) ==
  /\ q1 = u \div c
  /\ q2 = ((u % c) * w + l) \div c
  /\ (w * u + l) \div c = w * q1 + q2

LEMMA MDDivided ==
  ASSUME NEW w \in Nat \ {0}, NEW c \in Nat \ {0}, NEW u \in Nat, NEW l \in 0 .. w - 1
  PROVE  \E q1 \in Nat, q2 \in 0 .. w - 1 : MDSplit(q1, q2, w, c, u, l)
  <1>1. PICK q1 \in Int, r1 \in 0 .. c - 1 : q1 = u \div c /\ r1 = u % c /\ u = c * q1 + r1
    BY MDDivide
  <1>2. q1 \in Nat
    BY <1>1, MDFits
  <1> DEFINE j == r1 * w + l
  <1>3. j \in Nat
    BY <1>1
  <1> HIDE DEF j
  <1>4. PICK q2 \in Int, r2 \in 0 .. c - 1 : q2 = j \div c /\ r2 = j % c /\ j = c * q2 + r2
    BY <1>3, MDDivide
  <1>5. q2 \in Nat
    BY <1>3, <1>4, MDFits
  <1>6. u = c * q1 + r1 /\ j = c * q2 + r2 /\ r1 \in 0 .. c - 1 /\ r2 \in 0 .. c - 1
    BY <1>1, <1>4
  <1>7. w * r1 + l = c * q2 + r2
    BY <1>6 DEF j
  <1>8. q2 < w /\ w * u + l = c * (w * q1 + q2) + r2
    BY <1>2, <1>5, <1>6, <1>7, MDTwoSteps
  <1> DEFINE q == w * q1 + q2
             n == w * u + l
  <1>9. q \in Int /\ n \in Int /\ n = c * q + r2
    BY <1>2, <1>5, <1>8
  <1> HIDE DEF q, n
  <1>10. n \div c = q
    BY <1>6, <1>9, MDUnique
  <1>11. q2 \in 0 .. w - 1
    BY <1>5, <1>8
  <1>12. q2 = ((u % c) * w + l) \div c
    BY <1>1, <1>4 DEF j
  <1>13. MDSplit(q1, q2, w, c, u, l)
    BY <1>1, <1>10, <1>12 DEF MDSplit, q, n
  <1> QED
    BY <1>2, <1>11, <1>13

LEMMA MDWordwise ==
  ASSUME NEW p1 \in 0 .. MD!Double - 1, NEW p2 \in Nat, NEW c \in Nat \ {0},
         p2 < c, p2 < MD!Word
  PROVE  \E q1 \in 0 .. MD!Word - 1, q2 \in 0 .. MD!Word - 1 :
           /\ q1 = MD!Join(MD!Low(p2), MD!High(p1)) \div c
           /\ q2 = MD!Join(MD!Join(MD!Low(p2), MD!High(p1)) % c, MD!Low(p1)) \div c
           /\ (p1 + MD!Double * p2) \div c = MD!Word * q1 + q2
  <1> DEFINE w == MD!Word
             h == MD!High(p1)
             l == MD!Low(p1)
             u == MD!Join(MD!Low(p2), MD!High(p1))
  <1>1. w \in Nat \ {0} /\ MD!Double = w * w /\ MD!Double \in Nat
    BY MDWords
  <1>2. p1 \in Nat /\ p1 < w * w /\ p2 < w
    BY <1>1
  <1> HIDE DEF w
  <1>4. h \in 0 .. w - 1 /\ l \in 0 .. w - 1 /\ p1 = w * h + l
    <2>1. l \in 0 .. w - 1 /\ h \in Nat /\ p1 = w * h + l
      BY <1>2, MDTwoWords DEF w
    <2>2. h < w
      BY <1>1, <1>2, MDTwoWords DEF w
    <2> HIDE DEF h, l
    <2> QED
      BY <1>1, <2>1, <2>2
  <1> HIDE DEF h, l
  <1>5. MD!Low(p2) = p2
    <2>1. p2 \in 0 .. w - 1
      BY <1>1, <1>2
    <2>2. \A x \in 0 .. w - 1 : x % w = x
      BY <1>1
    <2> QED
      BY <2>1, <2>2 DEF MD!Low, w
  <1>6. u = p2 * w + h
    BY <1>5 DEF MD!Join, h, w
  <1> HIDE DEF u
  <1>7. u \in Nat /\ p1 + MD!Double * p2 = w * u + l
    BY <1>1, <1>2, <1>4, <1>6
  <1>8. u < w * c
    <2>1. w * (c - 1 - p2) \in Nat
      BY <1>1, <1>2
    <2> QED
      BY <1>1, <1>2, <1>4, <1>6, <2>1
  <1>9. PICK q1 \in Nat, q2 \in 0 .. w - 1 : MDSplit(q1, q2, w, c, u, l)
    BY <1>1, <1>4, <1>7, MDDivided
  <1>10. q1 < w
    <2>1. q1 = u \div c
      BY <1>9 DEF MDSplit
    <2> QED
      BY <1>1, <1>7, <1>8, <2>1, MDFits
  <1>11. q1 \in 0 .. w - 1
    BY <1>1, <1>9, <1>10
  <1>12. MD!Join(u % c, l) = (u % c) * w + l
    BY DEF MD!Join, w
  <1>13. (p1 + MD!Double * p2) \div c = w * q1 + q2 /\ q2 = MD!Join(u % c, l) \div c
         /\ q1 = u \div c
    BY <1>7, <1>9, <1>12, Zenon DEF MDSplit
  <1> QED
    BY <1>9, <1>11, <1>13 DEF u, l, w
(* Every power up to a double word divides it.                             *)
LEMMA MDDivides ==
  \A i \in 0 .. 2 * md_Width : \E k \in Int : MD!Double = k * MD!Power[i]
  <1> DEFINE m == 2 * md_Width
             Divides(j) == \E k \in Int : MD!Double = k * MD!Power[m - j]
             P == {j \in Nat : j <= m => Divides(j)}
  <1>1. m \in Nat
    BY ArithmeticAssumption
  <1>2. MD!Double = 1 * MD!Power[m - 0] /\ MD!Power[m] = MD!Double
    BY <1>1, MDWords
  <1>3. 0 \in P
    BY <1>1, <1>2
  <1>4. ASSUME NEW j \in Nat, j \in P PROVE j + 1 \in P
    <2>1. SUFFICES ASSUME j + 1 <= m PROVE Divides(j + 1)
      OBVIOUS
    <2>2. PICK k \in Int : MD!Double = k * MD!Power[m - j]
      BY <1>1, <1>4, <2>1
    <2> DEFINE x == MD!Power[m - (j + 1)]
    <2>3. MD!Power[m - j] = 2 * x /\ x \in Nat
      <3>1. m - j \in 1 .. m /\ m - (j + 1) = (m - j) - 1 /\ (m - j) - 1 \in 0 .. m
        BY <1>1, <2>1
      <3> DEFINE i == m - j
      <3>2. i \in 1 .. m /\ i - 1 \in 0 .. m /\ m - (j + 1) = i - 1
        BY <3>1
      <3> HIDE DEF i
      <3>3. MD!Power[i] = 2 * MD!Power[i - 1] /\ MD!Power[i - 1] \in Nat
        BY <3>2, MDPowers
      <3> QED
        BY <3>2, <3>3 DEF i
    <2> HIDE DEF x
    <2>4. MD!Double = (2 * k) * x
      BY <2>2, <2>3
    <2>5. 2 * k \in Int
      OBVIOUS
    <2> QED
      BY <2>4, <2>5 DEF x
  <1> HIDE DEF P, Divides
  <1>5. Nat \subseteq P
    BY <1>3, <1>4, NatInd
  <1>6. ASSUME NEW i \in 0 .. m PROVE \E k \in Int : MD!Double = k * MD!Power[i]
    <2> DEFINE j == m - i
    <2>1. j \in Nat /\ j <= m /\ m - j = i
      BY <1>1
    <2> HIDE DEF j
    <2>2. Divides(j)
      BY <1>5, <2>1 DEF P
    <2> QED
      BY <2>1, <2>2 DEF Divides
  <1> QED
    BY <1>6 DEF m

(* A step of the division bit by bit, and what stays true.                 *)
MDShift(s, c) ==
  LET high == (2 * s.high + IF s.low >= MD!Double \div 2 THEN 1 ELSE 0) % MD!Double
  IN  [quotient |-> 2 * s.quotient + IF c <= high THEN 1 ELSE 0,
       low |-> (2 * s.low) % MD!Double,
       high |-> IF c <= high THEN high - c ELSE high]

MDState(c) == [quotient : Nat, low : 0 .. MD!Double - 1, high : 0 .. c - 1]

MDKept(s, c, n, power) ==
  /\ s.quotient * (c * MD!Double) + s.high * MD!Double + s.low = n * power
  /\ \E k \in Int : s.low = k * power

LEMMA MDShifted ==
  ASSUME NEW D \in Nat, NEW c \in Int, NEW n \in Int, NEW power \in Int,
         NEW q \in Int, NEW h \in Int, NEW l \in Int, NEW b \in Int, NEW e \in Int,
         q * (c * D) + h * D + l = n * power
  PROVE  (2 * q + e) * (c * D) + ((2 * h + b) - e * c) * D + (2 * l - b * D)
           = n * (2 * power)
  <1>1. (2 * q + e) * (c * D) + ((2 * h + b) - e * c) * D + (2 * l - b * D)
          = 2 * (q * (c * D) + h * D + l)
    OBVIOUS
  <1> QED
    BY <1>1

LEMMA MDShiftKeeps ==
  ASSUME NEW c \in 1 .. MDMost, NEW s \in MDState(c)
  PROVE  /\ MDShift(s, c) \in MDState(c)
         /\ \A n \in Nat, power \in Nat :
              MDKept(s, c, n, power) /\ (\E k \in Int : MD!Double = k * (2 * power))
              => MDKept(MDShift(s, c), c, n, 2 * power)
  <1> DEFINE D == MD!Double
             q == s.quotient
             l == s.low
             h == s.high
             b == IF l >= D \div 2 THEN 1 ELSE 0
             high == (2 * h + b) % D
             e == IF c <= high THEN 1 ELSE 0
             low == (2 * l) % D
             rest == IF c <= high THEN high - c ELSE high
  <1>1. D \in Nat \ {0} /\ D \div 2 = MDMost /\ D = 2 * MDMost /\ MDMost \in Nat
    BY MDWords
  <1>2. q \in Nat /\ l \in 0 .. D - 1 /\ h \in 0 .. c - 1
    BY DEF MDState
  <1>3. MDShift(s, c) = [quotient |-> 2 * q + e, low |-> low, high |-> rest]
    BY DEF MDShift
  <1> HIDE DEF q, l, h, D
  <1>4. b \in 0 .. 1 /\ (l >= MDMost => b = 1) /\ (l < MDMost => b = 0)
    BY <1>1, <1>2
  <1> HIDE DEF b
  <1>5. high = 2 * h + b
    <2>1. 2 * h + b \in 0 .. D - 1
      BY <1>1, <1>2, <1>4
    <2> QED
      BY <1>1, <2>1
  <1>6. low = 2 * l - b * D /\ low \in 0 .. D - 1
    <2>1. CASE b = 0
      <3>1. 2 * l \in 0 .. D - 1
        BY <1>1, <1>2, <1>4, <2>1
      <3>2. low = 2 * l
        BY <1>1, <3>1
      <3> HIDE DEF low
      <3> QED
        BY <1>1, <1>2, <2>1, <3>1, <3>2
    <2>2. CASE b = 1
      <3> DEFINE r == 2 * l - D
                 i == 1
                 x == 2 * l
      <3>1. r \in 0 .. D - 1 /\ i \in Int /\ x = D * i + r /\ x \in Int
        BY <1>1, <1>2, <1>4, <2>2
      <3> HIDE DEF r, i, x
      <3>2. x % D = r
        BY <1>1, <3>1, MDUnique
      <3>3. low = r
        BY <3>2 DEF x
      <3> HIDE DEF low
      <3> QED
        BY <1>1, <1>2, <2>2, <3>1, <3>3 DEF r
    <2> QED
      BY <1>4, <2>1, <2>2
  <1> HIDE DEF low, high
  <1>7. e \in 0 .. 1 /\ rest = high - e * c /\ rest \in 0 .. c - 1
    <2>1. CASE c <= high
      BY <1>1, <1>2, <1>4, <1>5, <2>1
    <2>2. CASE ~(c <= high)
      BY <1>1, <1>2, <1>4, <1>5, <2>2
    <2> QED
      BY <2>1, <2>2
  <1> HIDE DEF e, rest
  <1>8. MDShift(s, c) \in MDState(c)
    <2>1. 2 * q + e \in Nat
      BY <1>2, <1>7
    <2> QED
      BY <1>3, <1>6, <1>7, <2>1 DEF MDState, D
  <1>9. ASSUME NEW n \in Nat, NEW power \in Nat, MDKept(s, c, n, power),
               NEW kk \in Int, D = kk * (2 * power)
        PROVE  MDKept(MDShift(s, c), c, n, 2 * power)
    <2>1. q * (c * D) + h * D + l = n * power
      BY <1>9 DEF MDKept, q, h, l, D
    <2>2. PICK k \in Int : l = k * power
      BY <1>9 DEF MDKept, l
    <2>3. (2 * q + e) * (c * D) + ((2 * h + b) - e * c) * D + (2 * l - b * D) = n * (2 * power)
      <3>1. c \in Int
        OBVIOUS
      <3> QED
        BY <1>1, <1>2, <1>4, <1>7, <2>1, <3>1, MDShifted
    <2>4. (2 * q + e) * (c * D) + rest * D + low = n * (2 * power)
      BY <1>5, <1>6, <1>7, <2>3
    <2>5. low = (k - b * kk) * (2 * power) /\ k - b * kk \in Int
      <3>1. 2 * l = k * (2 * power)
        BY <2>2
      <3>2. b * D = (b * kk) * (2 * power)
        BY <1>4, <1>9
      <3> QED
        BY <1>4, <1>6, <3>1, <3>2
    <2> DEFINE k2 == k - b * kk
    <2>6. low = k2 * (2 * power) /\ k2 \in Int
      BY <2>5
    <2> HIDE DEF k2
    <2> QED
      BY <1>3, <2>4, <2>6 DEF MDKept, D
  <1> QED
    BY <1>8, <1>9 DEF D
LEMMA MDBitByBit ==
  ASSUME NEW p \in MDPair, NEW c \in 1 .. MDMost, p[2] < c
  PROVE  MD!BitByBit(p, c) = MDNumber(p) \div c
  <1> DEFINE m == 2 * md_Width
             n == MDNumber(p)
             a == [quotient |-> 0, low |-> p[1], high |-> p[2]]
             A == MDState(c)
             T == [s \in A |-> MDShift(s, c)]
             u == CHOOSE u : u = [i \in 0 .. 2 * md_Width |->
                    IF i = 0 THEN [quotient |-> 0, low |-> p[1], high |-> p[2]]
                    ELSE LET s == u[i - 1]
                             high == (2 * s.high + IF s.low >= MD!Double \div 2 THEN 1 ELSE 0) % MD!Double
                         IN  [quotient |-> 2 * s.quotient + IF c <= high THEN 1 ELSE 0,
                              low |-> (2 * s.low) % MD!Double,
                              high |-> IF c <= high THEN high - c ELSE high]]
  <1>1. MD!BitByBit(p, c) = u[m].quotient
    BY DEF MD!BitByBit
  <1>2. m \in Nat /\ MD!Double \in Nat /\ c \in Int
    BY ArithmeticAssumption, MDWords
  <1>3. p[1] \in 0 .. MD!Double - 1 /\ p[2] \in Nat /\ p[2] < c
    BY DEF MDPair
  <1>4. a \in A
    BY <1>2, <1>3 DEF MDState
  <1>5. T \in [A -> A] /\ \A s \in A : T[s] = MDShift(s, c)
    BY MDShiftKeeps
  <1> HIDE DEF A, T
  <1>6. PICK f \in [0..m -> A] : Leads(f, a, T, m)
    <2> HIDE DEF a, m
    <2> QED
      BY <1>2, <1>4, <1>5, MDSteps
  <1>7. f[0] = a /\ \A i \in 1..m : f[i] = MDShift(f[i - 1], c)
    <2>1. f[0] = a /\ \A i \in 1..m : f[i] = T[f[i - 1]]
      BY <1>6 DEF Leads
    <2>2. \A i \in 1..m : f[i - 1] \in A
      <3> HIDE DEF m
      <3> QED
        BY <1>2, <1>6
    <2> QED
      BY <1>5, <2>1, <2>2
  <1>8. f = [i \in 0..m |-> IF i = 0 THEN a ELSE MDShift(f[i - 1], c)]
    <2> HIDE DEF m, a
    <2>1. \A i \in 0..m : f[i] = IF i = 0 THEN a ELSE MDShift(f[i - 1], c)
      BY <1>2, <1>7
    <2> QED
      BY <1>6, <2>1
  <1>9. u = [i \in 0..m |-> IF i = 0 THEN a ELSE MDShift(u[i - 1], c)]
    <2>1. f = [i \in 0 .. 2 * md_Width |->
                    IF i = 0 THEN [quotient |-> 0, low |-> p[1], high |-> p[2]]
                    ELSE LET s == f[i - 1]
                             high == (2 * s.high + IF s.low >= MD!Double \div 2 THEN 1 ELSE 0) % MD!Double
                         IN  [quotient |-> 2 * s.quotient + IF c <= high THEN 1 ELSE 0,
                              low |-> (2 * s.low) % MD!Double,
                              high |-> IF c <= high THEN high - c ELSE high]]
      BY <1>8 DEF MDShift
    <2>2. u = [i \in 0 .. 2 * md_Width |->
                    IF i = 0 THEN [quotient |-> 0, low |-> p[1], high |-> p[2]]
                    ELSE LET s == u[i - 1]
                             high == (2 * s.high + IF s.low >= MD!Double \div 2 THEN 1 ELSE 0) % MD!Double
                         IN  [quotient |-> 2 * s.quotient + IF c <= high THEN 1 ELSE 0,
                              low |-> (2 * s.low) % MD!Double,
                              high |-> IF c <= high THEN high - c ELSE high]]
      BY <2>1
    <2> HIDE DEF u
    <2> QED
      BY <2>2 DEF MDShift
  <1> HIDE DEF u
  <1>10. u[0] = a /\ \A i \in 1..m : u[i] = MDShift(u[i - 1], c)
    <2> HIDE DEF m, a
    <2>1. 0 \in 0..m /\ \A i \in 1..m : i \in 0..m /\ i # 0
      BY <1>2
    <2> QED
      BY <1>9, <2>1
  <1>11. n \in Nat
    BY MDNumberOf
  <1> DEFINE P == {i \in Nat : i \in 0..m => u[i] \in A /\ MDKept(u[i], c, n, MD!Power[i])}
  <1>12. 0 \in P
    <2>1. a.quotient * (c * MD!Double) + a.high * MD!Double + a.low = n * 1
      BY <1>2, <1>3 DEF MDNumber
    <2>2. a.low = p[1] * 1 /\ p[1] \in Int
      BY <1>3
    <2>3. MDKept(a, c, n, 1)
      BY <2>1, <2>2 DEF MDKept
    <2>4. MD!Power[0] = 1
      BY MDPowers
    <2> HIDE DEF a, n
    <2> QED
      BY <1>4, <1>10, <2>3, <2>4
  <1>13. ASSUME NEW i \in Nat, i \in P PROVE i + 1 \in P
    <2>1. SUFFICES ASSUME i + 1 \in 0..m
                   PROVE  u[i + 1] \in A /\ MDKept(u[i + 1], c, n, MD!Power[i + 1])
      OBVIOUS
    <2> HIDE DEF n, a
    <2>2. i \in 0..m /\ i + 1 \in 1..m /\ (i + 1) - 1 = i
      BY <1>2, <2>1
    <2>3. u[i] \in A /\ MDKept(u[i], c, n, MD!Power[i])
      BY <1>13, <2>2
    <2> DEFINE j == i + 1
    <2>4. j \in 1..m /\ j \in 0..m /\ j - 1 = i
      BY <2>1, <2>2
    <2> HIDE DEF j
    <2>5. u[j] = MDShift(u[i], c)
      BY <1>10, <2>4
    <2>6. MD!Power[j] = 2 * MD!Power[i] /\ MD!Power[i] \in Nat
      BY <2>2, <2>4, MDPowers
    <2>7. \E k \in Int : MD!Double = k * (2 * MD!Power[i])
      BY <2>4, <2>6, MDDivides
    <2>8. u[i] \in MDState(c)
      BY <2>3 DEF A
    <2> DEFINE s == u[i]
               power == MD!Power[i]
    <2> HIDE DEF s, power, m
    <2>9. s \in MDState(c) /\ MDKept(s, c, n, power) /\ power \in Nat
          /\ \E k \in Int : MD!Double = k * (2 * power)
      BY <2>3, <2>6, <2>7, <2>8 DEF s, power
    <2>10. MDShift(s, c) \in MDState(c) /\ MDKept(MDShift(s, c), c, n, 2 * power)
      BY <1>11, <2>9, MDShiftKeeps
    <2>11. u[j] \in A /\ MDKept(u[j], c, n, MD!Power[j])
      BY <2>5, <2>6, <2>10 DEF s, power, A
    <2> QED
      BY <2>11 DEF j
  <1> HIDE DEF P
  <1>14. Nat \subseteq P
    BY <1>12, <1>13, NatInd
  <1>15. u[m] \in A /\ MDKept(u[m], c, n, MD!Double)
    <2>1. MD!Power[m] = MD!Double
      BY MDWords
    <2> HIDE DEF m
    <2>2. m \in P /\ m \in 0..m
      BY <1>2, <1>14
    <2> HIDE DEF n
    <2> QED
      BY <2>1, <2>2 DEF P
  <1> DEFINE x == u[m]
             q == x.quotient
             h == x.high
             l == x.low
             D == MD!Double
  <1>16. q \in Nat /\ h \in 0 .. c - 1 /\ l \in 0 .. D - 1
         /\ q * (c * D) + h * D + l = n * D
         /\ \E k \in Int : l = k * D
    <2> HIDE DEF n, m
    <2> QED
      BY <1>15 DEF MDKept, A, MDState
  <1>17. D \in Nat \ {0}
    BY MDWords
  <1> HIDE DEF n, m, q, h, l, D
  <1>18. l = 0
    <2> PICK k \in Int : l = k * D
      BY <1>16
    <2>1. D * k < D * 1 /\ D * (-1) < D * k
      BY <1>16, <1>17
    <2>2. k < 1 /\ -1 < k
      BY <1>17, <2>1, MDLess
    <2>3. k = 0
      BY <2>2
    <2> QED
      BY <1>17, <2>3
  <1>19. n = c * q + h
    <2> DEFINE j == c * q + h
    <2>1. j \in Int /\ n \in Int
      BY <1>2, <1>11, <1>16 DEF n
    <2>2. D * j = D * n
      BY <1>2, <1>11, <1>16, <1>17, <1>18, <2>1
    <2> HIDE DEF j
    <2>3. ~(j < n)
      <3>1. ASSUME j < n PROVE FALSE
        <4>1. D * (n - j - 1) \in Nat
          BY <1>17, <2>1, <3>1
        <4> QED
          BY <1>17, <2>1, <2>2, <4>1
      <3> QED
        BY <3>1
    <2>4. ~(n < j)
      <3>1. ASSUME n < j PROVE FALSE
        <4>1. D * (j - n - 1) \in Nat
          BY <1>17, <2>1, <3>1
        <4> QED
          BY <1>17, <2>1, <2>2, <4>1
      <3> QED
        BY <3>1
    <2>5. j = n
      BY <2>1, <2>3, <2>4
    <2> QED
      BY <2>5 DEF j
  <1>20. n \div c = q
    <2>1. c \in Nat \ {0} /\ n \in Int /\ q \in Int
      BY <1>2, <1>11, <1>16 DEF n
    <2> QED
      BY <1>16, <1>19, <2>1, MDUnique
  <1> QED
    BY <1>1, <1>20 DEF q, n
LEMMA MDQuotient ==
  ASSUME NEW p \in MDPair, NEW c \in 1 .. MDMost, p[2] < c
  PROVE  MD!Quotient(p, c) = MDNumber(p) \div c
  <1> DEFINE n == MDNumber(p)
             p1 == p[1]
             p2 == p[2]
  <1>1. p1 \in 0 .. MD!Double - 1 /\ p2 \in Nat /\ p2 < c
    BY MDWords DEF MDPair
  <1>2. n = p1 + MD!Double * p2
    BY DEF MDNumber
  <1>3. MD!Quotient(p, c) = IF p2 = 0 THEN p1 \div c
                            ELSE IF MD!High(c) = 0 THEN MD!ByWord(p, c) ELSE MD!BitByBit(p, c)
    BY DEF MD!Quotient
  <1>4. CASE p2 = 0
    <2>1. n = p1
      BY <1>1, <1>2, <1>4, MDWords
    <2> HIDE DEF n, p1
    <2> QED
      BY <1>3, <1>4, <2>1 DEF n
  <1>5. CASE p2 # 0 /\ MD!High(c) = 0
    <2>1. c \in Nat \ {0} /\ c < MD!Word
      <3>1. c \in Nat /\ MD!Low(c) \in 0 .. MD!Word - 1
            /\ c = MD!Word * MD!High(c) + MD!Low(c)
        BY MDTwoWords
      <3>2. c = MD!Word * 0 + MD!Low(c)
        BY <1>5, <3>1
      <3> QED
        BY <3>1, <3>2, MDWords
    <2>2. p2 < MD!Word
      BY <1>1, <2>1, MDWords
    <2> HIDE DEF p1, p2, n
    <2>3. PICK q1 \in 0 .. MD!Word - 1, q2 \in 0 .. MD!Word - 1 :
           /\ q1 = MD!Join(MD!Low(p2), MD!High(p1)) \div c
           /\ q2 = MD!Join(MD!Join(MD!Low(p2), MD!High(p1)) % c, MD!Low(p1)) \div c
           /\ (p1 + MD!Double * p2) \div c = MD!Word * q1 + q2
      BY <1>1, <2>1, <2>2, MDWordwise
    <2>4. MD!ByWord(p, c) = (MD!Join(q1, 0) + q2) % MD!Double
      BY <2>3 DEF MD!ByWord, p1, p2
    <2> DEFINE w == MD!Word
               D == MD!Double
               q == w * q1 + q2
    <2>5. w \in Nat \ {0} /\ D \in Nat /\ D = w * w
      BY MDWords
    <2> HIDE DEF w, D
    <2>6. q \in 0 .. D - 1
      <3>1. w * (w - 1 - q1) \in Nat
        BY <2>3, <2>5 DEF w
      <3>2. w * q1 \in Nat
        BY <2>3, <2>5
      <3> QED
        BY <2>3, <2>5, <3>1, <3>2 DEF w
    <2>7. MD!Join(q1, 0) + q2 = q
      <3>1. q1 * w + 0 + q2 = q
        BY <2>3, <2>5
      <3> QED
        BY <3>1 DEF MD!Join, w
    <2> HIDE DEF q
    <2>8. q % D = q
      BY <2>5, <2>6
    <2>9. MD!ByWord(p, c) = q
      BY <2>4, <2>7, <2>8 DEF D
    <2>10. n \div c = q
      BY <1>2, <2>3 DEF q, w
    <2> HIDE DEF n
    <2> QED
      BY <1>3, <1>5, <2>9, <2>10 DEF n
  <1>6. CASE p2 # 0 /\ MD!High(c) # 0
    BY <1>1, <1>3, <1>6, MDBitByBit
  <1> QED
    BY <1>4, <1>5, <1>6

(* What a quotient of the size of q is as a LONGLONG.                       *)
MDAnswer(r, q, negative) ==
  /\ Signed(q, negative) \in MD!LongLongs => r = Signed(q, negative)
  /\ q >= MD!Double => r = IF negative THEN -MDMost ELSE MDMost - 1

LEMMA MDKeeps == \A x \in MD!LongLongs : MD!AsLongLong(x) = x
  <1> DEFINE D == MD!Double
             M == MDMost
  <1>1. M \in Nat /\ D = 2 * M /\ D \in Nat \ {0} /\ D \div 2 = M
        /\ MD!LongLongs = -M .. M - 1
    BY MDWords DEF MD!LongLongs
  <1> HIDE DEF D, M
  <1>2. ASSUME NEW x \in -M .. M - 1 PROVE ((x + M) % D) - M = x
    <2> DEFINE y == x + M
    <2>1. y \in 0 .. D - 1 /\ y - M = x
      BY <1>1, <1>2
    <2> HIDE DEF y
    <2>2. y % D = y
      BY <1>1, <2>1
    <2> QED
      BY <2>1, <2>2 DEF y
  <1> QED
    BY <1>1, <1>2 DEF MD!AsLongLong, D

LEMMA MDDividedIs ==
  ASSUME NEW p \in MDPair, NEW c \in 1 .. MDMost, NEW negative \in BOOLEAN
  PROVE  MDAnswer(MD!Divided(p, c, negative), MDNumber(p) \div c, negative)
  <1> DEFINE n == MDNumber(p)
             q == n \div c
             D == MD!Double
             r == MD!Divided(p, c, negative)
  <1>1. D \in Nat \ {0} /\ c \in Nat \ {0} /\ p[2] \in Nat /\ MDMost \in Nat
        /\ D = 2 * MDMost
    BY MDWords DEF MDPair
  <1>2. n \in Nat /\ (p[2] < c => n < D * c) /\ (p[2] >= c => n >= D * c)
    BY <1>1, MDNumberOf
  <1>3. q = n \div c
    OBVIOUS
  <1> HIDE DEF D, n, q
  <1>4. q \in Nat /\ (p[2] < c => q < D) /\ (p[2] >= c => q >= D)
    BY <1>1, <1>2, <1>3, MDFits
  <1>5. CASE c <= p[2]
    <2>1. r = IF negative THEN -MDMost ELSE MDMost - 1
      BY <1>5, MDWords DEF MD!Divided
    <2>2. q >= D
      BY <1>1, <1>4, <1>5
    <2>3. Signed(q, negative) \notin MD!LongLongs
      <3>1. MD!LongLongs = -MDMost .. MDMost - 1
        BY MDWords DEF MD!LongLongs
      <3> QED
        BY <1>1, <1>4, <2>2, <3>1, MDWords DEF Signed
    <2> QED
      BY <2>1, <2>3 DEF MDAnswer, q, n
  <1>6. CASE ~(c <= p[2])
    <2>1. p[2] < c
      BY <1>1, <1>6
    <2>2. MD!Quotient(p, c) = q
      BY <2>1, MDQuotient DEF q, n
    <2>3. r = MD!AsLongLong(Signed(q, negative))
      BY <1>6, <2>2 DEF MD!Divided, Signed
    <2>4. ~(q >= D)
      BY <1>1, <1>4, <2>1
    <2>5. Signed(q, negative) \in MD!LongLongs => r = Signed(q, negative)
      BY <2>3, MDKeeps
    <2> QED
      BY <2>4, <2>5 DEF MDAnswer, q, n, D
  <1> QED
    BY <1>5, <1>6

(* A sum of its product and its addend is what a call divides.             *)
MDSum(a, b, d) == MD!Total(MD!Product(MD!Abs(a), MD!Abs(b)), d, (a < 0) # (b < 0))

LEMMA MDSums ==
  ASSUME NEW a \in MD!LongLongs, NEW b \in MD!LongLongs, NEW d \in MD!LongLongs, NEW B \in Nat,
         MD!Abs(b) <= B,
         NEW t, t = MDSum(a, b, d)
  PROVE  /\ t[1] \in MDPair /\ t[2] \in BOOLEAN
         /\ Signed(MDNumber(t[1]), t[2]) = a * b + d
         /\ MDNumber(t[1]) <= MDMost * B + MD!Abs(d)
  <1> DEFINE x == MD!Abs(a)
             y == MD!Abs(b)
             M == MDMost
             p == MD!Product(x, y)
             negative == (a < 0) # (b < 0)
             n == MDNumber(t[1])
  <1>1. M \in Nat /\ MD!LongLongs = -M .. M - 1
    BY MDWords DEF MD!LongLongs
  <1>2. x \in 0 .. M /\ y \in 0 .. M /\ a \in Int /\ b \in Int /\ d \in Int
        /\ MD!Abs(d) \in Nat
    BY <1>1 DEF MD!Abs
  <1>3. y <= B
    OBVIOUS
  <1> HIDE DEF x, y, M, p, negative
  <1>4. p \in MDPair /\ MDNumber(p) = x * y
    BY <1>2, MDProduct DEF M, p
  <1>5. x * y \in Nat /\ x * y <= M * M /\ x * y <= M * B
    BY <1>1, <1>2, <1>3, MDTimes
  <1>6. negative \in BOOLEAN
    BY DEF negative
  <1>7. t = MD!Total(p, d, negative)
    BY DEF MDSum, p, x, y, negative
  <1>8. t[1] \in MDPair /\ t[2] \in BOOLEAN /\ Signed(n, t[2]) = Signed(x * y, negative) + d
    <2>1. MDNumber(p) <= MDMost * MDMost
      BY <1>4, <1>5 DEF M
    <2> DEFINE u == MD!Total(p, d, negative)
    <2>2. u = MD!Total(p, d, negative)
      OBVIOUS
    <2> HIDE DEF u
    <2>3. u[1] \in MDPair /\ u[2] \in BOOLEAN
          /\ Signed(MDNumber(u[1]), u[2]) = Signed(MDNumber(p), negative) + d
      BY <1>4, <1>6, <2>1, <2>2, MDTotal
    <2>4. t = u
      BY <1>7, <2>2
    <2> QED
      BY <1>4, <2>3, <2>4
  <1>9. Signed(x * y, negative) = a * b
    <2>1. \A i, j \in Int : /\ (-i) * j = -(i * j) /\ i * (-j) = -(i * j) /\ (-i) * (-j) = i * j
      OBVIOUS
    <2>2. x = IF a >= 0 THEN a ELSE -a
      BY DEF x, MD!Abs
    <2>3. y = IF b >= 0 THEN b ELSE -b
      BY DEF y, MD!Abs
    <2>4. CASE a >= 0 /\ b >= 0
      <3>1. ~negative /\ x = a /\ y = b
        BY <1>2, <2>2, <2>3, <2>4 DEF negative
      <3> QED
        BY <3>1 DEF Signed
    <2>5. CASE a < 0 /\ b >= 0
      <3>1. negative /\ x = -a /\ y = b
        BY <1>2, <2>2, <2>3, <2>5 DEF negative
      <3>2. -((-a) * b) = a * b
        BY <1>2
      <3> QED
        BY <3>1, <3>2 DEF Signed
    <2>6. CASE a >= 0 /\ b < 0
      <3>1. negative /\ x = a /\ y = -b
        BY <1>2, <2>2, <2>3, <2>6 DEF negative
      <3>2. -(a * (-b)) = a * b
        BY <1>2
      <3> QED
        BY <3>1, <3>2 DEF Signed
    <2>7. CASE a < 0 /\ b < 0
      <3>1. ~negative /\ x = -a /\ y = -b
        BY <1>2, <2>2, <2>3, <2>7 DEF negative
      <3>2. (-a) * (-b) = a * b
        BY <1>2
      <3> QED
        BY <3>1, <3>2 DEF Signed
    <2> QED
      BY <1>2, <2>4, <2>5, <2>6, <2>7
  <1>10. n <= M * B + MD!Abs(d)
    <2> DEFINE z == x * y
               C == M * B
    <2>1. z \in Nat /\ z <= C /\ C \in Nat /\ n \in Nat
      <3>1. n \in Nat
        BY <1>8, MDNumberOf
      <3> HIDE DEF n
      <3> QED
        BY <1>1, <1>5, <3>1
    <2>2. Signed(n, t[2]) = Signed(z, negative) + d
      BY <1>8
    <2> HIDE DEF z, C, n
    <2>3. n <= z + MD!Abs(d)
      BY <1>2, <2>1, <2>2 DEF Signed, MD!Abs
    <2> QED
      BY <1>2, <2>1, <2>3 DEF C
  <1> QED
    BY <1>8, <1>9, <1>10 DEF M
LEMMA MDTruncated ==
  ASSUME NEW n \in Nat, NEW negative \in BOOLEAN, NEW c \in Int \ {0},
         NEW N, N = Signed(n, negative),
         NEW q, q = n \div MD!Abs(c)
  PROVE  q \in Nat /\ MD!Truncated(N, c) = Signed(q, negative # (c < 0))
  <1> DEFINE u == MD!Abs(c)
  <1>1. u \in Nat \ {0}
    BY DEF MD!Abs
  <1> HIDE DEF u
  <1>2. q = n \div u
    BY DEF u
  <1>3. q \in Nat
    BY <1>1, <1>2, MDFits
  <1>4. N \in Int /\ MD!Abs(N) = n /\ (n > 0 => (N < 0 <=> negative))
    BY DEF Signed, MD!Abs
  <1>5. MD!Truncated(N, c) = IF (N < 0) = (c < 0) THEN q ELSE -q
    BY <1>2, <1>4 DEF MD!Truncated, u
  <1>6. CASE n > 0
    <2>1. (N < 0) = (c < 0) <=> ~(negative # (c < 0))
      BY <1>4, <1>6
    <2> QED
      BY <1>3, <1>5, <2>1, Zenon DEF Signed
  <1>7. CASE ~(n > 0)
    <2>1. n = u * 0 + 0 /\ 0 \in 0 .. u - 1
      BY <1>1, <1>7
    <2> DEFINE z == 0
    <2>2. n = u * z + z /\ z \in 0 .. u - 1 /\ z \in Int
      BY <2>1
    <2> HIDE DEF z
    <2>3. q = z
      <3>0. n \in Int
        OBVIOUS
      <3>1. n \div u = z
        BY <1>1, <2>2, <3>0, MDUnique, Zenon
      <3> QED
        BY <1>2, <3>1, Zenon
    <2>4. q >= 0 /\ q <= 0 /\ q \in Int
      BY <2>3 DEF z
    <2>5. -q = q
      <3>1. \A i \in Int : i >= 0 /\ i <= 0 => -i = i
        OBVIOUS
      <3> HIDE DEF z
      <3> QED
        BY <2>4, <3>1, Zenon
    <2>6. MD!Truncated(N, c) = q
      BY <1>5, <2>5, Zenon
    <2>7. Signed(q, negative # (c < 0)) = q
      BY <2>5, Zenon DEF Signed
    <2> QED
      BY <1>3, <2>6, <2>7
  <1> QED
    BY <1>6, <1>7

(* What QuotientExact promises of the result r.                            *)
MDExact(exact, r) ==
  /\ exact \in MD!LongLongs => r = exact
  /\ exact >= MD!Double => r = MD!Double \div 2 - 1
  /\ exact <= -MD!Double => r = -(MD!Double \div 2)

LEMMA MDAnswered ==
  ASSUME NEW q \in Nat, NEW negative \in BOOLEAN, NEW r, MDAnswer(r, q, negative)
  PROVE  MDExact(Signed(q, negative), r)
  <1>1. MDMost \in Nat \ {0} /\ MD!Double = 2 * MDMost /\ MD!Double \div 2 = MDMost
    BY MDWords
  <1> DEFINE s == Signed(q, negative)
  <1>2. s \in MD!LongLongs => r = s
    BY DEF MDAnswer
  <1>3. CASE negative
    <2>1. s = -q
      BY <1>3 DEF Signed
    <2>2. q >= MD!Double => r = -MDMost
      BY <1>3 DEF MDAnswer
    <2> HIDE DEF s
    <2> QED
      BY <1>1, <1>2, <2>1, <2>2 DEF MDExact, s
  <1>4. CASE ~negative
    <2>1. s = q
      BY <1>4 DEF Signed
    <2>2. q >= MD!Double => r = MDMost - 1
      BY <1>4 DEF MDAnswer
    <2> HIDE DEF s
    <2> QED
      BY <1>1, <1>2, <2>1, <2>2 DEF MDExact, s
  <1> QED
    BY <1>3, <1>4

LEMMA MDMulDiv ==
  ASSUME NEW a \in MD!LongLongs, NEW b \in MD!LongLongs, NEW c \in MD!LongLongs, NEW d \in MD!LongLongs,
         c # 0
  PROVE  MDExact(MD!Truncated(a * b + d, c), MD!llMulDiv(a, b, c, d))
  <1> DEFINE t == MDSum(a, b, d)
             u == MD!Abs(c)
             n == MDNumber(t[1])
             q == n \div u
             negative == t[2] # (c < 0)
             r == MD!llMulDiv(a, b, c, d)
  <1>1. MDMost \in Nat /\ MD!LongLongs = -MDMost .. MDMost - 1
    BY MDWords DEF MD!LongLongs
  <1>2. u \in 1 .. MDMost /\ c \in Int \ {0} /\ MD!Abs(b) <= MDMost
    BY <1>1 DEF MD!Abs
  <1>3. t = MDSum(a, b, d)
    OBVIOUS
  <1>4. r = MD!Divided(t[1], u, negative)
    BY DEF MD!llMulDiv, MDSum
  <1> HIDE DEF t, r
  <1>5. t[1] \in MDPair /\ t[2] \in BOOLEAN /\ Signed(n, t[2]) = a * b + d
    <2>1. MDMost \in Nat /\ MD!Abs(b) <= MDMost
      BY <1>1, <1>2
    <2>2. t[1] \in MDPair /\ t[2] \in BOOLEAN /\ Signed(MDNumber(t[1]), t[2]) = a * b + d
      BY <1>3, <2>1, MDSums
    <2> QED
      BY <2>2
  <1>6. n \in Nat
    BY <1>5, MDNumberOf
  <1>7. negative \in BOOLEAN
    OBVIOUS
  <1>8. q = n \div MD!Abs(c)
    OBVIOUS
  <1> HIDE DEF u
  <1>9. MDAnswer(r, q, negative)
    <2> HIDE DEF negative
    <2> QED
      BY <1>2, <1>4, <1>5, <1>7, MDDividedIs
  <1> HIDE DEF n, q
  <1> DEFINE N == a * b + d
  <1>10. N = Signed(n, t[2])
    BY <1>5
  <1> HIDE DEF N
  <1>11. q \in Nat /\ MD!Truncated(N, c) = Signed(q, negative)
    BY <1>2, <1>5, <1>6, <1>8, <1>10, MDTruncated
  <1> HIDE DEF negative
  <1>12. MDExact(Signed(q, negative), r)
    BY <1>7, <1>9, <1>11, MDAnswered
  <1> QED
    BY <1>11, <1>12 DEF N, r

(* With a divisor and an addend of one word the quotient is found word by  *)
(* word, and the upper half of the sum is a word too.                      *)
LEMMA MDNarrow ==
  ASSUME NEW p \in MDPair, NEW v \in Nat \ {0}, MD!Word = 2 * v,
         MDNumber(p) <= (MD!Word * v) * v + v
  PROVE  p[2] < MD!Word
  <1> DEFINE D == MD!Double
             p1 == p[1]
             p2 == p[2]
             w == MD!Word
  <1>1. D = w * w /\ w = 2 * v /\ w \in Nat \ {0}
    BY MDWords
  <1>2. p1 \in Nat /\ p2 \in Nat
    BY MDWords DEF MDPair
  <1>3. p1 + D * p2 <= (w * v) * v + v
    BY DEF MDNumber
  <1> HIDE DEF D, p1, p2, w
  <1> SUFFICES ASSUME p2 >= w PROVE FALSE
    BY <1>1, <1>2 DEF p2, w
  <1>4. (w * w) * p2 >= (w * w) * w
    <2>1. (w * w) * (p2 - w) \in Nat
      BY <1>1, <1>2
    <2> QED
      BY <1>1, <1>2, <2>1
  <1> DEFINE c == v * v * v
  <1>5. (w * w) * w = 8 * c /\ (w * v) * v = 2 * c /\ c >= v /\ c \in Nat
    <2>1. v * v >= v
      OBVIOUS
    <2>2. (v * v) * v >= v
      BY <2>1
    <2> QED
      BY <1>1, <2>2
  <1> DEFINE x == (w * w) * p2
             y == (w * v) * v
  <1>6. x >= 8 * c /\ x \in Int /\ y = 2 * c
    BY <1>1, <1>2, <1>4, <1>5
  <1>7. p1 + x <= y + v
    BY <1>1, <1>3
  <1>8. c >= v /\ c \in Nat
    BY <1>5
  <1> HIDE DEF x, y, c
  <1> QED
    BY <1>2, <1>6, <1>7, <1>8

LEMMA MDInt64x32Div32 ==
  ASSUME NEW a \in MD!LongLongs, NEW b \in MD!Longs, NEW c \in MD!Longs, NEW d \in MD!Longs, c # 0
  PROVE  MDExact(MD!Truncated(a * b + d, c), MD!Int64x32Div32(a, b, c, d))
  <1> DEFINE v == MDHalf
             t == MDSum(a, b, d)
             p == t[1]
             p1 == p[1]
             p2 == p[2]
             u == MD!Abs(c)
             n == MDNumber(p)
             q == n \div u
             upper == MD!Join(MD!Low(p2), MD!High(p1))
             quotient == MD!Join(MD!Low(upper \div u), MD!Low(MD!Join(upper % u, MD!Low(p1)) \div u))
             negative == t[2] # (c < 0)
             r == MD!Int64x32Div32(a, b, c, d)
  <1>1. /\ v \in Nat \ {0} /\ MD!Word = 2 * v /\ MDMost = MD!Word * v /\ MDMost \in Nat
        /\ MD!LongLongs = -MDMost .. MDMost - 1 /\ MD!Double = 2 * MDMost
        /\ MD!Word \in Nat \ {0} /\ MD!Double \in Nat
    BY MDWords DEF MD!LongLongs, MDMost
  <1>2. MD!Longs = -v .. v - 1
    BY DEF MD!Longs, MDHalf
  <1>3. v <= MDMost
    BY <1>1
  <1> HIDE DEF v
  <1>4. /\ b \in MD!LongLongs /\ d \in MD!LongLongs /\ MD!Abs(b) <= v /\ MD!Abs(d) <= v
        /\ MD!Abs(d) \in Nat
        /\ u \in 1 .. v /\ c \in Int \ {0}
    BY <1>1, <1>2, <1>3 DEF MD!Abs
  <1>5. t = MDSum(a, b, d)
    OBVIOUS
  <1>6. r = IF u <= MD!Low(p2)
            THEN IF negative THEN -(MD!Double \div 2) ELSE MD!Double \div 2 - 1
            ELSE MD!AsLongLong(IF negative THEN -quotient ELSE quotient)
    BY DEF MD!Int64x32Div32, MDSum
  <1> HIDE DEF t, r
  <1>7. p \in MDPair /\ t[2] \in BOOLEAN /\ Signed(n, t[2]) = a * b + d
        /\ n <= MDMost * v + MD!Abs(d)
    <2>1. v \in Nat /\ MD!Abs(b) <= v /\ b \in MD!LongLongs /\ d \in MD!LongLongs
      BY <1>1, <1>4
    <2>2. /\ t[1] \in MDPair /\ t[2] \in BOOLEAN
          /\ Signed(MDNumber(t[1]), t[2]) = a * b + d
          /\ MDNumber(t[1]) <= MDMost * v + MD!Abs(d)
      BY <1>5, <2>1, MDSums
    <2> QED
      BY <2>2
  <1>8. n \in Nat
    BY <1>7, MDNumberOf
  <1> HIDE DEF p
  <1>9. p2 < MD!Word
    <2>1. n <= (MD!Word * v) * v + v
      <3> DEFINE x == MDMost * v
      <3>1. x \in Nat /\ n <= x + MD!Abs(d)
        BY <1>1, <1>7
      <3> HIDE DEF x, n
      <3>2. n <= x + v
        BY <1>1, <1>4, <1>8, <3>1
      <3> QED
        BY <1>1, <3>2 DEF x
    <2> QED
      BY <1>1, <1>7, <2>1, MDNarrow
  <1>10. p1 \in 0 .. MD!Double - 1 /\ p2 \in Nat /\ n = p1 + MD!Double * p2
    BY <1>1, <1>7 DEF MDPair, MDNumber
  <1>11. MD!Low(p2) = p2
    <2> HIDE DEF p2
    <2>1. p2 \in 0 .. MD!Word - 1
      BY <1>1, <1>9, <1>10
    <2>2. \A x \in 0 .. MD!Word - 1 : x % MD!Word = x
      BY <1>1
    <2> QED
      BY <2>1, <2>2 DEF MD!Low
  <1>12. negative \in BOOLEAN
    OBVIOUS
  <1>13. q = n \div MD!Abs(c)
    OBVIOUS
  <1>14. u \in Nat \ {0} /\ u <= MDMost
    BY <1>1, <1>3, <1>4
  <1> HIDE DEF p1, p2, n, u, negative
  <1>15. (p2 < u => q < MD!Double) /\ (p2 >= u => q >= MD!Double) /\ q \in Nat
    <2>1. q = n \div u
      OBVIOUS
    <2>2. (p2 < u => n < MD!Double * u) /\ (p2 >= u => n >= MD!Double * u)
      BY <1>7, <1>14, MDNumberOf DEF n, p2
    <2> HIDE DEF q
    <2>3. q \in Nat
          /\ (n < MD!Double * u => q < MD!Double) /\ (n >= MD!Double * u => q >= MD!Double)
      <3>1. MD!Double \in Nat \ {0}
        BY <1>1
      <3> QED
        BY <1>8, <1>14, <2>1, <3>1, MDFits
    <2> QED
      BY <2>2, <2>3
  <1>18. MDAnswer(r, q, negative)
    <2>1. CASE u <= p2
      <3>1. r = IF negative THEN -MDMost ELSE MDMost - 1
        BY <1>6, <1>11, <2>1, MDWords
      <3>2. q >= MD!Double
        BY <1>10, <1>14, <1>15, <2>1
      <3> HIDE DEF q
      <3>3. Signed(q, negative) \notin MD!LongLongs
        BY <1>1, <1>15, <3>2 DEF Signed
      <3> QED
        BY <3>1, <3>3 DEF MDAnswer
    <2>2. CASE ~(u <= p2)
      <3>1. p2 < u
        BY <1>10, <1>14, <2>2
      <3>2. PICK q1 \in 0 .. MD!Word - 1, q2 \in 0 .. MD!Word - 1 :
             /\ q1 = MD!Join(MD!Low(p2), MD!High(p1)) \div u
             /\ q2 = MD!Join(MD!Join(MD!Low(p2), MD!High(p1)) % u, MD!Low(p1)) \div u
             /\ (p1 + MD!Double * p2) \div u = MD!Word * q1 + q2
        BY <1>9, <1>10, <1>14, <3>1, MDWordwise
      <3>3. quotient = q
        <4>1. \A x \in 0 .. MD!Word - 1 : x % MD!Word = x
          BY <1>1
        <4>2. MD!Low(q1) = q1 /\ MD!Low(q2) = q2
          BY <4>1 DEF MD!Low
        <4>3. quotient = MD!Join(q1, q2)
          BY <3>2, <4>2, Zenon
        <4>4. MD!Join(q1, q2) = MD!Word * q1 + q2
          <5>1. q1 * MD!Word + q2 = MD!Word * q1 + q2
            BY <1>1, <3>2
          <5> QED
            BY <5>1 DEF MD!Join
        <4>5. q = (p1 + MD!Double * p2) \div u
          BY <1>10, Zenon
        <4> QED
          BY <3>2, <4>3, <4>4, <4>5, Zenon
      <3>4. r = MD!AsLongLong(Signed(q, negative))
        BY <1>6, <1>11, <2>2, <3>3, Zenon DEF Signed
      <3>5. ~(q >= MD!Double)
        <4> HIDE DEF q
        <4> QED
          BY <1>1, <1>15, <3>1
      <3>6. Signed(q, negative) \in MD!LongLongs => r = Signed(q, negative)
        BY <3>4, MDKeeps, Zenon
      <3> QED
        BY <3>5, <3>6, Zenon DEF MDAnswer
    <2> QED
      BY <2>1, <2>2
  <1> DEFINE N == a * b + d
  <1>19. N = Signed(n, t[2])
    BY <1>7
  <1> HIDE DEF N
  <1>20. MD!Truncated(N, c) = Signed(q, negative)
    <2>1. t[2] # (c < 0) <=> negative
      BY DEF negative
    <2>2. q = n \div MD!Abs(c)
      BY DEF u
    <2> HIDE DEF q
    <2>3. MD!Truncated(N, c) = Signed(q, t[2] # (c < 0))
      BY <1>4, <1>7, <1>8, <1>19, <2>2, MDTruncated
    <2> QED
      BY <2>3 DEF negative
  <1> HIDE DEF q
  <1>21. MDExact(Signed(q, negative), r)
    BY <1>12, <1>15, <1>18, MDAnswered
  <1> QED
    BY <1>20, <1>21 DEF N, r

LEMMA MDStart == MD!Init => MD!QuotientExact
  BY DEF MD!Init, MD!QuotientExact

LEMMA MDStep == MD!QuotientExact /\ [MD!Next]_(MD!vars) => MD!QuotientExact'
  <1> SUFFICES ASSUME MD!QuotientExact, [MD!Next]_(MD!vars) PROVE MD!QuotientExact'
    OBVIOUS
  <1>1. CASE MD!Call64
    <2>1. PICK a \in MD!LongLongs, b \in MD!LongLongs, c \in MD!LongLongs, d \in MD!LongLongs :
            md_call' = <<"llMulDiv", a, b, c, d>> /\ md_result' = MD!llMulDiv(a, b, c, d)
      BY <1>1 DEF MD!Call64
    <2>2. c # 0 => MDExact(MD!Truncated(a * b + d, c), MD!llMulDiv(a, b, c, d))
      BY MDMulDiv
    <2>3. md_call'[2] = a /\ md_call'[3] = b /\ md_call'[4] = c /\ md_call'[5] = d
      BY <2>1
    <2> QED
      BY <2>1, <2>2, <2>3 DEF MD!QuotientExact, MDExact
  <1>2. CASE MD!Call32
    <2>1. PICK a \in MD!LongLongs, b \in MD!Longs, c \in MD!Longs, d \in MD!Longs :
            md_call' = <<"Int64x32Div32", a, b, c, d>>
            /\ md_result' = MD!Int64x32Div32(a, b, c, d)
      BY <1>2 DEF MD!Call32
    <2>2. c # 0 => MDExact(MD!Truncated(a * b + d, c), MD!Int64x32Div32(a, b, c, d))
      BY MDInt64x32Div32
    <2>3. md_call'[2] = a /\ md_call'[3] = b /\ md_call'[4] = c /\ md_call'[5] = d
      BY <2>1
    <2> QED
      BY <2>1, <2>2, <2>3 DEF MD!QuotientExact, MDExact
  <1>3. CASE UNCHANGED MD!vars
    BY <1>3 DEF MD!vars, MD!QuotientExact
  <1> QED
    BY <1>1, <1>2, <1>3 DEF MD!Next
=============================================================================
