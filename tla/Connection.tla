----------------------------- MODULE Connection -----------------------------
(***************************************************************************)
(* The connection between an upstream filter's output pin (CBaseOutputPin) *)
(* and the renderer's input pin (CAudioInputPin on CBaseInputPin), and the *)
(* questions the input pin puts to the live OpenAL device while it answers *)
(* whether it accepts a media type.                                        *)
(*                                                                         *)
(* Three threads meet here: the graph's (Connect, Disconnect, and the      *)
(* states of the two filters), the streaming thread with a sample of a new *)
(* type, and anybody's, with a QueryAccept, which takes no lock.  Each of  *)
(* them stores the frequency, layout and bitness of the device one by one. *)
(*                                                                         *)
(* External: the filter graph manager calls one method at a time, connects *)
(* and disconnects stopped filters, and disconnects both ends; the         *)
(* upstream filter has stopped its streaming thread before it is stopped.  *)
(***************************************************************************)
EXTENDS Integers, Sequences

CONSTANTS
  Types,       (* media types: records with fields freq, layout, bits      *)
  Foreign,     (* those that CheckMediaType refuses before it asks the     *)
               (* device: not audio, no wave format, neither PCM nor float *)
  Offered,     (* the media types the output pin enumerates, in order      *)
  Layouts,     (* getSupportedSpeakerLayout                                *)
  Bits,        (* getSupportedBitness                                      *)
  Unknown,     (* a layout or bitness the switches of the check leave out  *)
  Default,     (* what the device is constructed with                      *)
  NoType       (* a media type whose majortype is GUID_NULL                *)

(* What the device may be set to. *)
Formats ==
  [freq   : {type.freq : type \in Types \cup {Default}},
   layout : {type.layout : type \in Types \cup {Default}} \cup Layouts,
   bits   : {type.bits : type \in Types \cup {Default}} \cup Bits]

ASSUME FormatsAssumption == Types \subseteq Formats /\ Default \in Formats
ASSUME OfferedAssumption == Offered \in Seq(Types)
ASSUME UnknownAssumption == Unknown \notin Layouts /\ Unknown \notin Bits
ASSUME NoTypeAssumption  == NoType \notin Types

VARIABLES
  upActive,    (* the upstream filter is paused or running                 *)
  active,      (* the renderer is paused or running                        *)
  connOut,     (* m_Connected of the output pin is the input pin           *)
  connIn,      (* m_Connected of the input pin is the output pin           *)
  inputPin,    (* m_pInputPin of the output pin is held                    *)
  mt,          (* m_mt of the input pin                                    *)
  outAlloc,    (* m_pAllocator of the output pin                           *)
  inAlloc,     (* m_pAllocator of the input pin                            *)
  refs,        (* references to each allocator                             *)
  committed,   (* allocators that are committed                            *)
  runTimeError,(* m_bRunTimeError of the input pin                         *)
  dev,         (* m_frequency, m_speaker_layout, m_bitness of the device   *)
  gpc,         (* where the graph's thread is                              *)
  todo,        (* media types it has still to try                          *)
  spc,         (* where the streaming thread is                            *)
  check,       (* where each thread is in CheckOpenALMediaType             *)
  asking,      (* the type it asks about                                   *)
  asked        (* history: a question was begun after the device was last  *)
               (* told to take the type of a connection                    *)

states   == <<upActive, active>>
ends     == <<connOut, connIn, inputPin, mt>>
allocs   == <<outAlloc, inAlloc, refs, committed>>
question == <<dev, check, asking>>
vars     == <<states, ends, allocs, runTimeError, gpc, todo, spc, question, asked>>

Threads == {"graph", "stream", "asker"}
Allocs  == {"input", "output"}   (* of CBaseInputPin, of CBaseOutputPin *)
None    == "none"

Inactive(t) == check[t] = "no"

PinsTypeOK ==
  /\ upActive \in BOOLEAN /\ active \in BOOLEAN
  /\ connOut \in BOOLEAN /\ connIn \in BOOLEAN /\ inputPin \in BOOLEAN
  /\ mt \in Types \cup {NoType}
  /\ outAlloc \in Allocs \cup {None} /\ inAlloc \in Allocs \cup {None}
  /\ refs \in [Allocs -> 0..2]
  /\ committed \subseteq {a \in Allocs : refs[a] > 0}
  /\ runTimeError \in BOOLEAN
  /\ gpc \in {"idle", "next", "receive", "set", "complete", "undo", "half"}
  /\ todo \in Seq(Types)
  /\ spc \in {"idle", "check", "set"}

QuestionTypeOK ==
  /\ dev \in Formats
  /\ check \in [Threads -> {"no", "freq", "layout", "bits", "yes", "refused"}]
  /\ asking \in [Threads -> Types \cup {NoType}]
  /\ \A t \in Threads : check[t] = "no" <=> asking[t] = NoType
  /\ asked \in BOOLEAN

(* The references are counted right: no allocator is released once more    *)
(* than it was handed out, or committed with nobody left to decommit it.   *)
TypeOK == PinsTypeOK /\ QuestionTypeOK

Init ==
  /\ upActive = FALSE /\ active = FALSE
  /\ connOut = FALSE /\ connIn = FALSE /\ inputPin = FALSE
  /\ mt = NoType
  /\ outAlloc = None /\ inAlloc = None
  /\ refs = [a \in Allocs |-> 0] /\ committed = {}
  /\ runTimeError = FALSE
  /\ dev = Default
  /\ gpc = "idle" /\ todo = << >> /\ spc = "idle"
  /\ check = [t \in Threads |-> "no"] /\ asking = [t \in Threads |-> NoType]
  /\ asked = FALSE

----------------------------------------------------------------------------
(* CheckMediaType and CheckOpenALMediaType, by thread t.                   *)

Ask(t, type) ==
  /\ check' = [check EXCEPT ![t] = IF type \in Foreign THEN "refused" ELSE "freq"]
  /\ asking' = [asking EXCEPT ![t] = type]
  /\ UNCHANGED dev

Answered(t, to) ==
  /\ check[t] \in to
  /\ check' = [check EXCEPT ![t] = "no"]
  /\ asking' = [asking EXCEPT ![t] = NoType]
  /\ UNCHANGED dev

StoreStep(t, from, to) ==
  /\ check[t] = from
  /\ check' = [check EXCEPT ![t] = to]
  /\ UNCHANGED <<states, ends, allocs, runTimeError, gpc, todo, spc, asking, asked>>

StoreFreq(t) ==
  /\ StoreStep(t, "freq", "layout")
  /\ dev' = [dev EXCEPT !.freq = asking[t].freq]

(* A value without a case in its switch leaves the local uninitialized: it *)
(* may pass for any of the supported values or for none of them.           *)
MayBe(x, supported) == IF x = Unknown THEN supported ELSE {x} \cap supported

StoreLayout(t) ==
  /\ check[t] = "layout"
  /\ \/ \E l \in MayBe(asking[t].layout, Layouts) :
          /\ StoreStep(t, "layout", "bits")
          /\ dev' = [dev EXCEPT !.layout = l]
     \/ /\ asking[t].layout \notin Layouts
        /\ StoreStep(t, "layout", "refused")
        /\ UNCHANGED dev

StoreBits(t) ==
  /\ check[t] = "bits"
  /\ \/ \E b \in MayBe(asking[t].bits, Bits) :
          /\ StoreStep(t, "bits", "yes")
          /\ dev' = [dev EXCEPT !.bits = b]
     \/ /\ asking[t].bits \notin Bits
        /\ StoreStep(t, "bits", "refused")
        /\ UNCHANGED dev

Store(t) == StoreFreq(t) \/ StoreLayout(t) \/ StoreBits(t)

----------------------------------------------------------------------------
(* QueryAccept, by a thread that holds no lock.                            *)

QueryAccept(type) ==
  /\ Inactive("asker")
  /\ Ask("asker", type)
  /\ asked' = TRUE
  /\ UNCHANGED <<states, ends, allocs, runTimeError, gpc, todo, spc>>

QueryAnswered ==
  /\ Answered("asker", {"yes", "refused"})
  /\ UNCHANGED <<states, ends, allocs, runTimeError, gpc, todo, spc, asked>>

----------------------------------------------------------------------------
(* References to allocators.                                               *)

Drop(r, a)   == IF a = None THEN r ELSE [r EXCEPT ![a] = @ - 1]
Decommit(a)  == committed' = committed \ {a}

GraphStep(from, to) ==
  /\ gpc = from
  /\ gpc' = to
  /\ UNCHANGED <<states, runTimeError, spc>>

(* CBaseOutputPin's BreakConnect, then m_Connected is released.            *)
BreakOut ==
  /\ connOut' = FALSE /\ inputPin' = FALSE
  /\ outAlloc' = None
  /\ refs' = Drop(refs, outAlloc)
  /\ Decommit(outAlloc)

(* Faulty: leaves the media type as it is.                                 *)
BreakInKeepsType ==
  IF mt = NoType
  THEN UNCHANGED <<mt, inAlloc, refs, committed>>
  ELSE /\ mt' = mt
       /\ inAlloc' = None
       /\ refs' = Drop(refs, inAlloc)
       /\ Decommit(inAlloc)

(* CAudioInputPin's BreakConnect does nothing without a media type; its    *)
(* Stop finds the filter stopped.                                          *)
BreakIn ==
  IF mt = NoType
  THEN UNCHANGED <<mt, inAlloc, refs, committed>>
  ELSE /\ mt' = NoType
       /\ inAlloc' = None
       /\ refs' = Drop(refs, inAlloc)
       /\ Decommit(inAlloc)

----------------------------------------------------------------------------
(* Connect, called on the output pin.                                      *)

(* AgreeMediaType: a type that is fully specified is the only one tried,   *)
(* else those the pins enumerate; the input pin enumerates none.           *)
Connect(list) ==
  /\ ~connOut /\ ~upActive
  /\ GraphStep("idle", "next")
  /\ todo' = list
  /\ UNCHANGED <<ends, allocs, question, asked>>

(* The enumeration ends: no type was agreed on, or the enumerator is out   *)
(* of sync with the output pin's list.                                     *)
ConnectFails ==
  /\ GraphStep("next", "idle")
  /\ todo' = << >>
  /\ BreakOut
  /\ UNCHANGED <<connIn, mt, inAlloc, question, asked>>

(* AttemptConnection: CheckConnect takes m_pInputPin; the output pin's own *)
(* CheckMediaType or SetMediaType may fail.                                *)
AttemptRefused ==
  /\ todo # << >>
  /\ GraphStep("next", "next")
  /\ todo' = Tail(todo)
  /\ BreakOut
  /\ UNCHANGED <<connIn, mt, inAlloc, question, asked>>

Attempt ==
  /\ todo # << >>
  /\ \/ /\ connIn \/ active
        /\ GraphStep("next", "undo")
        /\ UNCHANGED <<question, asked>>
     \/ /\ ~connIn /\ ~active
        /\ GraphStep("next", "receive")
        /\ Ask("graph", Head(todo))
        /\ asked' = TRUE
  /\ connOut' = TRUE /\ inputPin' = TRUE
  /\ UNCHANGED <<connIn, mt, allocs, todo>>

(* ReceiveConnection: the type is refused, or cannot be copied by          *)
(* SetMediaType; both are undone by BreakConnect.                          *)
ReceiveFails ==
  /\ GraphStep("receive", "undo")
  /\ Answered("graph", {"yes", "refused"})
  /\ BreakIn
  /\ UNCHANGED <<connOut, connIn, inputPin, outAlloc, todo, asked>>

(* Accepted; SetMediaType asks the device again.                           *)
ReceiveAccepts ==
  /\ GraphStep("receive", "set")
  /\ check["graph"] = "yes"
  /\ connIn' = TRUE
  /\ mt' = asking["graph"]
  /\ Ask("graph", asking["graph"])
  /\ asked' = ~Inactive("asker")
  /\ UNCHANGED <<connOut, inputPin, allocs, todo>>

(* S_FALSE is no failure to SetMediaType.                                  *)
ReceiveReturns ==
  /\ GraphStep("set", "complete")
  /\ Answered("graph", {"yes", "refused"})
  /\ UNCHANGED <<ends, allocs, todo, asked>>

CompleteWith(a) ==
  /\ GraphStep("complete", "idle")
  /\ inAlloc' = a /\ outAlloc' = a
  /\ todo' = << >>
  /\ UNCHANGED <<ends, committed, question, asked>>

(* Faulty: GetAllocator keeps the only reference to itself.                *)
CompleteWithoutAddRef ==
  /\ CompleteWith("input")
  /\ refs' = [refs EXCEPT !["input"] = 1]

(* DecideAllocator: the input pin creates an allocator, which both hold;   *)
CompleteWithInput ==
  /\ CompleteWith("input")
  /\ refs' = [refs EXCEPT !["input"] = 2]

(* Faulty: NotifyAllocator does not release the old one.                   *)
CompleteKeepsOld ==
  /\ CompleteWith("output")
  /\ refs' = [refs EXCEPT !["output"] = 2, !["input"] = 1]

(* or, if it cannot or DecideBufferSize refuses that one, the output pin   *)
(* creates one, for which the input pin releases its own;                  *)
CompleteWithOutput ==
  /\ CompleteWith("output")
  /\ refs' = [refs EXCEPT !["output"] = 2, !["input"] = 0]

(* Faulty: leaves the other pin connected.                                 *)
CompleteFailsQuietly ==
  /\ GraphStep("complete", "undo")
  /\ UNCHANGED <<ends, allocs, todo, question, asked>>

(* or neither will do, and the input pin is disconnected, which releases   *)
(* the allocator it may have created.                                      *)
CompleteFails ==
  /\ GraphStep("complete", "undo")
  /\ BreakIn
  /\ connIn' = FALSE
  /\ UNCHANGED <<connOut, inputPin, outAlloc, todo, question, asked>>

(* Undo what AttemptConnection has done, and try the next type.            *)
Undo ==
  /\ GraphStep("undo", "next")
  /\ BreakOut
  /\ todo' = Tail(todo)
  /\ UNCHANGED <<connIn, mt, inAlloc, question, asked>>

----------------------------------------------------------------------------
(* Disconnect of both ends, one after the other.                           *)

DisconnectOut ==
  /\ connOut /\ ~upActive /\ ~active
  /\ GraphStep(gpc, IF gpc = "half" THEN "idle" ELSE "half")
  /\ gpc \in {"idle", "half"}
  /\ BreakOut
  /\ UNCHANGED <<connIn, mt, inAlloc, todo, question, asked>>

DisconnectIn ==
  /\ connIn /\ ~upActive /\ ~active
  /\ GraphStep(gpc, IF gpc = "half" THEN "idle" ELSE "half")
  /\ gpc \in {"idle", "half"}
  /\ BreakIn
  /\ connIn' = FALSE
  /\ UNCHANGED <<connOut, inputPin, outAlloc, todo, question, asked>>

----------------------------------------------------------------------------
(* The states of the filters.                                              *)

StateStep ==
  /\ gpc = "idle"
  /\ UNCHANGED <<ends, outAlloc, inAlloc, refs, runTimeError, gpc, todo, spc,
                 question, asked>>

(* Active of the output pin commits.                                       *)
UpPause ==
  /\ ~upActive
  /\ StateStep
  /\ upActive' = TRUE
  /\ committed' = IF connOut THEN committed \cup {outAlloc} ELSE committed
  /\ UNCHANGED active

UpStop ==
  /\ upActive /\ spc = "idle"
  /\ StateStep
  /\ upActive' = FALSE
  /\ Decommit(outAlloc)
  /\ UNCHANGED active

(* Pause, Run and Stop of the renderer wait for its lock, which            *)
(* SetMediaType holds.  Its pin's Active and Inactive do nothing.          *)
Pause ==
  /\ ~active /\ spc # "set"
  /\ StateStep
  /\ active' = TRUE
  /\ UNCHANGED <<upActive, committed>>

Stop ==
  /\ active /\ spc # "set"
  /\ StateStep
  /\ active' = FALSE
  /\ UNCHANGED <<upActive, committed>>

----------------------------------------------------------------------------
(* The streaming thread: a sample that carries a media type.               *)

StreamStep(from, to) ==
  /\ spc = from
  /\ spc' = to
  /\ UNCHANGED <<states, connOut, connIn, inputPin, allocs, gpc, todo>>

Receive(type) ==
  /\ upActive /\ connOut
  /\ active /\ ~runTimeError
  /\ StreamStep("idle", "check")
  /\ Ask("stream", type)
  /\ asked' = TRUE
  /\ UNCHANGED <<mt, runTimeError>>

ReceiveRefused ==
  /\ StreamStep("check", "idle")
  /\ Answered("stream", {"refused"})
  /\ runTimeError' = TRUE
  /\ UNCHANGED <<mt, asked>>

(* Faulty: does not ask the device again.                                  *)
SetWithoutCheck ==
  /\ StreamStep("check", "idle")
  /\ mt' = asking["stream"]
  /\ Answered("stream", {"yes"})
  /\ asked' = ~Inactive("asker")
  /\ UNCHANGED runTimeError

SetMediaType ==
  /\ StreamStep("check", "set")
  /\ check["stream"] = "yes"
  /\ mt' = asking["stream"]
  /\ Ask("stream", asking["stream"])
  /\ asked' = ~Inactive("asker")
  /\ UNCHANGED runTimeError

SetMediaTypeReturns ==
  /\ StreamStep("set", "idle")
  /\ Answered("stream", {"yes", "refused"})
  /\ UNCHANGED <<mt, runTimeError, asked>>

EndFlush ==
  /\ upActive /\ connOut
  /\ runTimeError' = FALSE
  /\ UNCHANGED <<states, ends, allocs, gpc, todo, spc, question, asked>>

----------------------------------------------------------------------------
Connecting ==
  \/ ConnectFails \/ AttemptRefused \/ Attempt
  \/ ReceiveFails \/ ReceiveAccepts \/ ReceiveReturns
  \/ CompleteWithInput \/ CompleteWithOutput \/ CompleteFails \/ Undo

Graph ==
  \/ Connect(Offered) \/ (\E type \in Types : Connect(<<type>>))
  \/ Connecting
  \/ DisconnectOut \/ DisconnectIn
  \/ UpPause \/ UpStop \/ Pause \/ Stop

Stream ==
  \/ (\E type \in Types : Receive(type))
  \/ ReceiveRefused \/ SetMediaType \/ SetMediaTypeReturns \/ EndFlush

Asker == (\E type \in Types : QueryAccept(type)) \/ QueryAnswered

Next == Graph \/ Stream \/ Asker \/ \E t \in Threads : Store(t)

Spec == Init /\ [][Next]_vars

----------------------------------------------------------------------------
(* The input pin has a media type exactly while it is connected ("so that  *)
(* we can always use that to determine whether we are connected or not").  *)
TypeIffConnected == connIn <=> mt # NoType

(* Between two calls of the graph both pins are connected or neither is,   *)
(* and connected pins hold the same allocator, committed exactly while the *)
(* upstream filter is active.                                              *)
PinsAgree ==
  gpc = "idle" =>
    /\ connOut = connIn
    /\ connOut => /\ outAlloc = inAlloc /\ outAlloc # None
                  /\ upActive <=> outAlloc \in committed

(* A connection that ended or failed, at whatever step, leaves no          *)
(* reference behind.                                                       *)
NothingLeft ==
  (gpc = "idle" /\ ~connOut) =>
    ~inputPin /\ \A a \in Allocs : refs[a] = 0 /\ a \notin committed

(* What the device plays as is the type of the connection, unless somebody *)
(* has asked about a type since.                                           *)
Known == {type \in Types : Unknown \notin {type.layout, type.bits}}

DeviceConfigured ==
  (connIn /\ mt \in Known /\ gpc # "set" /\ spc # "set" /\ ~asked) => dev = mt

(* A connection is whole or not there: both pins, their media type, the    *)
(* allocator and every reference to it, wherever an attempt fails.         *)
ConnectionWhole == TypeOK /\ TypeIffConnected /\ PinsAgree /\ NothingLeft

(* A pin that is only asked whether it would accept a type does not touch  *)
(* the format of its connection: with every call returned the device plays *)
(* as agreed ("set the connection to use this format (previously agreed)"  *)
(* is said of SetMediaType, "check if the pin can support" of the check).  *)
DeviceFollowsType ==
  (connIn /\ mt \in Known /\ gpc = "idle" /\ spc = "idle" /\ ~runTimeError
    /\ Inactive("asker")) => dev = mt
=============================================================================
