---------------------------- MODULE Enumerators -----------------------------
(***************************************************************************)
(* CEnumPins and CEnumMediaTypes (amfilter.cpp): enumerators of the pins   *)
(* of a filter or of the media types of a pin, while another thread        *)
(* changes the list and then increments its version.  No lock is held: an  *)
(* enumerator knows of a change only by the version it has read.  `kind`   *)
(* says which of the two the behaviour is about.  Enumerators of one list  *)
(* share nothing, so there is one, used by one thread; Clone goes on with  *)
(* the copy.                                                               *)
(***************************************************************************)
EXTENDS Integers, Sequences, FiniteSets

CONSTANTS Items,     \* the pins, by address, or the media types
          Versions,  \* bound on the versions
          Most       \* bound on the number asked for by Next and Skip

VARIABLES
  kind,      \* "pins" or "types"
  list,      \* what GetPin or GetMediaType gives, by position
  version,   \* m_PinVersion or m_TypeVersion
  changing,  \* the list has been changed and the version not yet
  enum       \* the enumerator's members and the call its thread is in

vars == <<kind, list, version, changing, enum>>

Lists == {l \in UNION {[1..n -> Items] : n \in 0..Cardinality(Items)} :
            \A i, j \in DOMAIN l : l[i] = l[j] => i = j}

\* `given` (history) holds the types handed out, with their positions, and
\* `skipped` (history) the positions Skip passed over.
Fresh == [pc |-> "idle", position |-> 0, count |-> 0, version |-> 0,
          cache |-> {}, given |-> {}, skipped |-> {}, want |-> 0]

Init ==
  /\ kind \in {"pins", "types"}
  /\ list \in Lists /\ version = 0 /\ changing = FALSE
  /\ enum = [Fresh EXCEPT !.count = Len(list)]

OutOfSync == enum.version # version

Is(pc) == enum.pc = pc
Set(r) == enum' = r /\ UNCHANGED <<kind, list, version, changing>>

-----------------------------------------------------------------------------
(* The owner of the list.                                                  *)

ChangeList ==
  /\ ~changing /\ version < Versions
  /\ list' \in Lists \ {list}
  /\ changing' = TRUE
  /\ UNCHANGED <<kind, version, enum>>

IncrementVersion ==
  /\ changing
  /\ version' = version + 1 /\ changing' = FALSE
  /\ UNCHANGED <<kind, list, enum>>

-----------------------------------------------------------------------------
(* CEnumPins: out of step it starts again, but gives no pin twice.         *)

NextPins(n) ==
  /\ kind = "pins" /\ Is("idle")
  /\ Set([enum EXCEPT !.want = n,
                      !.pc = IF OutOfSync THEN "version" ELSE "fetch"])

ResetPins ==
  /\ kind = "pins" /\ Is("idle")
  /\ Set([enum EXCEPT !.pc = "version"])

\* Refresh and Reset: the version is read before the number of pins.
ReadVersion ==
  /\ Is("version")
  /\ Set([enum EXCEPT !.version = version, !.pc = "count"])

ReadCount ==
  /\ Is("count")
  /\ LET reset == enum.want = 0
     IN Set([enum EXCEPT !.count = Len(list), !.position = 0,
                            !.skipped = {},
                            !.cache = IF reset THEN {} ELSE @,
                            !.pc = IF reset THEN "idle" ELSE "fetch"])

Returns(r) == [r EXCEPT !.pc = "idle", !.want = 0]

\* One turn of the loop of CEnumPins::Next.
FetchPin ==
  LET r == enum
      i == r.position + 1
  IN /\ kind = "pins" /\ Is("fetch")
     /\ \/ /\ r.want = 0 \/ r.count <= r.position
           /\ Set(Returns(r))
        \/ /\ r.want > 0 /\ r.position < r.count
           /\ \/ i \notin DOMAIN list
                 /\ Set(Returns([r EXCEPT !.position = i]))
              \/ i \in DOMAIN list /\ list[i] \in enum.cache
                 /\ Set([r EXCEPT !.position = i])
              \/ i \in DOMAIN list /\ list[i] \notin enum.cache
                 /\ Set([r EXCEPT !.position = i, !.want = @ - 1,
                                 !.cache = @ \cup {list[i]}])

-----------------------------------------------------------------------------
(* CEnumMediaTypes: out of step it fails until Reset.                      *)

\* A position beyond the end only grows: bounded here.
InReach == enum.position <= Cardinality(Items)

NextTypes(n) ==
  /\ kind = "types" /\ Is("idle")
  /\ ~OutOfSync /\ InReach
  /\ Set([enum EXCEPT !.want = n, !.pc = "fetch"])

\* The position moves even when there is no type there.
FetchType ==
  LET r == enum
      i == r.position + 1
  IN /\ kind = "types" /\ Is("fetch")
     /\ \/ r.want = 0 /\ Set(Returns(r))
        \/ r.want > 0 /\ i \notin DOMAIN list
           /\ Set(Returns([r EXCEPT !.position = i]))
        \/ r.want > 0 /\ i \in DOMAIN list
           /\ Set([r EXCEPT !.position = i, !.want = @ - 1,
                           !.given = @ \cup {<<i, list[i]>>}])

ResetTypes ==
  /\ kind = "types" /\ Is("idle")
  /\ Set([Fresh EXCEPT !.version = version])

-----------------------------------------------------------------------------
(* Both.                                                                   *)

\* Only CEnumPins knows where the end is.
Skip(n) ==
  LET r == enum IN
  /\ Is("idle") /\ ~OutOfSync
  /\ kind = "pins" => n <= r.count - r.position
  /\ InReach
  /\ Set([r EXCEPT !.position = @ + n,
                   !.skipped = @ \cup (r.position + 1)..(r.position + n)])

\* Clone checks the version, then the constructor copies the members.
BeginClone ==
  /\ Is("idle") /\ ~OutOfSync
  /\ Set([enum EXCEPT !.pc = "clone"])

\* Faulty: the copy takes the present version instead of the original's.
CloneInStep ==
  /\ Is("clone")
  /\ Set([Returns(enum) EXCEPT !.version = version])

EndClone ==
  /\ Is("clone")
  /\ Set(Returns(enum))

Enumerate ==
  \/ \E n \in 1..Most : NextPins(n) \/ NextTypes(n) \/ Skip(n)
  \/ ResetPins \/ ReadVersion \/ ReadCount \/ FetchPin
  \/ FetchType \/ ResetTypes
  \/ BeginClone \/ EndClone

Next == ChangeList \/ IncrementVersion \/ Enumerate

Spec == Init /\ [][Next]_vars

-----------------------------------------------------------------------------

Settled == Is("idle") /\ ~OutOfSync /\ ~changing

\* An enumerator of pins that is in step with its filter and has come to the
\* end has given every pin the filter has, or passed it over by Skip, however
\* often and at whatever moment the filter's pins were changed meanwhile:
\* Refresh must read the version before the number of pins.
EveryPinGiven ==
  kind = "pins" /\ Settled /\ enum.position >= enum.count =>
    \A i \in DOMAIN list : i \in enum.skipped \/ list[i] \in enum.cache

\* The types an enumerator in step with its pin has given are those of one
\* list, the pin's present one, each at its place and none left out: a
\* change in the middle of Next or of Clone leaves the enumerator out of step.
TypesOfOneList ==
  kind = "types" /\ Settled =>
    /\ \A g \in enum.given : g[1] \in DOMAIN list /\ list[g[1]] = g[2]
    /\ \A i \in DOMAIN list \cap 1..enum.position :
         i \in enum.skipped \/ <<i, list[i]>> \in enum.given

\* What the enumerators promise.
EnumerationSound == EveryPinGiven /\ TypesOfOneList
=============================================================================
