----------------------------- MODULE MediaTypes -----------------------------
(***************************************************************************)
(* CMediaType and the functions beside it (mtype.cpp): media types that    *)
(* each own a block of memory for their format and a reference to pUnk.    *)
(* Any allocation may fail.  A declared CMediaType is destroyed, one that  *)
(* CreateMediaType made is deleted, and either may be freed and used on.   *)
(***************************************************************************)
EXTENDS Integers, Sequences, FiniteSets

CONSTANTS Types,       \* media types, by address
          FormatTypes, \* values of formattype beside GUID_NULL
          Formats,     \* format blocks: not empty sequences of bytes
          Blocks,      \* the blocks 1..Blocks there is memory for
          LostMax      \* bound: references short after failed copies

NULL == 0
GUID_NULL == "null"
Free == <<>>
Lengths == {Len(f) : f \in Formats}

VARIABLES
  type,    \* type -> what it holds, see Empty
  heap,    \* block -> its bytes, Free when it is not allocated
  m_cRef,  \* references taken of the object pUnk points to
  copied,  \* the two types of the last copy that succeeded, in order
  lost     \* references never taken for a pUnk that failed copies hold

vars == <<type, heap, m_cRef, copied, lost>>

\* InitMediaType.  A size of 0 means there is no format.
Unmade == [is |-> "unmade", formattype |-> GUID_NULL, cbFormat |-> 0,
           pbFormat |-> NULL, pUnk |-> FALSE]
Empty == [Unmade EXCEPT !.is = "object"]

Init ==
  /\ type = [t \in Types |-> Unmade]
  /\ heap = [b \in 1..Blocks |-> Free]
  /\ m_cRef = 0 /\ copied = <<>> /\ lost = 0

Live == {t \in Types : type[t].is # "unmade"}
Format(t) == IF type[t].cbFormat = 0 THEN Free ELSE heap[type[t].pbFormat]

-----------------------------------------------------------------------------
(* Memory: an allocation is given a block, no matter which, or none.       *)

NewBlock(h) == {b \in 1..Blocks : h[b] = Free}
CoTaskMemAlloc(h) ==
  {NULL} \cup (IF NewBlock(h) = {} THEN {} ELSE {CHOOSE b \in NewBlock(h) : TRUE})
CoTaskMemFree(h, b) == [h EXCEPT ![b] = Free]

One(held) == IF held THEN 1 ELSE 0

Freed(h, t) == IF type[t].cbFormat # 0 THEN CoTaskMemFree(h, type[t].pbFormat) ELSE h

\* What a type that has been changed was or is a copy of is no longer told.
Changes == copied' = <<>>

-----------------------------------------------------------------------------
(* Copies.                                                                 *)

\* The target is given all that the source holds: faulty where that is a block.
CopyShallow(h, s) ==
  {[heap |-> h, fields |-> s, ok |-> TRUE, taken |-> One(s.pUnk), lost |-> 0]}

\* CopyMediaType: without memory it fails, having copied the pointer pUnk but taken
\* no reference.
CopyMediaType(h, s) ==
  LET Into(b) == [heap |-> [h EXCEPT ![b] = h[s.pbFormat]],
                  fields |-> [s EXCEPT !.pbFormat = b], ok |-> TRUE,
                  taken |-> One(s.pUnk), lost |-> 0]
      Fails == [heap |-> h, fields |-> [s EXCEPT !.cbFormat = 0, !.pbFormat = NULL],
                ok |-> FALSE, taken |-> 0, lost |-> One(s.pUnk)]
  IN IF s.cbFormat = 0 THEN CopyShallow(h, s)
     ELSE {IF b = NULL THEN Fails ELSE Into(b) : b \in CoTaskMemAlloc(h)}

Copies(t, s, c) ==
  /\ lost + c.lost <= LostMax
  /\ heap' = c.heap /\ lost' = lost + c.lost
  /\ copied' = IF c.ok THEN <<t, s>> ELSE <<>>

\* Faulty: the type that is set keeps what it held, and loses it.
SetOver(t, s) ==
  /\ t # s /\ {t, s} \subseteq Live
  /\ \E c \in CopyMediaType(heap, type[s]) :
       /\ type' = [type EXCEPT ![t] = [c.fields EXCEPT !.is = type[t].is]]
       /\ Copies(t, s, c) /\ m_cRef' = m_cRef + c.taken

\* Set and the assignments, which do not tell that the copy failed; setting a type
\* to itself does nothing.
Set(t, s) ==
  /\ t # s /\ {t, s} \subseteq Live
  /\ \E c \in CopyMediaType(Freed(heap, t), type[s]) :
       /\ type' = [type EXCEPT ![t] = [c.fields EXCEPT !.is = type[t].is]]
       /\ Copies(t, s, c) /\ m_cRef' = m_cRef - One(type[t].pUnk) + c.taken

\* The constructor that copies leaves a failed copy to live on.
ConstructCopy(t, s) ==
  /\ t \notin Live /\ s \in Live
  /\ \E c \in CopyMediaType(heap, type[s]) :
       /\ type' = [type EXCEPT ![t] = [c.fields EXCEPT !.is = "object"]]
       /\ Copies(t, s, c) /\ m_cRef' = m_cRef + c.taken

\* CreateMediaType frees the structure of a failed copy, and nothing else.
CreateMediaType(t, s) ==
  /\ t \notin Live /\ s \in Live
  /\ \E c \in CopyMediaType(heap, type[s]) :
       /\ c.ok
       /\ type' = [type EXCEPT ![t] = [c.fields EXCEPT !.is = "created"]]
       /\ Copies(t, s, c) /\ m_cRef' = m_cRef + c.taken

-----------------------------------------------------------------------------
(* The fields of one type.                                                 *)

Construct(t) ==
  /\ t \notin Live /\ type' = [type EXCEPT ![t] = Empty]
  /\ Changes /\ UNCHANGED <<heap, m_cRef, lost>>

SetFormatType(t) ==
  /\ t \in Live
  /\ \E f \in FormatTypes \cup {GUID_NULL} : type' = [type EXCEPT ![t].formattype = f]
  /\ Changes /\ UNCHANGED <<heap, m_cRef, lost>>

\* Whoever fills in pUnk takes the reference.
SetUnknown(t) ==
  /\ t \in Live /\ ~type[t].pUnk
  /\ type' = [type EXCEPT ![t].pUnk = TRUE] /\ m_cRef' = m_cRef + 1
  /\ Changes /\ UNCHANGED <<heap, lost>>

\* A fresh block b filled with f in place of the old one; or the old one untouched,
\* which does for a format no longer.
Fresh(t, b, f) ==
  [fields |-> [type[t] EXCEPT !.cbFormat = Len(f), !.pbFormat = b],
   heap |-> Freed([heap EXCEPT ![b] = f], t), ok |-> TRUE]
Same(t, length) ==
  [fields |-> type[t], heap |-> heap, ok |-> length <= type[t].cbFormat]

\* A buffer of the length asked for, with old in front if it is kept; or the old one.
Fills(length, old) ==
  {f \in Formats : /\ Len(f) = length
                   /\ \A i \in 1..length : i <= Len(old) => f[i] = old[i]}
Buffers(t, length, old) ==
  {Same(t, length)} \cup
  {Fresh(t, b, f) : b \in IF type[t].cbFormat = length THEN {}
                          ELSE CoTaskMemAlloc(heap) \ {NULL},
                    f \in Fills(length, old)}

\* AllocFormatBuffer, whose fresh bytes may be any.
AllocFormatBuffer(t, length) == Buffers(t, length, Free)

ReallocFormatBuffer(t) ==
  /\ t \in Live
  /\ \E length \in Lengths : \E c \in Buffers(t, length, Format(t)) :
       type' = [type EXCEPT ![t] = c.fields] /\ heap' = c.heap
  /\ Changes /\ UNCHANGED <<m_cRef, lost>>

\* A format shorter than the old one, for which there is no new memory, overwrites
\* the front of the old one and leaves its length.
SetFormat(t) ==
  /\ t \in Live
  /\ \E f \in Formats : \E c \in AllocFormatBuffer(t, Len(f)) :
       /\ type' = [type EXCEPT ![t] = c.fields]
       /\ heap' = IF c.ok
                    THEN [c.heap EXCEPT ![c.fields.pbFormat] =
                            [i \in DOMAIN @ |-> IF i <= Len(f) THEN f[i] ELSE @[i]]]
                    ELSE heap
  /\ Changes /\ UNCHANGED <<m_cRef, lost>>

ResetFormatBuffer(t) ==
  /\ t \in Live
  /\ type' = [type EXCEPT ![t].cbFormat = 0, ![t].pbFormat = NULL]
  /\ heap' = Freed(heap, t)
  /\ Changes /\ UNCHANGED <<m_cRef, lost>>

-----------------------------------------------------------------------------
(* Ends.                                                                   *)

\* FreeMediaType, and what follows it: nothing, the end of an object's scope, or
\* the structure's memory freed by DeleteMediaType.
FreeMediaType(t, gone) ==
  /\ t \in Live
  /\ type' = [type EXCEPT ![t] =
       IF gone THEN Unmade
       ELSE [@ EXCEPT !.cbFormat = 0, !.pbFormat = NULL, !.pUnk = FALSE]]
  /\ heap' = Freed(heap, t)
  /\ m_cRef' = m_cRef - One(type[t].pUnk)
  /\ Changes /\ UNCHANGED lost

Next == \E t \in Types :
  \/ Construct(t) \/ SetFormatType(t) \/ SetUnknown(t)
  \/ ReallocFormatBuffer(t) \/ SetFormat(t) \/ ResetFormatBuffer(t)
  \/ (\E s \in Types : Set(t, s) \/ ConstructCopy(t, s) \/ CreateMediaType(t, s))
  \/ \E gone \in BOOLEAN : FreeMediaType(t, gone)

Spec == Init /\ [][Next]_vars

-----------------------------------------------------------------------------
(* Comparisons.                                                            *)

\* operator ==.
Equal(s, t) ==
  type[s].formattype = type[t].formattype /\ Format(s) = Format(t)

\* MatchesPartial: s is what the partly specified type p asks for.  Major type and
\* subtype, which own no memory, are left out here and above.
MatchesPartial(s, p) ==
  type[p].formattype # GUID_NULL => Equal(s, p)

-----------------------------------------------------------------------------
(* Properties.                                                             *)

TypeOK ==
  /\ \A t \in Types :
       /\ type[t].is \in {"unmade", "object", "created"}
       /\ type[t].formattype \in FormatTypes \cup {GUID_NULL}
       /\ type[t].cbFormat \in Lengths \cup {0}
       /\ type[t].pbFormat \in 0..Blocks /\ type[t].pUnk \in BOOLEAN
  /\ \A b \in DOMAIN heap : heap[b] \in Formats \cup {Free}
  /\ m_cRef \in Int

\* Every block allocated is the format of exactly one type, of the size it says, and
\* a type without a format has none: no step frees a block twice, loses one or lets
\* two types share one, whatever allocation fails (the code of mtype.cpp).
OwnsItsFormat ==
  /\ \A t \in Types : IF type[t].cbFormat = 0 THEN type[t].pbFormat = NULL
                      ELSE Len(heap[type[t].pbFormat]) = type[t].cbFormat
  /\ \A b \in DOMAIN heap :
       Cardinality({t \in Types : type[t].cbFormat # 0 /\ type[t].pbFormat = b}) =
         (IF heap[b] = Free THEN 0 ELSE 1)

\* The types hold one reference each of the object they point to, less one for each
\* copy of such a type that failed for want of memory: no other sequence of copies,
\* settings and ends takes a reference too many or releases one twice.
ReferencesHeld ==
  m_cRef = Cardinality({t \in Live : type[t].pUnk}) - lost

\* What a copy has made is equal to its source and matches it until either is
\* changed, though they share no memory.
CopyIsEqual ==
  copied # <<>> => /\ Equal(copied[1], copied[2])
                   /\ MatchesPartial(copied[1], copied[2])
                   /\ type[copied[1]].pUnk = type[copied[2]].pUnk

=============================================================================
