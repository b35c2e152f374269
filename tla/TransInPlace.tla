---------------------------- MODULE TransInPlace ----------------------------
(***************************************************************************)
(* CTransInPlaceFilter (transip.cpp): which allocator each of its two pins *)
(* uses as the filters upstream and downstream come and go.  The filter    *)
(* works in place when both pins have one allocator and copies when not.   *)
(* Connections are made by the graph, one at a time while everything is    *)
(* stopped; a reconnection asked for is made later.  The other filters     *)
(* follow CBaseOutputPin::DecideAllocator, with any preference.            *)
(***************************************************************************)
EXTENDS Integers

VARIABLES
  modifies,   \* m_bModifiesData
  in, out,    \* the pins are connected
  inAlloc,    \* m_pAllocator of the input pin
  outAlloc,   \* m_pAllocator of the output pin
  readOnly,   \* m_bReadOnly of the input pin
  told,       \* the allocator the filter downstream was notified of last
  upReadOnly, \* the filter upstream wants its own allocator's buffers kept
  offers,     \* the filter downstream has an allocator to offer
  pendingIn,  \* a reconnection of the input pin has been asked for
  pendingOut  \* ... of the output pin

choice == <<inAlloc, outAlloc, readOnly, told>>
pending == <<pendingIn, pendingOut>>
vars == <<modifies, in, out, choice, upReadOnly, offers, pending>>

\* "temp" is one the input pin makes, "own" one the output pin makes.
Allocators == {"none", "up", "down", "temp", "own"}

Init ==
  /\ modifies \in BOOLEAN
  /\ in = FALSE /\ out = FALSE
  /\ inAlloc = "none" /\ outAlloc = "none" /\ readOnly = FALSE /\ told = "none"
  /\ upReadOnly \in BOOLEAN /\ offers \in BOOLEAN
  /\ pendingIn = FALSE /\ pendingOut = FALSE

-----------------------------------------------------------------------------
(* GetAllocator and NotifyAllocator of the input pin, on a record of the   *)
(* four variables of the choice.  Each gives the set of its outcomes.      *)

Choice == [in |-> inAlloc, out |-> outAlloc, ro |-> readOnly, told |-> told, ok |-> FALSE]

Becomes(c) ==
  /\ inAlloc' = c.in /\ outAlloc' = c.out /\ readOnly' = c.ro /\ told' = c.told

\* With the output connected, what the filter downstream offers, which becomes the
\* output pin's allocator at once; else a temporary one.
CanOffer == ~out \/ offers
WithOffer(c) == IF out THEN [c EXCEPT !.out = "down"] ELSE [c EXCEPT !.in = "temp"]
TheOffer == IF out THEN "down" ELSE "temp"

Refused(c) == [c EXCEPT !.ok = FALSE]

\* Faulty: takes a read-only allocator like any other.
NotifyAllTheSame(c, a, ro) ==
  LET d == [c EXCEPT !.ro = ro]
  IN IF ~out THEN {[d EXCEPT !.in = a, !.ok = TRUE]}
     ELSE {Refused(d), [d EXCEPT !.in = a, !.out = a, !.told = a, !.ok = TRUE]}

\* A read-only allocator is accepted for data to be modified only if the output
\* pin has another one to copy into.
NotifyAllocator(c, a, ro) ==
  LET d == [c EXCEPT !.ro = ro]
      other == IF c.out # "none" THEN c.out ELSE IF offers THEN "down" ELSE "own"
      e == [d EXCEPT !.out = other]
  IN IF ~out THEN {[d EXCEPT !.in = a, !.ok = TRUE]}
     ELSE IF ro /\ modifies
       THEN {Refused(e)} \cup
            (IF a = other THEN {} ELSE {[e EXCEPT !.in = a, !.told = other, !.ok = TRUE]})
       ELSE {Refused(d), [d EXCEPT !.in = a, !.out = a, !.told = a, !.ok = TRUE]}

\* DecideAllocator upstream: perhaps the allocator offered, and if not that its own.
DecideUpstream(c, ownReadOnly) ==
  LET tried == IF CanOffer
                 THEN UNION {NotifyAllocator(WithOffer(c), TheOffer, ro) : ro \in BOOLEAN}
                 ELSE {}
      left == {c} \cup {t \in tried : ~t.ok}
  IN {t \in tried : t.ok} \cup UNION {NotifyAllocator(l, "up", ownReadOnly) : l \in left}

-----------------------------------------------------------------------------
(* The graph connects, disconnects and reconnects.                         *)

\* The input pin's CompleteConnect asks for a reconnection of the output if the
\* types differ; a connection that fails leaves the pin without an allocator.
InputConnects(c, ownReadOnly, differs) ==
  \E d \in DecideUpstream(c, ownReadOnly) :
    /\ in' = d.ok
    /\ Becomes(IF d.ok THEN d ELSE [d EXCEPT !.in = "none"])
    /\ pendingIn' = FALSE
    /\ pendingOut' = (pendingOut \/ (out /\ differs))

ConnectIn ==
  /\ ~in
  /\ \E ro, differs \in BOOLEAN : /\ upReadOnly' = ro
                                  /\ InputConnects(Choice, ro, differs)
  /\ UNCHANGED <<modifies, out, offers>>

\* By ReconnectEx with the type of the output.
ReconnectIn ==
  /\ pendingIn /\ in
  /\ InputConnects([Choice EXCEPT !.in = "none"], upReadOnly, FALSE)
  /\ UNCHANGED <<modifies, out, upReadOnly, offers>>

\* The output pin's DecideAllocator: the allocator of the filter downstream, if it
\* has one that will do, or one of its own.  Its CompleteConnect asks for a
\* reconnection of the input.
OutputConnects(has) ==
  /\ outAlloc' \in {"own", "none"} \cup (IF has THEN {"down"} ELSE {})
  /\ told' = outAlloc'
  /\ out' = (outAlloc' # "none")
  /\ pendingOut' = FALSE
  /\ pendingIn' = (pendingIn \/ (out' /\ in))
  /\ UNCHANGED <<inAlloc, readOnly>>

ConnectOut ==
  /\ ~out
  /\ \E has \in BOOLEAN : offers' = has /\ OutputConnects(has)
  /\ UNCHANGED <<modifies, in, upReadOnly>>

ReconnectOut ==
  /\ pendingOut /\ out
  /\ OutputConnects(offers)
  /\ UNCHANGED <<modifies, in, upReadOnly, offers>>

\* The pin disconnected gives its allocator up; the other keeps what it has.
DisconnectIn ==
  /\ in
  /\ in' = FALSE /\ inAlloc' = "none" /\ pendingIn' = FALSE
  /\ UNCHANGED <<modifies, out, outAlloc, readOnly, told, upReadOnly, offers, pendingOut>>

DisconnectOut ==
  /\ out
  /\ out' = FALSE /\ outAlloc' = "none" /\ told' = "none" /\ pendingOut' = FALSE
  /\ UNCHANGED <<modifies, in, inAlloc, readOnly, upReadOnly, offers, pendingIn>>

Next == ConnectIn \/ ReconnectIn \/ ConnectOut \/ ReconnectOut
        \/ DisconnectIn \/ DisconnectOut

Spec == Init /\ [][Next]_vars

-----------------------------------------------------------------------------
(* Properties.                                                             *)

\* The type invariant.
TypeOK ==
  /\ {modifies, in, out, readOnly, upReadOnly, offers, pendingIn, pendingOut}
       \subseteq BOOLEAN
  /\ {inAlloc, outAlloc, told} \subseteq Allocators

AtRest == ~pendingIn /\ ~pendingOut

UsingDifferentAllocators == inAlloc # outAlloc

\* When the reconnections have been made, the filter copies exactly when it must:
\* when it would change buffers that upstream wants kept.  And it delivers in
\* buffers of the allocator the filter downstream was told of.
CopiesWhenItMust ==
  (AtRest /\ in /\ out) =>
    /\ inAlloc # "none" /\ told = outAlloc
    /\ UsingDifferentAllocators <=> (modifies /\ readOnly)

\* The states of the two pins that the comment of transip.cpp leaves possible at
\* rest.
Direction(a) == CASE a = "up" -> IF readOnly THEN "<=" ELSE "<-"
                  [] a = "down" -> "->"
                  [] a \in {"temp", "own"} -> "||"
                  [] a = "none" -> "00"
OutDirection(a) == IF a = "up" THEN "<-" ELSE Direction(a)

\* At rest the two pins are in one of those states.  The code does not keep it.
RestingStates ==
  AtRest =>
    <<Direction(inAlloc), OutDirection(outAlloc)>> \in
      {<<"00", "00">>, <<"<-", "00">>, <<"<=", "00">>, <<"||", "00">>, <<"00", "||">>,
       <<"00", "->">>, <<"||", "||">>, <<"<=", "||">>, <<"<=", "->">>, <<"<-", "<-">>,
       <<"->", "->">>}
=============================================================================
