-------------------------------- MODULE Fifo --------------------------------
(***************************************************************************)
(* What COutputQueue promises (outputq.h): what is accepted goes           *)
(* downstream in the order of its acceptance, each item once, and nothing  *)
(* is dropped unless the queue is failing, which it says in the result of  *)
(* its calls.                                                              *)
(***************************************************************************)
EXTENDS Naturals, Sequences

VARIABLES
  pending,     (* accepted and not yet downstream, oldest first            *)
  given,       (* what the last call downstream carried                    *)
  failing      (* the queue refuses data                                   *)

vars == <<pending, given, failing>>

Init == pending = <<>> /\ given = <<>> /\ failing = FALSE

Drop(k) == SubSeq(pending, k + 1, Len(pending))

Accept ==
  /\ Len(pending') > Len(pending)
  /\ SubSeq(pending', 1, Len(pending)) = pending
  /\ UNCHANGED <<given, failing>>

Deliver ==
  \E k \in 1..Len(pending) :
    /\ given' = SubSeq(pending, 1, k)
    /\ pending' = Drop(k)
    /\ UNCHANGED failing

Discard ==
  /\ failing
  /\ \E k \in 1..Len(pending) : pending' = Drop(k)
  /\ UNCHANGED <<given, failing>>

(* A failing call downstream, a flush, their end.                          *)
Turn ==
  /\ failing' = ~failing
  /\ UNCHANGED <<pending, given>>

Next == Accept \/ Deliver \/ Discard \/ Turn

Spec == Init /\ [][Next]_vars
=============================================================================
