------------------------------- MODULE ListSpec -------------------------------
(***************************************************************************)
(* What the lists of wxlist.h promise, told of the objects alone: two      *)
(* lists whose elements are added anywhere, removed, moved from one to the *)
(* other with their order kept, or reversed.                               *)
(***************************************************************************)
EXTENDS Integers, Sequences

CONSTANTS Lists, Objects

VARIABLE list   \* list -> the sequence of its objects

\* The sequence with o before its i-th element, without that element, and backwards.
Inserted(s, i, o) ==
  [j \in 1..(Len(s) + 1) |-> IF j < i THEN s[j] ELSE IF j = i THEN o ELSE s[j - 1]]
Without(s, i) == [j \in 1..(Len(s) - 1) |-> IF j < i THEN s[j] ELSE s[j + 1]]
Reversed(s) == [j \in 1..Len(s) |-> s[Len(s) + 1 - j]]

Init == list = [l \in Lists |-> <<>>]

Insert(l) ==
  \E i \in 1..(Len(list[l]) + 1), o \in Objects :
    list' = [list EXCEPT ![l] = Inserted(@, i, o)]

Drop(l) ==
  \E i \in 1..Len(list[l]) : list' = [list EXCEPT ![l] = Without(@, i)]

Clear(l) == list' = [list EXCEPT ![l] = <<>>]

Flip(l) == list' = [list EXCEPT ![l] = Reversed(@)]

\* A copy of the other list goes in anywhere; without memory, only its beginning
\* or, from the other side, its end.
Copy(l, m) ==
  \E i \in 0..Len(list[l]), j \in 0..Len(list[m]) :
    \E part \in {SubSeq(list[m], 1, j), SubSeq(list[m], j + 1, Len(list[m]))} :
      list' = [list EXCEPT ![l] = SubSeq(@, 1, i) \o part \o SubSeq(@, i + 1, Len(@))]

\* The elements of the one list joined before or after those of the other keep
\* their order: only the place of the cut moves.
Move(l, m) ==
  \E i \in 0..Len(list[l]) :
    LET front == SubSeq(list[l], 1, i)
        back == SubSeq(list[l], i + 1, Len(list[l]))
    IN \/ list' = [list EXCEPT ![m] = @ \o front, ![l] = back]
       \/ list' = [list EXCEPT ![m] = back \o @, ![l] = front]

Next ==
  \E l \in Lists : \/ Insert(l) \/ Drop(l) \/ Clear(l) \/ Flip(l)
                   \/ \E m \in Lists \ {l} : Copy(l, m) \/ Move(l, m)

Spec == Init /\ [][Next]_list
=============================================================================
