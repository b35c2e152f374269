-------------------------------- MODULE List --------------------------------
(***************************************************************************)
(* CBaseList (wxlist.h, wxlist.cpp): doubly linked lists of pointers, each *)
(* with a cache of unused nodes.  The state is the heap of nodes, and the  *)
(* methods are functions from one heap to the next, pointer by pointer.    *)
(* A position is a pointer to a node; the caller keeps it valid.           *)
(***************************************************************************)
EXTENDS Integers, Sequences

CONSTANTS Lists,      \* the lists
          Objects,    \* what their nodes point to
          N,          \* the nodes 1..N there is memory for
          CacheSize   \* m_iCacheSize

NULL == 0
Nodes == 1..N
None == "none"

VARIABLE h   \* the heap, see Init

vars == <<h>>

Init ==
  h = [next  |-> [n \in Nodes |-> NULL],   \* m_pNext
       prev  |-> [n \in Nodes |-> NULL],   \* m_pPrev
       data  |-> [n \in Nodes |-> None],   \* m_pObject
       live  |-> {},                       \* nodes made and not deleted
       first |-> [l \in Lists |-> NULL],   \* m_pFirst
       last  |-> [l \in Lists |-> NULL],   \* m_pLast
       count |-> [l \in Lists |-> 0],      \* m_Count
       head  |-> [l \in Lists |-> NULL],   \* m_pHead of the cache
       used  |-> [l \in Lists |-> 0]]      \* m_iUsed of the cache

-----------------------------------------------------------------------------
(* Walks along a chain, at most once over every node and one step more.    *)

Walk(link, start) ==
  LET at[k \in 1..(N + 1)] ==
        IF k = 1 THEN start
        ELSE LET p == at[k - 1] IN IF p = NULL THEN NULL ELSE link[p]
      end == CHOOSE n \in 0..(N + 1) : \A k \in 1..(N + 1) : at[k] # NULL <=> k <= n
  IN [k \in 1..end |-> at[k]]

Forward(g, l) == Walk(g.next, g.first[l])
Backward(g, l) == Walk(g.prev, g.last[l])
Cached(g, l) == Walk(g.next, g.head[l])

On(s) == {s[i] : i \in 1..Len(s)}
Positions(l) == On(Forward(h, l))

-----------------------------------------------------------------------------
(* The cache, and new nodes.  What nobody reads of a node that is in a     *)
(* cache or deleted is cleared, to have fewer states.                      *)

AddToCache(g, l, n) ==
  LET c == [g EXCEPT !.prev[n] = NULL, !.data[n] = None]
  IN IF g.used[l] < CacheSize
       THEN [c EXCEPT !.next[n] = g.head[l], !.head[l] = n, !.used[l] = @ + 1]
       ELSE [c EXCEPT !.next[n] = NULL, !.live = @ \ {n}]

CanMake(g, l) == g.head[l] # NULL \/ Nodes \ g.live # {}

NewNode(g, l) ==
  IF g.head[l] # NULL THEN g.head[l]
                      ELSE CHOOSE n \in Nodes \ g.live : \A m \in Nodes \ g.live : n <= m

\* RemoveFromCache or new, and SetData.
Made(g, l, o) ==
  LET n == NewNode(g, l)
  IN IF g.head[l] # NULL
       THEN [g EXCEPT !.head[l] = g.next[n], !.used[l] = @ - 1, !.data[n] = o]
       ELSE [g EXCEPT !.live = @ \cup {n}, !.data[n] = o]

-----------------------------------------------------------------------------
(* One element.  Without memory nothing happens.                           *)

AddTail(g, l, o) ==
  IF ~CanMake(g, l) THEN g
  ELSE LET n == NewNode(g, l)
           p == g.last[l]
           m == [Made(g, l, o) EXCEPT !.next[n] = NULL, !.prev[n] = p,
                                      !.last[l] = n, !.count[l] = @ + 1]
       IN IF p = NULL THEN [m EXCEPT !.first[l] = n] ELSE [m EXCEPT !.next[p] = n]

AddHead(g, l, o) ==
  IF ~CanMake(g, l) THEN g
  ELSE LET n == NewNode(g, l)
           f == g.first[l]
           m == [Made(g, l, o) EXCEPT !.prev[n] = NULL, !.next[n] = f,
                                      !.first[l] = n, !.count[l] = @ + 1]
       IN IF f = NULL THEN [m EXCEPT !.last[l] = n] ELSE [m EXCEPT !.prev[f] = n]

\* The part AddAfter and AddBefore share, between two nodes.
Between(g, l, p, q, o) ==
  IF ~CanMake(g, l) THEN g
  ELSE LET n == NewNode(g, l)
       IN [Made(g, l, o) EXCEPT !.prev[n] = p, !.next[n] = q, !.prev[q] = n,
                                !.next[p] = n, !.count[l] = @ + 1]

AddAfter(g, l, p, o) ==
  IF p = NULL THEN AddHead(g, l, o)
  ELSE IF p = g.last[l] THEN AddTail(g, l, o) ELSE Between(g, l, p, g.next[p], o)

AddBefore(g, l, p, o) ==
  IF p = NULL THEN AddTail(g, l, o)
  ELSE IF p = g.first[l] THEN AddHead(g, l, o) ELSE Between(g, l, g.prev[p], p, o)

\* Faulty: looks at the next node after the cache has taken this one.
RemoveCachedFirst(g, l, n) ==
  LET p == g.prev[n]
      c == AddToCache(g, l, n)
      q == c.next[n]
      a == IF p = NULL THEN [c EXCEPT !.first[l] = q] ELSE [c EXCEPT !.next[p] = q]
      b == IF q = NULL THEN [a EXCEPT !.last[l] = p] ELSE [a EXCEPT !.prev[q] = p]
  IN [b EXCEPT !.count[l] = @ - 1]

RemoveNode(g, l, n) ==
  LET p == g.prev[n]
      q == g.next[n]
      a == IF p = NULL THEN [g EXCEPT !.first[l] = q] ELSE [g EXCEPT !.next[p] = q]
      b == IF q = NULL THEN [a EXCEPT !.last[l] = p] ELSE [a EXCEPT !.prev[q] = p]
  IN [AddToCache(b, l, n) EXCEPT !.count[l] = @ - 1]

-----------------------------------------------------------------------------
(* Whole lists.                                                            *)

RemoveAll(g, l) ==
  LET in == On(Forward(g, l))
      Cleared(f, to) == [n \in Nodes |-> IF n \in in THEN to ELSE f[n]]
  IN [g EXCEPT !.live = @ \ in, !.next = Cleared(@, NULL), !.prev = Cleared(@, NULL),
               !.data = Cleared(@, None),
               !.count[l] = 0, !.first[l] = NULL, !.last[l] = NULL]

\* A copy of list m, element by element from its head or from its tail; the loops
\* end with the first failure.  The position follows the elements being added.
AddListToTail(g, l, m) ==
  LET s == Forward(g, m)
      after[k \in 0..Len(s)] ==
        IF k = 0 THEN g ELSE AddTail(after[k - 1], l, g.data[s[k]])
  IN after[Len(s)]

AddListToHead(g, l, m) ==
  LET s == Forward(g, m)
      after[k \in 0..Len(s)] ==
        IF k = 0 THEN g ELSE AddHead(after[k - 1], l, g.data[s[Len(s) + 1 - k]])
  IN after[Len(s)]

Where(g, l, p) == IF CanMake(g, l) THEN NewNode(g, l) ELSE p

AddListAfter(g, l, p, m) ==
  LET s == Forward(g, m)
      after[k \in 0..Len(s)] ==
        IF k = 0 THEN <<g, p>>
        ELSE LET a == after[k - 1]
             IN <<AddAfter(a[1], l, a[2], g.data[s[k]]), Where(a[1], l, a[2])>>
  IN after[Len(s)][1]

AddListBefore(g, l, p, m) ==
  LET s == Forward(g, m)
      after[k \in 0..Len(s)] ==
        IF k = 0 THEN <<g, p>>
        ELSE LET a == after[k - 1]
             IN <<AddBefore(a[1], l, a[2], g.data[s[Len(s) + 1 - k]]), Where(a[1], l, a[2])>>
  IN after[Len(s)][1]

\* Set the link of a node unless there is none.
Link(links, n, to) == IF n = NULL THEN links ELSE [links EXCEPT ![n] = to]

\* The head of l, up to p, goes to the tail of m.
MoveToTail(g, l, p, m) ==
  LET cMove == Len(Walk(g.prev, p))
      rest == g.next[p]
  IN [g EXCEPT !.next = [Link(@, g.last[m], g.first[l]) EXCEPT ![p] = NULL],
               !.prev = Link(Link(@, g.first[l], g.last[m]), rest, NULL),
               !.first[m] = IF @ = NULL THEN g.first[l] ELSE @,
               !.first[l] = rest,
               !.last[l] = IF rest = NULL THEN NULL ELSE @,
               !.last[m] = p,
               !.count[l] = @ - cMove, !.count[m] = @ + cMove]

\* The tail of l, from p on, goes to the head of m.
MoveToHead(g, l, p, m) ==
  LET cMove == Len(Walk(g.next, p))
      rest == g.prev[p]
  IN [g EXCEPT !.prev = [Link(@, g.first[m], g.last[l]) EXCEPT ![p] = NULL],
               !.next = Link(Link(@, g.last[l], g.first[m]), rest, NULL),
               !.last[m] = IF @ = NULL THEN g.last[l] ELSE @,
               !.last[l] = rest,
               !.first[l] = IF rest = NULL THEN NULL ELSE @,
               !.first[m] = p,
               !.count[l] = @ - cMove, !.count[m] = @ + cMove]

Flipped(g, l) ==
  LET in == On(Forward(g, l))
  IN [g EXCEPT !.next = [n \in Nodes |-> IF n \in in THEN g.prev[n] ELSE @[n]],
               !.prev = [n \in Nodes |-> IF n \in in THEN g.next[n] ELSE @[n]]]

\* Faulty: the list still begins where it began.
ReverseLinks(g, l) == Flipped(g, l)

ReverseList(g, l) ==
  [Flipped(g, l) EXCEPT !.first[l] = g.last[l], !.last[l] = g.first[l]]

-----------------------------------------------------------------------------
(* Any sequence of calls, with positions of the list or NULL.              *)

Change(l) ==
  \/ \E o \in Objects :
       \/ h' = AddTail(h, l, o)
       \/ h' = AddHead(h, l, o)
       \/ \E p \in Positions(l) \cup {NULL} : \/ h' = AddAfter(h, l, p, o)
                                            \/ h' = AddBefore(h, l, p, o)
  \/ \E p \in Positions(l) : h' = RemoveNode(h, l, p)
  \/ h' = RemoveAll(h, l)
  \/ h' = ReverseList(h, l)

ChangeBoth(l, m) ==
  \/ h' = AddListToTail(h, l, m)
  \/ h' = AddListToHead(h, l, m)
  \/ \E p \in Positions(l) : h' = AddListAfter(h, l, p, m) \/ h' = AddListBefore(h, l, p, m)
  \/ \E p \in Positions(l) : h' = MoveToTail(h, l, p, m) \/ h' = MoveToHead(h, l, p, m)

Next == \E l \in Lists : Change(l) \/ \E m \in Lists \ {l} : ChangeBoth(l, m)

Spec == Init /\ [][Next]_vars

-----------------------------------------------------------------------------
(* Properties.                                                             *)

\* The lists, told of the objects alone.
objects == [l \in Lists |-> [i \in 1..Len(Forward(h, l)) |-> h.data[Forward(h, l)[i]]]]
S == INSTANCE ListSpec WITH list <- objects

\* Every node there is belongs to one list or one cache, once; both chains of a
\* list pass through the same nodes and its count is their number.
Sound ==
  LET chains == {<<l, "list">> : l \in Lists} \cup {<<l, "cache">> : l \in Lists}
      Chain(c) == IF c[2] = "list" THEN Forward(h, c[1]) ELSE Cached(h, c[1])
  IN /\ \A l \in Lists : /\ Backward(h, l) = S!Reversed(Forward(h, l))
                         /\ h.count[l] = Len(Forward(h, l))
                         /\ h.used[l] = Len(Cached(h, l)) /\ h.used[l] <= CacheSize
     /\ \A c \in chains : /\ Len(Chain(c)) <= N
                          /\ \A i, j \in 1..Len(Chain(c)) : Chain(c)[i] = Chain(c)[j] => i = j
     /\ \A c, d \in chains : c # d => On(Chain(c)) \cap On(Chain(d)) = {}
     /\ h.live = UNION {On(Chain(c)) : c \in chains}

\* Told of the objects, the lists change as ListSpec says.
ListsChange == S!Spec
=============================================================================
