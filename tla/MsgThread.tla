----------------------------- MODULE MsgThread -----------------------------
(***************************************************************************)
(* CMsgThread (msgthrd.h, wxutil.cpp): a thread that takes messages from a *)
(* queue any thread may add to, until one of them tells it to end.  It     *)
(* sleeps on a semaphore that is released only for a thread that has       *)
(* counted itself in m_lWaiting.                                           *)
(***************************************************************************)
EXTENDS Integers, Sequences

CONSTANTS Messages,    \* the messages put, in any order
          Last         \* the one whose handling ends the thread

VARIABLES
  m_ThreadQueue,
  m_lWaiting,
  m_hSem,        \* count of the semaphore
  unput,         \* messages not put yet
  put,           \* history: the messages put, in order
  handled,       \* history: the messages handled, in order
  thread,        \* "none", "get", "wait" or "ended"
  owner          \* "alive", "destructor" or "gone"

queue == <<m_ThreadQueue, m_lWaiting, m_hSem>>
vars == <<queue, unput, put, handled, thread, owner>>

Init ==
  /\ m_ThreadQueue = << >> /\ m_lWaiting = 0 /\ m_hSem = 0
  /\ unput = Messages /\ put = << >> /\ handled = << >>
  /\ thread = "none" /\ owner = "alive"

CreateThread ==
  /\ thread = "none" /\ owner = "alive"
  /\ thread' = "get"
  /\ UNCHANGED <<queue, unput, put, handled, owner>>

\* Faulty: m_lWaiting is reset before the semaphore is released by it.
PutResetFirst(m) ==
  /\ owner = "alive" /\ m \in unput
  /\ unput' = unput \ {m} /\ put' = Append(put, m)
  /\ m_ThreadQueue' = Append(m_ThreadQueue, m)
  /\ m_lWaiting' = 0
  /\ UNCHANGED <<m_hSem, handled, thread, owner>>

\* PutThreadMsg, under the lock.
PutThreadMsg(m) ==
  /\ owner = "alive" /\ m \in unput
  /\ unput' = unput \ {m} /\ put' = Append(put, m)
  /\ m_ThreadQueue' = Append(m_ThreadQueue, m)
  /\ m_hSem' = m_hSem + m_lWaiting /\ m_lWaiting' = 0
  /\ UNCHANGED <<handled, thread, owner>>

\* GetThreadMsg under the lock, and ThreadMessageProc, which ends the thread at
\* the last message.
GetThreadMsg ==
  /\ thread = "get" /\ m_ThreadQueue # << >>
  /\ m_ThreadQueue' = Tail(m_ThreadQueue)
  /\ handled' = Append(handled, Head(m_ThreadQueue))
  /\ thread' = IF Head(m_ThreadQueue) = Last THEN "ended" ELSE "get"
  /\ UNCHANGED <<m_lWaiting, m_hSem, unput, put, owner>>

GetNothing ==
  /\ thread = "get" /\ m_ThreadQueue = << >>
  /\ m_lWaiting' = m_lWaiting + 1
  /\ thread' = "wait"
  /\ UNCHANGED <<m_ThreadQueue, m_hSem, unput, put, handled, owner>>

Wake ==
  /\ thread = "wait" /\ m_hSem > 0
  /\ m_hSem' = m_hSem - 1
  /\ thread' = "get"
  /\ UNCHANGED <<m_ThreadQueue, m_lWaiting, unput, put, handled, owner>>

\* The destructor waits for the thread, then deletes the messages left over.  Its
\* callers have put the last message by then.
Destroy ==
  /\ owner = "alive" /\ Last \notin unput
  /\ owner' = "destructor"
  /\ UNCHANGED <<queue, unput, put, handled, thread>>

Destroyed ==
  /\ owner = "destructor" /\ thread \in {"none", "ended"}
  /\ m_ThreadQueue' = << >>
  /\ owner' = "gone"
  /\ UNCHANGED <<m_lWaiting, m_hSem, unput, put, handled, thread>>

Next ==
  \/ CreateThread \/ GetThreadMsg \/ GetNothing \/ Wake
  \/ \E m \in Messages : PutThreadMsg(m)
  \/ Destroy \/ Destroyed

\* The thread runs; a destructor goes on.
Fairness == WF_vars(GetThreadMsg \/ GetNothing \/ Wake) /\ WF_vars(Destroyed)

Spec == Init /\ [][Next]_vars /\ Fairness

-----------------------------------------------------------------------------
\* Messages are handled once each and in the order put, whatever thread put them.
HandledInOrder ==
  /\ handled = SubSeq(put, 1, Len(handled))
  /\ owner # "gone" => put = handled \o m_ThreadQueue

\* No message is slept on: a thread that exists handles every message up to the
\* last, though none may find it waiting; and the destructor returns.
MessagesHandled ==
  /\ thread \in {"get", "wait"} /\ m_ThreadQueue # << >> ~>
       thread = "ended" \/ m_ThreadQueue = << >>
  /\ owner = "destructor" ~> owner = "gone"
=============================================================================
