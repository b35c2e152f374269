------------------------------- MODULE AMThread -------------------------------
(***************************************************************************)
(* CAMThread (wxutil.h, wxutil.cpp): the one request at a time that a      *)
(* client thread hands to a worker and waits for.  The state of the object *)
(* is a record and every method a function of it, so that a component may  *)
(* own any number of workers.  m_AccessLock admits one client at a time.   *)
(***************************************************************************)
CONSTANTS Commands, Results

NoCommand == "none"

Threads == [exists   : BOOLEAN,   \* m_hThread is not NULL
            running  : BOOLEAN,   \* the thread has not left ThreadProc
            sent     : BOOLEAN,   \* m_EventSend, reset by hand
            param    : Commands \cup {NoCommand},   \* m_dwParam
            complete : BOOLEAN,   \* m_EventComplete, reset by the wait it ends
            result   : Results]   \* m_dwReturnVal

NoThread(r) == [exists |-> FALSE, running |-> FALSE, sent |-> FALSE,
                param |-> NoCommand, complete |-> FALSE, result |-> r]

\* Create, where there is no thread.
Created(t) == [t EXCEPT !.exists = TRUE, !.running = TRUE]

\* The first half of CallWorker: the request is posted.
Called(t, c) == [t EXCEPT !.param = c, !.sent = TRUE]

\* The second half: the client wakes up and takes result.
Returned(t) == [t EXCEPT !.complete = FALSE]

\* What CheckRequest says, and GetRequest waits for.
Requested(t, c) == t.sent /\ t.param = c

Replied(t, r) == [t EXCEPT !.result = r, !.sent = FALSE, !.complete = TRUE]

\* The worker returns from ThreadProc.
Exited(t) == [t EXCEPT !.running = FALSE]

\* Close, once the thread has ended.
Closed(t) == [t EXCEPT !.exists = FALSE]
=============================================================================
