------------------------------ MODULE CmdQueue ------------------------------
(***************************************************************************)
(* CCmdQueue and CDeferredCommand (ctlutil.cpp, ctlutil.h): commands to be *)
(* invoked at a time.  Users make, cancel and postpone commands; a worker  *)
(* thread waits in GetDueCommand for what is due and invokes it; the       *)
(* streaming thread of the filter asks GetCommandDueFor about the time of  *)
(* its sample; a queue has the one (coarse) or the other (accurate).  The  *)
(* reference clock sets m_evDue at the advised time.  Every method runs    *)
(* under m_Lock, but Invoke does not.                                      *)
(***************************************************************************)
EXTENDS Integers, Sequences, FiniteSets

CONSTANTS Cmds,       \* the commands, each made at most once
          MaxTime,    \* bound: the clock stops here
          Clocks,     \* bound: how often SetSyncSource is called
          Runs,       \* bound: how often Run is called
          Offset,     \* the stream time offset it is called with
          INFINITE    \* whether GetDueCommand is called without a timeout

Times == 1..MaxTime   \* 0 is what SetTimeAdvise takes for no time at all
NULL == "NULL"

VARIABLES
  now,        \* time of the reference clock
  hasClock,   \* m_pClock # NULL
  changes,    \* calls of SetSyncSource
  running,    \* m_bRunning
  runs,       \* calls of Run
  lists,      \* TRUE: m_listStream, FALSE: m_listPresentation
  due,        \* m_evDue
  advised,    \* m_tCurrentAdvise
  alarm,      \* the advise the clock holds: its time, or 0
  cmd,        \* the commands, see NewCommand
  user,       \* per command: "none", "new", "held", "postponing" or "done"
  coarse,     \* whether a worker invokes the commands, or the filter
  pc,         \* where that thread is
  taken,      \* the command it was given
  broken      \* a NULL or deleted object has been used

vars == <<now, hasClock, changes, running, runs, lists, due, advised, alarm, cmd,
          user, coarse, pc, taken, broken>>

NotMade == [time |-> 0, stream |-> FALSE, queue |-> FALSE, refs |-> 0]

\* CDeferredCommand::CDeferredCommand; queue is m_pQueue # NULL.
NewCommand(t, stream) ==
  [time |-> t, stream |-> stream, queue |-> TRUE, refs |-> 0]

\* Release, n times; the last one deletes the command.
Released(r, n) == IF r.refs <= n THEN NotMade ELSE [r EXCEPT !.refs = @ - n]

Init ==
  /\ now = 0 /\ hasClock = FALSE /\ changes = 0
  /\ running = FALSE /\ runs = 0
  /\ lists = [s \in BOOLEAN |-> <<>>]
  /\ due = FALSE /\ advised = 0 /\ alarm = 0
  /\ cmd = [c \in Cmds |-> NotMade]
  /\ user = [c \in Cmds |-> "none"]
  /\ coarse \in BOOLEAN
  /\ pc = "look" /\ taken = NULL
  /\ broken = FALSE

-----------------------------------------------------------------------------
(* Operators on what m_Lock protects.                                      *)

Queued(c) == \E s \in BOOLEAN : \E i \in 1..Len(lists[s]) : lists[s][i] = c

\* The presentation time of a command, as it is now.
When(cs, c) == cs[c].time + (IF cs[c].stream THEN Offset ELSE 0)

\* Faulty: a presentation time too counts only while the queue is running.
CheckTimeRunning(t, stream) ==
  /\ hasClock /\ running
  /\ t + (IF stream THEN Offset ELSE 0) <= now

CheckTime(t, stream) ==
  /\ hasClock
  /\ stream => running
  /\ t + (IF stream THEN Offset ELSE 0) <= now

IsDue(c) == CheckTime(cmd[c].time, cmd[c].stream)

\* The time SetTimeAdvise asks for, 0 if there is none.
Earliest(ls, cs, isRunning) ==
  LET p == IF ls[FALSE] = <<>> THEN 0 ELSE cs[Head(ls[FALSE])].time
      s == IF ls[TRUE] = <<>> \/ ~isRunning THEN 0 ELSE cs[Head(ls[TRUE])].time + Offset
  IN IF s # 0 /\ (p = 0 \/ s < p) THEN s ELSE p

\* SetTimeAdvise, told the state that the caller leaves behind.
SetTimeAdvise(ls, cs, isRunning) ==
  LET t == Earliest(ls, cs, isRunning)
  IN /\ due' = FALSE
     /\ IF t > 0 /\ t # advised THEN alarm' = t /\ advised' = t
                                ELSE UNCHANGED <<alarm, advised>>

TimeAdvise(ls, cs) ==
  IF hasClock THEN SetTimeAdvise(ls, cs, running)
              ELSE UNCHANGED <<due, advised, alarm>>

\* Faulty: commands in the order they were made in.
InsertedLast(s, cs, c) == Append(s, c)

Inserted(s, cs, c) ==
  LET later == {i \in 1..Len(s) : cs[s[i]].time > cs[c].time}
      at == IF later = {} THEN Len(s) + 1 ELSE CHOOSE i \in later : \A j \in later : i <= j
  IN [i \in 1..(Len(s) + 1) |-> IF i < at THEN s[i] ELSE IF i = at THEN c ELSE s[i - 1]]

\* Insert: the list has a reference.
Insert(cs, c) ==
  /\ lists' = [lists EXCEPT ![cs[c].stream] = Inserted(@, cs, c)]
  /\ cmd' = [cs EXCEPT ![c].refs = @ + 1]
  /\ TimeAdvise(lists', cs)

TakenOff(s, c) ==
  LET at == CHOOSE i \in 1..Len(s) : s[i] = c
  IN [i \in 1..(Len(s) - 1) |-> IF i < at THEN s[i] ELSE s[i + 1]]

\* Remove of a command that is in its list; drop further references go with it.
RemoveCmd(c, drop, cs) ==
  /\ lists' = [lists EXCEPT ![cs[c].stream] = TakenOff(@, c)]
  /\ cmd' = [cs EXCEPT ![c] = Released(@, 1 + drop)]
  /\ TimeAdvise(lists', cs)

\* A command whose last reference is gone is deleted; nobody must hold it then.
Alive(c) == cmd[c].refs > 0

Held(c) == Queued(c) \/ user[c] \in {"held", "postponing"} \/ taken = c
Works == ~broken /\ \A c \in Cmds : Held(c) => Alive(c)

-----------------------------------------------------------------------------
(* Users.                                                                  *)

\* CCmdQueue::New: a command nobody has a reference of but its list.
New(c) ==
  /\ user[c] = "none"
  /\ \E t \in Times, stream \in BOOLEAN :
       /\ t + (IF stream THEN Offset ELSE 0) <= MaxTime
       /\ Insert([cmd EXCEPT ![c] = NewCommand(t, stream)], c)
  /\ user' = [user EXCEPT ![c] = "new"]
  /\ UNCHANGED <<now, hasClock, changes, coarse, running, runs, pc, taken, broken>>

\* The caller of New takes a reference of its own.
Keep(c) ==
  /\ user[c] = "new"
  /\ cmd' = [cmd EXCEPT ![c].refs = @ + 1]
  /\ broken' = ~Alive(c)
  /\ user' = [user EXCEPT ![c] = "held"]
  /\ UNCHANGED <<now, hasClock, changes, coarse, running, runs, lists, due, advised, alarm,
                 pc, taken>>

Cancel(c) ==
  /\ user[c] = "held" /\ cmd[c].queue /\ Queued(c)
  /\ RemoveCmd(c, 0, [cmd EXCEPT ![c].queue = FALSE])
  /\ UNCHANGED <<now, hasClock, changes, coarse, running, runs, user, pc, taken, broken>>

\* Postpone looks at the time and takes the command out of the list, ...
Postpone(c) ==
  /\ user[c] = "held"
  /\ broken' = ~cmd[c].queue
  /\ IF cmd[c].queue /\ Queued(c)
       THEN /\ \E t \in Times : /\ t + (IF cmd[c].stream THEN Offset ELSE 0) <= MaxTime
                              /\ ~CheckTime(t, cmd[c].stream)
                              /\ RemoveCmd(c, 0, [cmd EXCEPT ![c].time = t])
            /\ user' = [user EXCEPT ![c] = "postponing"]
       ELSE UNCHANGED <<lists, cmd, due, advised, alarm, user>>
  /\ UNCHANGED <<now, hasClock, changes, coarse, running, runs, pc, taken>>

\* ... and inserts it again, with its new time.
Requeue(c) ==
  /\ user[c] = "postponing"
  /\ user' = [user EXCEPT ![c] = "held"]
  /\ broken' = ~cmd[c].queue
  /\ IF cmd[c].queue THEN Insert(cmd, c)
                     ELSE UNCHANGED <<lists, cmd, due, advised, alarm>>
  /\ UNCHANGED <<now, hasClock, changes, coarse, running, runs, pc, taken>>

\* The user has no more interest in the command.
Forget(c) ==
  /\ user[c] = "held"
  /\ user' = [user EXCEPT ![c] = "done"]
  /\ cmd' = [cmd EXCEPT ![c] = Released(@, 1)]
  /\ UNCHANGED <<now, hasClock, changes, coarse, running, runs, lists, due, advised, alarm,
                 pc, taken, broken>>

SetSyncSource ==
  /\ changes < Clocks
  /\ changes' = changes + 1
  /\ \E there \in BOOLEAN :
       /\ there # hasClock \/ there
       /\ hasClock' = there
       /\ IF ~there THEN alarm' = 0 /\ UNCHANGED <<due, advised>>
          ELSE LET t == Earliest(lists, cmd, running)   \* Unadvise, SetTimeAdvise
               IN /\ due' = FALSE
                  /\ IF t > 0 /\ t # advised THEN alarm' = t /\ advised' = t
                                             ELSE alarm' = 0 /\ UNCHANGED advised
  /\ UNCHANGED <<now, coarse, running, runs, lists, cmd, user, pc, taken, broken>>

Run ==
  /\ runs < Runs
  /\ runs' = runs + 1
  /\ running' = TRUE
  /\ IF hasClock THEN SetTimeAdvise(lists, cmd, TRUE)
                 ELSE UNCHANGED <<due, advised, alarm>>
  /\ UNCHANGED <<now, hasClock, changes, coarse, lists, cmd, user, pc, taken, broken>>

EndRun ==
  /\ running
  /\ running' = FALSE
  /\ IF hasClock THEN SetTimeAdvise(lists, cmd, FALSE)
                 ELSE UNCHANGED <<due, advised, alarm>>
  /\ UNCHANGED <<now, hasClock, changes, coarse, runs, lists, cmd, user, pc, taken, broken>>

-----------------------------------------------------------------------------
(* The reference clock.                                                    *)

Tick ==
  /\ now < MaxTime
  /\ now' = now + 1
  /\ UNCHANGED <<hasClock, changes, coarse, running, runs, lists, due, advised, alarm, cmd,
                 user, pc, taken, broken>>

Alarm ==
  /\ alarm # 0 /\ alarm <= now
  /\ due' = TRUE /\ alarm' = 0
  /\ pc' = IF pc = "wait" THEN "look" ELSE pc
  /\ UNCHANGED <<now, hasClock, changes, coarse, running, runs, lists, advised, cmd, user, taken,
                 broken>>

-----------------------------------------------------------------------------
(* Who invokes the commands.                                               *)

Firsts == {Head(lists[s]) : s \in {s \in BOOLEAN : lists[s] # <<>> /\ (s => running)}}

\* GetDueCommand looks at the first of both lists, ...
Looks ==
  LET p == {c \in Firsts : ~cmd[c].stream}
      earliest == {c \in Firsts : \A d \in Firsts : \/ When(cmd, c) < When(cmd, d)
                                                    \/ When(cmd, c) = When(cmd, d) /\ c \in p
                                                    \/ c = d}
  IN IF \E c \in earliest : IsDue(c)
       THEN \E c \in earliest :
              /\ cmd' = [cmd EXCEPT ![c].refs = @ + 1]
              /\ taken' = c
              /\ pc' = "got"
       ELSE pc' = "block" /\ UNCHANGED <<cmd, taken>>

GetDueCommand ==
  /\ pc = "look"
  /\ Looks
  /\ UNCHANGED <<now, hasClock, changes, coarse, running, runs, lists, due, advised, alarm,
                 user, broken>>

\* ... and waits for the event, without the lock.  What sets a manual reset event
\* releases those that wait for it by then.
WaitForDue ==
  /\ pc = "block"
  /\ pc' = IF due THEN "look" ELSE "wait"
  /\ UNCHANGED <<now, hasClock, changes, coarse, running, runs, lists, due, advised, alarm, cmd,
                 user, taken, broken>>

\* E_ABORT; the worker calls again.
WaitTimesOut ==
  /\ pc = "wait" /\ ~INFINITE
  /\ pc' = "look"
  /\ UNCHANGED <<now, hasClock, changes, coarse, running, runs, lists, due, advised, alarm,
                 cmd, user, taken, broken>>

\* GetCommandDueFor; the last of its three answers comes without AddRef.
GetCommandDueFor ==
  /\ pc = "look"
  /\ \E rtStream \in Times, c \in {Head(lists[s]) : s \in {s \in BOOLEAN : lists[s] # <<>>}} :
       LET now1 == lists[FALSE] # <<>> /\ IsDue(Head(lists[FALSE]))
           now2 == lists[TRUE] # <<>> /\ cmd[Head(lists[TRUE])].time <= rtStream
       IN /\ \/ now1 /\ ~cmd[c].stream /\ cmd' = [cmd EXCEPT ![c].refs = @ + 1]
             \/ ~now1 /\ now2 /\ cmd[c].stream /\ cmd' = [cmd EXCEPT ![c].refs = @ + 1]
             \/ /\ ~now1 /\ ~now2 /\ running
                /\ ~cmd[c].stream /\ cmd[c].time <= rtStream + Offset
                /\ UNCHANGED cmd
          /\ taken' = c
          /\ pc' = "got"
  /\ UNCHANGED <<now, hasClock, changes, coarse, running, runs, lists, due, advised, alarm,
                 user, broken>>

\* CDeferredCommand::Invoke looks whether the command is still outstanding, ...
Invoke ==
  LET c == taken IN
  /\ pc = "got"
  /\ IF cmd[c].queue
       THEN pc' = "invoking" /\ UNCHANGED <<cmd, taken>>
       ELSE /\ pc' = "look"   \* and Release
            /\ taken' = NULL
            /\ cmd' = [cmd EXCEPT ![c] = Released(@, 1)]
  /\ UNCHANGED <<now, hasClock, changes, coarse, running, runs, lists, due, advised, alarm,
                 user, broken>>

\* ... and when the method has returned takes it from the list, and Release.
Invoked ==
  LET c == taken
      done == [cmd EXCEPT ![c].queue = FALSE]
  IN
  /\ pc = "invoking"
  /\ pc' = "look"
  /\ taken' = NULL
  /\ broken' = ~cmd[c].queue
  /\ IF Queued(c) THEN RemoveCmd(c, 1, done)
     ELSE /\ cmd' = [done EXCEPT ![c] = Released(@, 1)]
          /\ UNCHANGED <<lists, due, advised, alarm>>
  /\ UNCHANGED <<now, hasClock, changes, coarse, running, runs, user>>

Users ==
  \/ \E c \in Cmds : New(c) \/ Keep(c) \/ Cancel(c) \/ Postpone(c) \/ Requeue(c) \/ Forget(c)
  \/ SetSyncSource \/ Run \/ EndRun

Worker == coarse /\ (GetDueCommand \/ WaitForDue \/ WaitTimesOut)
Filter == ~coarse /\ GetCommandDueFor
Execute == Invoke \/ Invoked

Next ==
  /\ Works
  /\ Users \/ Tick \/ Alarm \/ Worker \/ Filter \/ Execute

\* The clock and the worker go on; calls that have begun return.
Fairness ==
  /\ WF_vars(Works /\ Tick) /\ WF_vars(Works /\ Alarm) /\ WF_vars(Works /\ (Worker \/ Execute))
  /\ \A c \in Cmds : WF_vars(Works /\ Requeue(c))

Spec == Init /\ [][Next]_vars /\ Fairness

-----------------------------------------------------------------------------
(* Properties.                                                             *)

TimeHasCome(c) ==
  /\ Queued(c) /\ hasClock
  /\ cmd[c].stream => running
  /\ When(cmd, c) <= now

\* A command in the queue whose time has come is invoked or taken away, as long as
\* there is a clock, and for a stream time as long as the queue is running.
DueIsDone == \A c \in Cmds : coarse /\ TimeHasCome(c) ~> ~TimeHasCome(c) \/ ~Works

\* The worker invokes the earliest of the commands whose time has come.
TakesEarliest ==
  coarse /\ taken = NULL /\ taken' # NULL
    => \A d \in Cmds : TimeHasCome(d) => When(cmd, taken') <= When(cmd, d)
EarliestFirst == [][TakesEarliest]_vars

\* m_evDue "will be signalled whenever there are deferred commands due for
\* execution": a waiting worker does not wait for ever for a command that is due.
\* The code does not keep it.
DueIsSignalled ==
  \A c \in Cmds : TimeHasCome(c) ~> (~TimeHasCome(c) \/ due \/ ~Works)

\* GetDueCommand and GetCommandDueFor return an AddRef'd object: a command has one
\* reference of its list, one of its user and one of everyone it was given to.
\* The code does not keep it.
References ==
  Works => \A c \in Cmds :
    cmd[c].refs = (IF taken = c THEN 1 ELSE 0)
                  + (IF Queued(c) THEN 1 ELSE 0)
                  + (IF user[c] \in {"held", "postponing"} THEN 1 ELSE 0)
=============================================================================
