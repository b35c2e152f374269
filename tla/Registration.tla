---------------------------- MODULE Registration ----------------------------
(***************************************************************************)
(* What regsvr32 has the library do (dllsetup.cpp, amfilter.cpp):          *)
(* AMovieDllRegisterServer2 writes the classes of the table g_Templates    *)
(* into the registry as servers, and those that are filters into the       *)
(* filter mapper, or takes both away.  Any call may fail or be killed      *)
(* half way, and may be made again.                                        *)
(***************************************************************************)
EXTENDS Integers

CONSTANTS N,        \* g_cTemplates
          Filters   \* the templates with an m_pAMovieSetup_Filter

Templates == 1..N

\* What AMovieSetupRegisterServer writes, in order: the key of the class, its
\* description, the key of the server, its file name and its threading model.
Written == 5
ClassKey == 2

VARIABLES
  server,  \* template -> how much of it is in the registry
  filter,  \* template -> "none", "bare" (its pins are missing) or "whole"
  denied,  \* what the user may not delete: "nothing", "class" or "server" keys
  call,    \* "register", "unregister" or "none"
  pc,      \* "idle", "servers", "mapper", "filters"
  at,      \* the template the loop is at
  mapper,  \* the filter mapper found: 2, or 1 for the older one
  answer,  \* the last call that returned, if it succeeded
  excused  \* filters that call could not register and went on, see below

vars == <<server, filter, denied, call, pc, at, mapper, answer, excused>>

Init ==
  /\ server = [i \in Templates |-> 0]
  /\ filter = [i \in Templates |-> "none"]
  /\ denied \in {"nothing", "class", "server"}
  /\ call = "none" /\ pc = "idle" /\ at = 1 /\ mapper = 2 /\ answer = "none"
  /\ excused = {}

-----------------------------------------------------------------------------
(* The course of a call.                                                   *)

Goes(to) == pc' = to /\ at' = 1 /\ UNCHANGED <<call, answer>>

Returns(ok) ==
  /\ pc' = "idle" /\ at' = 1 /\ call' = "none"
  /\ answer' = IF ok THEN call ELSE "failed"

Following(done) ==
  IF at < N THEN at' = at + 1 /\ UNCHANGED <<pc, call, answer>> ELSE done

\* Servers come before the filters when registering, after them when unregistering.
AMovieDllRegisterServer2(c) ==
  /\ pc = "idle"
  /\ \/ /\ call' = c /\ answer' = "none" /\ at' = 1
        /\ pc' = IF c = "register" THEN "servers" ELSE "mapper"
     \/ /\ answer' = "failed" /\ UNCHANGED <<call, pc, at>>  \* no file name
  /\ excused' = {}
  /\ UNCHANGED <<server, filter, denied, mapper>>

-----------------------------------------------------------------------------
(* Servers.                                                                *)

\* AMovieSetupRegisterServer over what is there already, up to the write that fails.
RegisterServer ==
  /\ pc = "servers" /\ call = "register"
  /\ \E k \in 0..Written :
       /\ server' = [server EXCEPT ![at] = IF k > @ THEN k ELSE @]
       /\ IF k = Written THEN Following(Goes("mapper")) ELSE Returns(FALSE)
  /\ UNCHANGED <<filter, denied, mapper, excused>>

\* EliminateSubKey, from the keys below up; what may not be deleted is not told.
\* If that is a key below another, its deletion is tried for ever.
EliminateSubKey(i) ==
  IF server[i] > ClassKey THEN IF denied = "server" THEN server[i] ELSE ClassKey
  ELSE IF denied = "class" THEN server[i] ELSE 0

\* Faulty: takes away the key of the class and leaves the key below it.
EliminateOneKey ==
  /\ pc = "servers" /\ call = "unregister"
  /\ server' = [server EXCEPT ![at] = IF @ <= ClassKey THEN 0 ELSE @]
  /\ Following(Returns(TRUE))
  /\ UNCHANGED <<filter, denied, mapper, excused>>

UnregisterServer ==
  /\ pc = "servers" /\ call = "unregister"
  /\ server' = [server EXCEPT ![at] = EliminateSubKey(at)]
  /\ IF server[at] > ClassKey THEN UNCHANGED <<call, pc, at, answer>>
     ELSE Following(Returns(TRUE))
  /\ UNCHANGED <<filter, denied, mapper, excused>>

-----------------------------------------------------------------------------
(* Filters.                                                                *)

\* CoCreateInstance of the filter mapper, or of the older one.
FindMapper ==
  /\ pc = "mapper"
  /\ \/ Goes("filters") /\ mapper' \in {1, 2}
     \/ Returns(FALSE) /\ UNCHANGED mapper
  /\ UNCHANGED <<server, filter, denied, excused>>

\* The older mapper is told of the pins one by one, and a pin may fail.
Registered == IF mapper = 1 THEN {"none", "bare", "whole"} ELSE {"none", "whole"}

AfterFilters ==
  IF call = "register" THEN Returns(TRUE) ELSE Goes("servers")

\* What is there is taken away first, which may fail unnoticed.
Replaced == Registered \cup {filter[at]}

\* Faulty: a filter that fails does not end the loop.
RegisterFilterAndGoOn ==
  /\ pc = "filters"
  /\ \/ /\ call = "register" /\ at \in Filters
        /\ \E f \in Replaced : filter' = [filter EXCEPT ![at] = f]
     \/ /\ call = "unregister" /\ at \in Filters
        /\ \E ok \in BOOLEAN : filter' = IF ok THEN [filter EXCEPT ![at] = "none"] ELSE filter
     \/ at \notin Filters /\ UNCHANGED filter
  /\ Following(AfterFilters)
  /\ UNCHANGED <<server, denied, mapper, excused>>

\* AMovieSetupRegisterFilter2 or AMovieSetupRegisterFilter.  Either takes the answer
\* "file not found" for success, which the mapper gives when there is no filter to
\* unregister, and may give when it registers one.
RegisterFilter ==
  /\ pc = "filters"
  /\ \/ /\ call = "register" /\ at \in Filters
        /\ filter' = [filter EXCEPT ![at] = "whole"]
        /\ Following(AfterFilters) /\ UNCHANGED excused
     \/ /\ call = "register" /\ at \in Filters   \* "file not found"
        /\ \E f \in Replaced : filter' = [filter EXCEPT ![at] = f]
        /\ Following(AfterFilters) /\ excused' = excused \cup {at}
     \/ /\ call = "register" /\ at \in Filters
        /\ \E f \in Replaced : filter' = [filter EXCEPT ![at] = f]
        /\ Returns(FALSE) /\ UNCHANGED excused
     \/ /\ call = "unregister" /\ at \in Filters
        /\ filter' = [filter EXCEPT ![at] = "none"]
        /\ Following(AfterFilters) /\ UNCHANGED excused
     \/ /\ call = "unregister" /\ at \in Filters /\ Returns(FALSE)
        /\ UNCHANGED <<filter, excused>>
     \/ at \notin Filters /\ Following(AfterFilters) /\ UNCHANGED <<filter, excused>>
  /\ UNCHANGED <<server, denied, mapper>>

\* The process ends in the middle of a call.
Killed ==
  /\ pc # "idle" /\ pc' = "idle" /\ at' = 1 /\ call' = "none" /\ answer' = "none"
  /\ UNCHANGED <<server, filter, denied, mapper, excused>>

Next ==
  \/ \E c \in {"register", "unregister"} : AMovieDllRegisterServer2(c)
  \/ RegisterServer \/ UnregisterServer \/ FindMapper \/ RegisterFilter \/ Killed

Spec == Init /\ [][Next]_vars

-----------------------------------------------------------------------------
(* Properties.                                                             *)

TypeOK ==
  /\ server \in [Templates -> 0..Written]
  /\ filter \in [Templates -> {"none", "bare", "whole"}]
  /\ denied \in {"nothing", "class", "server"}
  /\ call \in {"none", "register", "unregister"}
  /\ pc \in {"idle", "servers", "mapper", "filters"} /\ at \in Templates
  /\ mapper \in {1, 2} /\ answer \in {"none", "failed", "register", "unregister"}
  /\ excused \subseteq Templates

\* A filter that the graph can find has its server written whole behind it, whatever
\* call failed or was killed where, and however often calls were repeated: the order
\* of servers and filters in AMovieDllRegisterServer2.
ServerBehindFilter ==
  \A i \in Templates : filter[i] # "none" => server[i] = Written

\* A call that says it succeeded has registered every server and filter but those
\* whose failure it excuses, or has left none, unless the user may not delete the
\* keys (which EliminateSubKey does not tell).
CallsAreWhole ==
  /\ answer = "register" => /\ \A i \in Templates : server[i] = Written
                            /\ \A i \in Filters \ excused : filter[i] = "whole"
  /\ answer = "unregister" /\ denied = "nothing" =>
       \A i \in Templates : server[i] = 0 /\ filter[i] = "none"

\* A comment of dllsetup.cpp calls the excuse that of a "filter not being registered",
\* which would be a matter of unregistering alone.  The code does not keep it.
ExcusedWhenUnregistering == answer = "register" => excused = {}
=============================================================================
