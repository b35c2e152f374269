----------------------------- MODULE ObjectLife -----------------------------
(***************************************************************************)
(* The life of COM objects (combase.cpp, dllentry.cpp): CUnknown's         *)
(* reference count and the deletion it leads to, CClassFactory, which      *)
(* makes the objects, and the counts by which DllCanUnloadNow tells        *)
(* whether the library may go.  Objects and their interfaces may be passed *)
(* from thread to thread; each thread asks for a factory of its own and    *)
(* keeps it, as its count is not made for two: ++m_cRef reads and writes   *)
(* it in two steps, so that threads with one factory would lose counts.    *)
(***************************************************************************)
EXTENDS Integers, FiniteSets

CONSTANTS Threads,
          Objects,  \* the objects that may be made
          RefsMax,  \* bound: references a thread keeps to an object or its factory
          LocksMax  \* bound on m_cLocked, which lost updates let drift either way

Nothing == "nothing"

VARIABLES
  life,      \* object -> "unmade", "alive", "dying" or "gone"
  m_cRef,    \* object -> its count of references
  deleted,   \* object -> how often its destructor has been entered
  m_cObjects, \* objects and factories that exist
  factory,   \* thread -> m_cRef of its factory, 0 when it has none
  m_cLocked, \* LockServer's count, changed without an interlock
  lock,      \* thread -> it has locked the server
  refs,      \* thread -> object -> references it keeps
  pc,        \* thread -> where it is in a call
  on,        \* thread -> the object the call is about
  local,     \* thread -> what it has read or been told
  library    \* "loaded", "looked": m_cLocked has been read as 0, or "unloaded"

counts == <<factory, m_cLocked, lock>>
objects == <<life, m_cRef, deleted, m_cObjects>>
vars == <<objects, counts, refs, pc, on, local, library>>

Init ==
  /\ life = [o \in Objects |-> "unmade"]
  /\ m_cRef = [o \in Objects |-> 0]
  /\ deleted = [o \in Objects |-> 0]
  /\ m_cObjects = 0
  /\ factory = [t \in Threads |-> 0]
  /\ m_cLocked = 0 /\ lock = [t \in Threads |-> FALSE]
  /\ refs = [t \in Threads |-> [o \in Objects |-> 0]]
  /\ pc = [t \in Threads |-> "idle"]
  /\ on = [t \in Threads |-> Nothing]
  /\ local = [t \in Threads |-> 0]
  /\ library = "loaded"

Goes(t, at) == pc' = [pc EXCEPT ![t] = at]

\* Code of the library runs only while it is loaded.
Runs(t, at) == pc[t] = at /\ library # "unloaded"

-----------------------------------------------------------------------------
(* The factory.                                                            *)

\* DllGetClassObject of a class the library has: a factory with one reference.
DllGetClassObject(t) ==
  /\ Runs(t, "idle") /\ factory[t] = 0
  /\ m_cObjects' = m_cObjects + 1
  /\ factory' = [factory EXCEPT ![t] = 1]
  /\ UNCHANGED <<life, m_cRef, deleted, m_cLocked, lock, refs, pc, on, local, library>>

\* ++m_cRef, of AddRef too.
FactoryQueryInterface(t) ==
  /\ Runs(t, "idle") /\ factory[t] > 0 /\ factory[t] < RefsMax
  /\ local' = [local EXCEPT ![t] = factory[t]]
  /\ Goes(t, "addref")
  /\ UNCHANGED <<objects, counts, refs, on, library>>

FactoryReferenced(t) ==
  /\ Runs(t, "addref")
  /\ factory' = [factory EXCEPT ![t] = local[t] + 1]
  /\ local' = [local EXCEPT ![t] = 0]
  /\ Goes(t, "idle")
  /\ UNCHANGED <<objects, m_cLocked, lock, refs, on, library>>

FactoryRelease(t) ==
  /\ Runs(t, "idle") /\ factory[t] > 0
  /\ factory' = [factory EXCEPT ![t] = @ - 1]
  /\ m_cObjects' = IF factory[t] = 1 THEN m_cObjects - 1 ELSE m_cObjects
  /\ UNCHANGED <<life, m_cRef, deleted, m_cLocked, lock, refs, pc, on, local, library>>

\* m_cLocked++ and m_cLocked-- read and write in two steps.  A thread gives back
\* the lock it has.
LockServer(t) ==
  /\ Runs(t, "idle") /\ factory[t] > 0
  /\ m_cLocked \in -LocksMax .. LocksMax
  /\ local' = [local EXCEPT ![t] = m_cLocked]
  /\ Goes(t, IF lock[t] THEN "unlock" ELSE "lock")
  /\ UNCHANGED <<objects, counts, refs, on, library>>

Locked(t) ==
  /\ \/ Runs(t, "lock") /\ m_cLocked' = local[t] + 1
     \/ Runs(t, "unlock") /\ m_cLocked' = local[t] - 1
  /\ lock' = [lock EXCEPT ![t] = ~@]
  /\ local' = [local EXCEPT ![t] = 0]
  /\ Goes(t, "idle")
  /\ UNCHANGED <<objects, factory, refs, on, library>>

-----------------------------------------------------------------------------
(* Creation.                                                               *)

\* The constructor: the count starts at zero.  One that fails has the object
\* deleted, one without memory makes none.
CreateInstance(t) ==
  /\ Runs(t, "idle") /\ factory[t] > 0
  /\ \E o \in Objects :
       /\ life[o] = "unmade"
       /\ life' = [life EXCEPT ![o] = "alive"]
       /\ m_cObjects' = m_cObjects + 1
       /\ on' = [on EXCEPT ![t] = o]
       /\ \E made \in {"created", "failed"} : Goes(t, made)
  /\ UNCHANGED <<m_cRef, deleted, counts, refs, local, library>>

\* The destructor of an object whose construction failed: its count is zero, and
\* it has not yet aggregated anything.
ConstructionFailed(t) ==
  /\ Runs(t, "failed")
  /\ local' = [local EXCEPT ![t] = 1]
  /\ deleted' = [deleted EXCEPT ![on[t]] = @ + 1]
  /\ life' = [life EXCEPT ![on[t]] = "dying"]
  /\ Goes(t, "destructor")
  /\ UNCHANGED <<m_cRef, m_cObjects, counts, refs, on, library>>

\* The reference held around the first QueryInterface.
CreateAddRef(t) ==
  /\ Runs(t, "created")
  /\ m_cRef' = [m_cRef EXCEPT ![on[t]] = @ + 1]
  /\ Goes(t, "query")
  /\ UNCHANGED <<life, deleted, m_cObjects, counts, refs, on, local, library>>

\* NonDelegatingQueryInterface of an interface the object has, lacks, or makes an
\* inner object for, which references the outer one for a while.
QueryInterface(t) ==
  /\ Runs(t, "query")
  /\ \/ /\ m_cRef' = [m_cRef EXCEPT ![on[t]] = @ + 1]
        /\ refs' = [refs EXCEPT ![t][on[t]] = @ + 1]
        /\ Goes(t, "release")
     \/ UNCHANGED <<m_cRef, refs>> /\ Goes(t, "release")
     \/ /\ m_cRef' = [m_cRef EXCEPT ![on[t]] = @ + 1]
        /\ UNCHANGED refs
        /\ Goes(t, "innerDone")
  /\ UNCHANGED <<life, deleted, m_cObjects, counts, on, local, library>>

-----------------------------------------------------------------------------
(* References.                                                             *)

\* QueryInterface and AddRef: for the thread itself, or to hand to another.
AddRef(t) ==
  /\ Runs(t, "idle")
  /\ \E o \in Objects, u \in Threads :
       /\ refs[t][o] > 0 /\ refs[u][o] < RefsMax
       /\ m_cRef' = [m_cRef EXCEPT ![o] = @ + 1]
       /\ refs' = [refs EXCEPT ![u][o] = @ + 1]
  /\ UNCHANGED <<life, deleted, m_cObjects, counts, pc, on, local, library>>

ReleaseCall(t) ==
  /\ Runs(t, "idle")
  /\ \E o \in Objects :
       /\ refs[t][o] > 0
       /\ refs' = [refs EXCEPT ![t][o] = @ - 1]
       /\ on' = [on EXCEPT ![t] = o]
  /\ Goes(t, "release")
  /\ UNCHANGED <<objects, counts, local, library>>

\* The interlocked decrement of NonDelegatingRelease, by a client, by
\* CreateInstance, or by the inner object that goes on to have its interface
\* referenced.
Decrement(t) ==
  /\ Runs(t, "release") \/ Runs(t, "innerDone")
  /\ m_cRef' = [m_cRef EXCEPT ![on[t]] = @ - 1]
  /\ Goes(t, IF m_cRef[on[t]] = 1 THEN "zero"
             ELSE IF pc[t] = "innerDone" THEN "query" ELSE "idle")
  /\ UNCHANGED <<life, deleted, m_cObjects, counts, refs, on, local, library>>

\* Faulty: the destructor is entered with a count of zero.
DeleteUnguarded(t) ==
  /\ Runs(t, "zero")
  /\ deleted' = [deleted EXCEPT ![on[t]] = @ + 1]
  /\ life' = [life EXCEPT ![on[t]] = "dying"]
  /\ Goes(t, "destructor")
  /\ UNCHANGED <<m_cRef, m_cObjects, counts, refs, on, local, library>>

\* The count was zero: a reference for the time of the destructor, and delete.
Delete(t) ==
  /\ Runs(t, "zero")
  /\ m_cRef' = [m_cRef EXCEPT ![on[t]] = @ + 1]
  /\ deleted' = [deleted EXCEPT ![on[t]] = @ + 1]
  /\ life' = [life EXCEPT ![on[t]] = "dying"]
  /\ Goes(t, "destructor")
  /\ UNCHANGED <<m_cObjects, counts, refs, on, local, library>>

\* The destructor of an aggregator references itself before it gives back the
\* interface it keeps of what it aggregates, whose reference on it goes with it.
DestructorAddRef(t) ==
  /\ Runs(t, "destructor") /\ local[t] = 0
  /\ local' = [local EXCEPT ![t] = 1]
  /\ m_cRef' = [m_cRef EXCEPT ![on[t]] = @ + 1]
  /\ Goes(t, "destructorRelease")
  /\ UNCHANGED <<life, deleted, m_cObjects, counts, refs, on, library>>

DestructorRelease(t) ==
  /\ Runs(t, "destructorRelease")
  /\ m_cRef' = [m_cRef EXCEPT ![on[t]] = @ - 1]
  /\ Goes(t, IF m_cRef[on[t]] = 1 THEN "zero" ELSE "destructor")
  /\ UNCHANGED <<life, deleted, m_cObjects, counts, refs, on, local, library>>

\* ~CBaseObject.
Destroyed(t) ==
  /\ Runs(t, "destructor")
  /\ life' = [life EXCEPT ![on[t]] = "gone"]
  /\ m_cObjects' = m_cObjects - 1
  /\ local' = [local EXCEPT ![t] = 0]
  /\ on' = [on EXCEPT ![t] = Nothing]
  /\ Goes(t, "idle")
  /\ UNCHANGED <<m_cRef, deleted, counts, refs, library>>

-----------------------------------------------------------------------------
(* DllCanUnloadNow reads the two counts one after the other.  COM unloads  *)
(* on S_OK.                                                                *)

IsLocked ==
  /\ library = "loaded" /\ m_cLocked <= 0
  /\ library' = "looked"
  /\ UNCHANGED <<objects, counts, refs, pc, on, local>>

ObjectsActive ==
  /\ library = "looked"
  /\ library' = IF m_cObjects = 0 THEN "unloaded" ELSE "loaded"
  /\ UNCHANGED <<objects, counts, refs, pc, on, local>>

Next ==
  \/ \E t \in Threads :
       \/ DllGetClassObject(t) \/ FactoryQueryInterface(t) \/ FactoryReferenced(t)
       \/ FactoryRelease(t) \/ LockServer(t) \/ Locked(t)
       \/ CreateInstance(t) \/ ConstructionFailed(t) \/ CreateAddRef(t) \/ QueryInterface(t)
       \/ AddRef(t) \/ ReleaseCall(t) \/ Decrement(t)
       \/ Delete(t) \/ DestructorAddRef(t) \/ DestructorRelease(t) \/ Destroyed(t)
  \/ IsLocked \/ ObjectsActive

Spec == Init /\ [][Next]_vars

-----------------------------------------------------------------------------
At(o) == {t \in Threads : on[t] = o /\ pc[t] \notin {"idle", "addref", "lock", "unlock"}}

\* An object whose interfaces threads pass on and release in any order lives as
\* long as one of them keeps a reference, is deleted once, even when its
\* destructor or the query of its first interface has it referenced and released
\* again, and is gone when the last reference is; the library is not unloaded
\* while an object or a factory exists.
LivesWhileReferenced ==
  /\ \A o \in Objects :
       /\ (\E t \in Threads : refs[t][o] > 0) => life[o] = "alive"
       /\ deleted[o] <= 1
       /\ life[o] = "alive" =>
            \E t \in Threads : refs[t][o] > 0 \/ t \in At(o)
  /\ library = "unloaded" =>
       /\ \A o \in Objects : life[o] \in {"unmade", "gone"}
       /\ \A t \in Threads : factory[t] = 0
=============================================================================
