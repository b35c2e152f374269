----------------------------- MODULE MCClasses ------------------------------
(***************************************************************************)
(* Values for the constants of Connection, and beside it, as instances,    *)
(* the classes everything else is built from: objects and the library they *)
(* are in (combase, dllentry), media types (mtype) and 64 bit arithmetic   *)
(* (arithutil).  MCFilters goes on from here.                              *)
(***************************************************************************)
EXTENDS Connection, FiniteSets

CONSTANTS
  \* objects: the threads, the objects that may be made, bounds on references and locks
  ol_Threads, ol_Objects, ol_RefsMax, ol_LocksMax,
  \* arithmetic: the width of a number
  md_Width,
  \* media types: the types, values of formattype, formats, the blocks, a bound
  my_Types, my_FormatTypes, my_Formats, my_Blocks, my_LostMax

\* Two types the device takes; one with a bitness it does not support; one with a
\* number of channels and one with a format tag that CheckOpenALMediaType has no
\* case for; and one that is not audio.
CD    == [freq |-> 44, layout |-> "stereo", bits |-> 16]
Voice == [freq |-> 8, layout |-> "mono", bits |-> 8]
HiRes == [freq |-> 44, layout |-> "mono", bits |-> 24]
Five  == [freq |-> 44, layout |-> Unknown, bits |-> 16]
Float == [freq |-> 44, layout |-> "stereo", bits |-> Unknown]
Video == [freq |-> 0, layout |-> Unknown, bits |-> Unknown]

MCTypes   == {CD, Voice, HiRes, Five, Float, Video}
MCForeign == {Video}
MCOffered == <<Video, HiRes, CD>>
MCLayouts == {"mono", "stereo"}
MCBits    == {8, 16}
MCDefault == [freq |-> 48, layout |-> "surround", bits |-> 16]
MCFormats == {<<0>>, <<0, 1>>, <<0, 0>>}

\* There is room for the reference that whoever makes an object is given.
ASSUME ObjectAssumption ==
  /\ IsFiniteSet(ol_Threads) /\ IsFiniteSet(ol_Objects) /\ "nothing" \notin ol_Objects
  /\ ol_RefsMax \in Nat \ {0}
\* A format is not empty, and overwriting the front of one with another gives one.
ASSUME TypesAssumption ==
  /\ IsFiniteSet(my_Types) /\ my_Blocks \in Nat
  /\ my_Formats \subseteq Seq(Int) /\ <<>> \notin my_Formats
  /\ \A f, g \in my_Formats : Len(f) <= Len(g) =>
       [i \in DOMAIN g |-> IF i <= Len(f) THEN f[i] ELSE g[i]] \in my_Formats
ASSUME ArithmeticAssumption == md_Width \in Nat \ {0}

VARIABLES
  ol_life, ol_m_cRef, ol_deleted, ol_m_cObjects, ol_factory, ol_m_cLocked,
  ol_lock, ol_refs, ol_pc, ol_on, ol_local, ol_library,
  md_call, md_result,
  my_type, my_heap, my_m_cRef, my_copied, my_lost

olVars ==
  <<ol_life, ol_m_cRef, ol_deleted, ol_m_cObjects, ol_factory, ol_m_cLocked,
    ol_lock, ol_refs, ol_pc, ol_on, ol_local, ol_library>>
mdVars ==
  <<md_call, md_result>>
myVars ==
  <<my_type, my_heap, my_m_cRef, my_copied, my_lost>>

OL == INSTANCE ObjectLife WITH
  Threads <- ol_Threads, Objects <- ol_Objects, RefsMax <- ol_RefsMax,
  LocksMax <- ol_LocksMax, life <- ol_life, m_cRef <- ol_m_cRef,
  deleted <- ol_deleted, m_cObjects <- ol_m_cObjects, factory <- ol_factory,
  m_cLocked <- ol_m_cLocked, lock <- ol_lock, refs <- ol_refs, pc <- ol_pc,
  on <- ol_on, local <- ol_local, library <- ol_library

MD == INSTANCE MulDiv WITH
  Width <- md_Width, call <- md_call, result <- md_result

MY == INSTANCE MediaTypes WITH
  Types <- my_Types, FormatTypes <- my_FormatTypes, Formats <- my_Formats,
  Blocks <- my_Blocks, LostMax <- my_LostMax, type <- my_type,
  heap <- my_heap, m_cRef <- my_m_cRef, copied <- my_copied, lost <- my_lost
=============================================================================
