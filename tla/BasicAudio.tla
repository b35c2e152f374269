----------------------------- MODULE BasicAudio -----------------------------
(***************************************************************************)
(* Volume, balance and sample formats of COpenALStream (OpenALStream.cpp): *)
(* the device is opened by the constructor and closed by Destroy, the      *)
(* sound thread makes the source and gives it the volume kept for it, and  *)
(* applications set and ask the volume meanwhile, without a lock.  AL's    *)
(* part - the context, the source and its gain, what it supports - is      *)
(* external; a gain is written as the volume it comes from.                *)
(***************************************************************************)
EXTENDS Integers, FiniteSets

CONSTANTS Callers,  \* application threads
          Volumes,  \* what they ask for, in hundredths of a decibel
          Balances,
          Libraries \* what AL libraries support: sets of "float32", "MCFORMATS", "X-Fi"

None == 0

VARIABLES
  supports,       \* external: extensions and renderer of the AL library
  context,        \* external: a context is current
  m_source,       \* None or the source
  gain,           \* external: the source's AL_GAIN
  m_volume,
  m_fake_balance,
  pc,             \* caller -> "idle", "read" or "apply", in put_Volume
  arguments,      \* thread -> the source and volume it passes to palSourcef
  sound,          \* where the sound thread is
  raced           \* history: volume calls that touch the source overlapped

streams == <<supports, context, m_source, gain, sound>>
settings == <<m_volume, m_fake_balance>>
vars == <<streams, settings, pc, arguments, raced>>

-----------------------------------------------------------------------------
(* Formats.                                                                *)

SupportedBitness ==
  {"bit16", "bit8"} \cup (IF "float32" \in supports THEN {"bitfloat"} ELSE {})
                    \cup (IF "X-Fi" \in supports THEN {"bit32"} ELSE {})

SupportedSpeakerLayout ==
  {"Quad", "Stereo", "Mono"} \cup
    IF supports \cap {"MCFORMATS", "X-Fi"} # {} THEN {"Surround8", "Surround6"} ELSE {}

\* The name GenerateFormatString builds.
FormatString(layout, bitness) ==
  <<CASE layout = "Mono" -> "MONO" [] layout = "Stereo" -> "STEREO" [] layout = "Quad" -> "QUAD"
      [] layout = "Surround6" -> "51CHN" [] layout = "Surround8" -> "71CHN",
    CASE bitness = "bit8" -> "8" [] bitness = "bit16" -> "16" [] bitness = "bit32" -> "32"
      [] bitness = "bitfloat" -> IF layout \in {"Stereo", "Mono"} THEN "_FLOAT32" ELSE "32">>

\* Faulty: surround layouts counted without their low-frequency channel.
FrameSizeWithoutBass(layout, bitness) ==
  (CASE layout = "Mono" -> 1 [] layout = "Stereo" -> 2 [] layout = "Quad" -> 4
     [] layout = "Surround6" -> 5 [] layout = "Surround8" -> 7)
  * (CASE bitness = "bit8" -> 1 [] bitness = "bit16" -> 2 [] OTHER -> 4)

GetFrameSize(layout, bitness) ==
  (CASE layout = "Mono" -> 1 [] layout = "Stereo" -> 2 [] layout = "Quad" -> 4
     [] layout = "Surround6" -> 6 [] layout = "Surround8" -> 8)
  * (CASE bitness = "bit8" -> 1 [] bitness = "bit16" -> 2 [] OTHER -> 4)

\* The bytes AL takes for one frame of a format of that name.
ALFrame(name) ==
  (CASE name[1] = "MONO" -> 1 [] name[1] = "STEREO" -> 2 [] name[1] = "QUAD" -> 4
     [] name[1] = "51CHN" -> 6 [] name[1] = "71CHN" -> 8)
  * (CASE name[2] = "8" -> 1 [] name[2] = "16" -> 2 [] OTHER -> 4)

-----------------------------------------------------------------------------
\* The constructor; OpenDevice may fail, which is only asserted.
Init ==
  /\ supports \in Libraries
  /\ context \in BOOLEAN
  /\ m_source = None /\ gain = 0 /\ sound = "none"
  /\ m_volume = 0 /\ m_fake_balance = 0
  /\ pc = [c \in Callers |-> "idle"]
  /\ arguments = [t \in Callers \cup {"sound"} |-> <<None, 0>>]
  /\ raced = FALSE

\* What palSourcef does with its arguments: nothing without a context or source.
SourceGain(t) ==
  gain' = IF context /\ arguments[t][1] # None /\ arguments[t][1] = m_source
          THEN arguments[t][2] ELSE gain

Reads(t) == arguments' = [arguments EXCEPT ![t] = <<m_source, m_volume>>]

Forgets(t) == arguments' = [arguments EXCEPT ![t] = <<None, 0>>]

Busy == {c \in Callers : pc[c] # "idle"}

-----------------------------------------------------------------------------
(* The sound thread and the end of the device.                             *)

StartDevice ==
  /\ sound = "none"
  /\ sound' = "generate"
  /\ UNCHANGED <<supports, context, m_source, gain, settings, pc, arguments, raced>>

Generate ==
  /\ sound = "generate"
  /\ m_source' = IF context THEN 1 ELSE None
  /\ gain' = 0
  /\ sound' = "volume"
  /\ raced' = (raced \/ Busy # {})
  /\ UNCHANGED <<supports, context, settings, pc, arguments>>

\* Faulty: the source keeps AL's gain.
LeaveVolume ==
  /\ sound = "volume"
  /\ sound' = "loop"
  /\ UNCHANGED <<supports, context, m_source, gain, settings, pc, arguments, raced>>

ReadVolume ==
  /\ sound = "volume"
  /\ Reads("sound")
  /\ sound' = "set"
  /\ UNCHANGED <<supports, context, m_source, gain, settings, pc, raced>>

SetDefaultVolume ==
  /\ sound = "set"
  /\ SourceGain("sound")
  /\ Forgets("sound")
  /\ sound' = "loop"
  /\ UNCHANGED <<supports, context, m_source, settings, pc, raced>>

\* Without a context there is nothing to destroy.
Destroy ==
  /\ context
  /\ context' = FALSE /\ m_source' = None
  /\ raced' = (raced \/ Busy # {})
  /\ UNCHANGED <<supports, gain, sound, settings, pc, arguments>>

-----------------------------------------------------------------------------
(* The applications.                                                       *)

put_Volume(c) ==
  /\ pc[c] = "idle"
  /\ \E v \in Volumes :
       /\ v >= -10000 /\ v <= 0
       /\ m_volume' = v
  /\ pc' = [pc EXCEPT ![c] = "read"]
  /\ raced' = (Busy # {} \/ sound \in {"volume", "set"})
  /\ UNCHANGED <<streams, m_fake_balance, arguments>>

ReadSource(c) ==
  /\ pc[c] = "read"
  /\ Reads(c)
  /\ pc' = [pc EXCEPT ![c] = "apply"]
  /\ UNCHANGED <<streams, settings, raced>>

ApplyVolume(c) ==
  /\ pc[c] = "apply"
  /\ SourceGain(c)
  /\ Forgets(c)
  /\ pc' = [pc EXCEPT ![c] = "idle"]
  /\ UNCHANGED <<supports, context, m_source, sound, settings, raced>>

\* The balance is kept and does nothing.
put_Balance(c) ==
  /\ pc[c] = "idle"
  /\ \E b \in Balances : b >= -10000 /\ b <= 10000 /\ m_fake_balance' = b
  /\ UNCHANGED <<streams, m_volume, pc, arguments, raced>>

\* What get_Volume may answer: the source's gain where there is one, as a
\* logarithm cut off towards zero.
get_Volume ==
  LET f == IF m_source # None /\ context THEN gain ELSE m_volume
  IN  IF f = 0 THEN {0} ELSE {f, f + 1}

Next ==
  \/ StartDevice \/ Generate \/ ReadVolume \/ SetDefaultVolume \/ Destroy
  \/ \E c \in Callers :
       put_Volume(c) \/ ReadSource(c) \/ ApplyVolume(c) \/ put_Balance(c)

Spec == Init /\ [][Next]_vars

-----------------------------------------------------------------------------
\* A volume put before there is a source, with it or after its end is the one the
\* source plays with and the one get_Volume answers, to a hundredth of a decibel
\* and within its range, once the calls are over and none has overlapped another
\* or the making of the source.  (Two that overlap may leave the source with the
\* volume of the earlier.)
VolumeHolds ==
  /\ -10000 <= m_volume /\ m_volume <= 0 /\ -10000 <= m_fake_balance /\ m_fake_balance <= 10000
  /\ Busy = {} /\ ~raced /\ sound \notin {"volume", "set"} =>
       \A v \in get_Volume : -10000 <= v /\ v <= 0 /\ v - m_volume \in {0, 1}

\* Whatever the library supports, the frames of every format the pin may set have
\* the size AL takes for the format named.  (Quad counts as supported without the
\* extension that names it.)
FramesFitFormat ==
  \A l \in SupportedSpeakerLayout, b \in SupportedBitness :
    GetFrameSize(l, b) = ALFrame(FormatString(l, b))
=============================================================================
