--------------------------- MODULE FiltersProofs ----------------------------
(***************************************************************************)
(* Proofs about the units of MCFilters beside those of MCClasses: the      *)
(* device, the stream control of a pin, registration, the place of a       *)
(* window, its rectangles, the quality of a renderer and of a decoder, the *)
(* filter that works in place, the queue of commands and the palettes of a *)
(* window, for every value of the constants.  Each unit has its inductive  *)
(* invariant, XXInv, with XXStart, XXStep and what follows from it; the    *)
(* last part puts all of them together with those of ConnectionProofs: a   *)
(* step of MCNext is a step of one unit and a stutter of the others.       *)
(***************************************************************************)
EXTENDS MCFilters, ConnectionProofs

-----------------------------------------------------------------------------
(***************************************************************************)
(* The device.  Unless two calls raced, at most one call is under way, and *)
(* whoever is about to give the source a volume gives it the latest.       *)
(***************************************************************************)

BAFlags == ba_context \in BOOLEAN /\ ba_raced \in BOOLEAN

BANumbers == /\ ba_m_source \in {0, 1} /\ ba_gain \in Int
             /\ ba_m_volume \in Int /\ -10000 <= ba_m_volume /\ ba_m_volume <= 0
             /\ ba_m_fake_balance \in Int /\ -10000 <= ba_m_fake_balance
             /\ ba_m_fake_balance <= 10000

BAThreads ==
  /\ ba_sound \in {"none", "generate", "volume", "set", "loop"}
  /\ ba_pc \in [ba_Callers -> {"idle", "read", "apply"}]

BAArguments ==
  /\ DOMAIN ba_arguments = ba_Callers \cup {"sound"}
  /\ \A t \in ba_Callers \cup {"sound"} : ba_arguments[t][1] \in {BA!None, 1} /\ ba_arguments[t][2] \in Int

\* There is a source only in a context, and once it has been generated.
BASource == ba_m_source # BA!None => ba_context /\ ba_sound \notin {"none", "generate"}

\* No two calls are under way, and none beside the making of the source.
BAAlone ==
  /\ \A c, d \in ba_Callers : ba_pc[c] # "idle" /\ ba_pc[d] # "idle" => c = d
  /\ ba_sound \in {"volume", "set"} => \A c \in ba_Callers : ba_pc[c] = "idle"

\* Whoever is about to give the source a volume gives it the latest.
BAHands ==
  /\ \A c \in ba_Callers : ba_pc[c] = "apply" => ba_arguments[c] = <<ba_m_source, ba_m_volume>>
  /\ ba_sound = "set" /\ ba_context => ba_arguments["sound"] = <<ba_m_source, ba_m_volume>>

\* With nobody about to, it plays with the latest.
BAGain ==
  ba_m_source # BA!None /\ ba_sound = "loop" /\ (\A c \in ba_Callers : ba_pc[c] = "idle") => ba_gain = ba_m_volume

BAInv == /\ BAFlags /\ BANumbers /\ BAThreads /\ BAArguments /\ BASource
         /\ ba_raced \/ (BAAlone /\ BAHands /\ BAGain)

LEMMA BAStart == BA!Init => BAInv
  <1> USE AudioAssumption DEF BA!Init, BA!None
  <1>1. BA!Init => BAFlags /\ BASource
    BY DEF BAFlags, BASource
  <1>2. BA!Init => BANumbers
    BY DEF BANumbers, BA!None
  <1>3. BA!Init => BAThreads
    BY DEF BAThreads
  <1>4. BA!Init => BAArguments
    BY DEF BAArguments
  <1>5. BA!Init => BAAlone /\ BAHands /\ BAGain
    BY DEF BAAlone, BAHands, BAGain
  <1> QED
    BY <1>1, <1>2, <1>3, <1>4, <1>5 DEF BAInv

(* A thread keeps the source and volume it read.                           *)
LEMMA BAPut ==
  ASSUME BAArguments, NEW t \in ba_Callers \cup {"sound"}, NEW a \in {BA!None, 1}, NEW b \in Int,
         ba_arguments' = [ba_arguments EXCEPT ![t] = <<a, b>>]
  PROVE  BAArguments'
  BY DEF BAArguments

LEMMA BAStep == BAInv /\ [BA!Next]_(BA!vars) => BAInv'
  <1> SUFFICES ASSUME BAInv, [BA!Next]_(BA!vars)
               PROVE  BAInv'
    OBVIOUS
  <1> USE AudioAssumption
  <1>0. /\ BAFlags /\ BANumbers /\ BAThreads /\ BAArguments /\ BASource
        /\ ba_raced \/ (BAAlone /\ BAHands /\ BAGain)
    BY DEF BAInv
  <1>1. CASE BA!StartDevice
    <2>1. ba_raced' = ba_raced
      BY <1>1 DEF BA!StartDevice, BA!settings
    <2>2. BAFlags'
      BY <1>1, <1>0, <2>1 DEF BA!StartDevice, BA!settings, BAFlags
    <2>3. BANumbers'
      BY <1>1, <1>0 DEF BA!StartDevice, BA!settings, BANumbers, BA!None
    <2>4. BAThreads'
      BY <1>1, <1>0 DEF BA!StartDevice, BA!settings, BAThreads
    <2>5. ba_arguments' = ba_arguments
      BY <1>1 DEF BA!StartDevice, BA!settings
    <2>6. BAArguments'
      BY <1>0, <2>5 DEF BAArguments
    <2>7. BASource'
      BY <1>1, <1>0 DEF BA!StartDevice, BA!settings, BASource
    <2>8. ba_raced' \/ (BAAlone /\ BAHands /\ BAGain)
      BY <1>0, <2>1
    <2>9. ba_raced' \/ BAAlone'
      BY <1>1, <1>0, <2>8 DEF BA!StartDevice, BA!settings, BAAlone, BAThreads
    <2>10. ba_raced' \/ BAHands'
      BY <1>1, <1>0, <2>8 DEF BA!StartDevice, BA!settings, BAHands
    <2>11. ba_raced' \/ BAGain'
      BY <1>1, <1>0, <2>8 DEF BA!StartDevice, BA!settings, BAGain
    <2> QED
      BY <2>1, <2>2, <2>3, <2>4, <2>5, <2>6, <2>7, <2>8, <2>9, <2>10, <2>11 DEF BAInv
  <1>2. CASE BA!Generate
    <2>1. ba_raced' = (ba_raced \/ BA!Busy # {})
      BY <1>2 DEF BA!Generate, BA!settings, BA!None
    <2>2. ba_raced' \in BOOLEAN
      BY <2>1
    <2>3. BAFlags'
      BY <1>2, <1>0, <2>2 DEF BA!Generate, BA!settings, BA!None, BAFlags
    <2>4. BANumbers'
      BY <1>2, <1>0 DEF BA!Generate, BA!settings, BA!None, BANumbers
    <2>5. BAThreads'
      BY <1>2, <1>0 DEF BA!Generate, BA!settings, BA!None, BAThreads
    <2>6. ba_arguments' = ba_arguments
      BY <1>2 DEF BA!Generate, BA!settings, BA!None
    <2>7. BAArguments'
      BY <1>0, <2>6 DEF BAArguments
    <2>8. BASource'
      BY <1>2, <1>0 DEF BA!Generate, BA!settings, BA!None, BASource
    <2>9. ba_raced' \/ (~ba_raced /\ BA!Busy = {})
      BY <2>1
    <2>10. ba_raced' \/ (BAAlone /\ BAHands /\ BAGain /\ \A c \in ba_Callers : ba_pc[c] = "idle")
      BY <1>0, <2>9 DEF BA!Busy
    <2>11. ba_raced' \/ BAAlone'
      BY <1>2, <1>0, <2>10 DEF BA!Generate, BA!settings, BA!None, BAAlone, BAThreads
    <2>12. ba_raced' \/ BAHands'
      BY <1>2, <1>0, <2>10 DEF BA!Generate, BA!settings, BA!None, BAHands
    <2>13. ba_raced' \/ BAGain'
      BY <1>2, <1>0, <2>10 DEF BA!Generate, BA!settings, BA!None, BAGain
    <2> QED
      BY <2>1, <2>2, <2>3, <2>4, <2>5, <2>6, <2>7, <2>8, <2>9, <2>10, <2>11, <2>12,
         <2>13 DEF BAInv
  <1>3. CASE BA!ReadVolume
    <2>1. ba_raced' = ba_raced
      BY <1>3 DEF BA!ReadVolume, BA!settings, BA!Reads
    <2>2. BAFlags'
      BY <1>3, <1>0, <2>1 DEF BA!ReadVolume, BA!settings, BA!Reads, BAFlags
    <2>3. UNCHANGED <<ba_m_source, ba_gain, BA!settings>>
      BY <1>3 DEF BA!ReadVolume, BA!settings, BA!Reads
    <2>4. BANumbers'
      BY <1>0, <2>3 DEF BA!settings, BANumbers, BA!None
    <2>5. BAThreads'
      BY <1>3, <1>0 DEF BA!ReadVolume, BA!settings, BA!Reads, BAThreads
    <2>6. ba_arguments' = [ba_arguments EXCEPT !["sound"] = <<ba_m_source, ba_m_volume>>]
      BY <1>3 DEF BA!ReadVolume, BA!settings, BA!Reads
    <2>7. ba_m_source \in {BA!None, 1} /\ ba_m_volume \in Int
      BY <1>0 DEF BANumbers, BA!None
    <2>8. BAArguments'
      BY <1>0, <2>6, <2>7, BAPut
    <2>9. BASource'
      BY <1>3, <1>0 DEF BA!ReadVolume, BA!settings, BA!Reads, BASource, BAThreads
    <2>10. ba_raced' \/ (BAAlone /\ BAHands /\ BAGain)
      BY <1>0, <2>1
    <2>11. ba_raced' \/ BAAlone'
      BY <1>3, <1>0, <2>10 DEF BA!ReadVolume, BA!settings, BA!Reads, BAAlone, BAThreads
    <2>12. ba_raced' \/ BAHands'
      BY <1>3, <1>0, <2>10
         DEF BA!ReadVolume, BA!settings, BA!Reads, BAHands, BAArguments
    <2>13. ba_raced' \/ BAGain'
      BY <1>3, <1>0, <2>10 DEF BA!ReadVolume, BA!settings, BA!Reads, BAGain
    <2> QED
      BY <2>1, <2>2, <2>3, <2>4, <2>5, <2>6, <2>7, <2>8, <2>9, <2>10, <2>11, <2>12,
         <2>13 DEF BAInv
  <1>4. CASE BA!SetDefaultVolume
    <2>1. ba_raced' = ba_raced
      BY <1>4 DEF BA!SetDefaultVolume, BA!settings, BA!SourceGain, BA!Forgets, BA!None
    <2>2. BAFlags'
      BY <1>4, <1>0, <2>1
         DEF BA!SetDefaultVolume, BA!settings, BA!SourceGain, BA!Forgets, BA!None,
             BAFlags
    <2>3. ba_arguments["sound"][2] \in Int
      BY <1>0 DEF BAArguments
    <2>4. UNCHANGED <<ba_m_source, BA!settings>>
          /\ (ba_gain' = ba_gain \/ ba_gain' = ba_arguments["sound"][2])
      BY <1>4 DEF BA!SetDefaultVolume, BA!settings, BA!SourceGain, BA!Forgets, BA!None
    <2>5. BANumbers'
      BY <1>0, <2>3, <2>4 DEF BA!settings, BANumbers, BA!None
    <2>6. BAThreads'
      BY <1>4, <1>0
         DEF BA!SetDefaultVolume, BA!settings, BA!SourceGain, BA!Forgets, BA!None,
             BAThreads
    <2>7. ba_arguments' = [ba_arguments EXCEPT !["sound"] = <<BA!None, 0>>]
      BY <1>4 DEF BA!SetDefaultVolume, BA!settings, BA!SourceGain, BA!Forgets, BA!None
    <2>8. BA!None \in {BA!None, 1} /\ 0 \in Int
      BY SMT
    <2>9. BAArguments'
      BY <1>0, <2>7, <2>8, BAPut
    <2>10. BASource'
      BY <1>4, <1>0
         DEF BA!SetDefaultVolume, BA!settings, BA!SourceGain, BA!Forgets, BA!None,
             BASource, BAThreads
    <2>11. ba_raced' \/ (BAAlone /\ BAHands /\ BAGain)
      BY <1>0, <2>1
    <2>12. ba_raced' \/ BAAlone'
      BY <1>4, <1>0, <2>11
         DEF BA!SetDefaultVolume, BA!settings, BA!SourceGain, BA!Forgets, BA!None,
             BAAlone, BAThreads
    <2>13. ba_raced' \/ BAHands'
      BY <1>4, <1>0, <2>11
         DEF BA!SetDefaultVolume, BA!settings, BA!SourceGain, BA!Forgets, BA!None,
             BAHands, BAArguments
    <2>14. ba_raced' \/ BAGain'
      BY <1>4, <1>0, <2>11
         DEF BA!SetDefaultVolume, BA!settings, BA!SourceGain, BA!Forgets, BA!None,
             BAGain, BAHands, BASource
    <2> QED
      BY <2>1, <2>2, <2>3, <2>4, <2>5, <2>6, <2>7, <2>8, <2>9, <2>10, <2>11, <2>12,
         <2>13, <2>14 DEF BAInv
  <1>5. CASE BA!Destroy
    <2>1. ba_raced' = (ba_raced \/ BA!Busy # {})
      BY <1>5 DEF BA!Destroy, BA!settings, BA!None
    <2>2. ba_raced' \in BOOLEAN
      BY <2>1
    <2>3. BAFlags'
      BY <1>5, <1>0, <2>2 DEF BA!Destroy, BA!settings, BA!None, BAFlags
    <2>4. BANumbers'
      BY <1>5, <1>0 DEF BA!Destroy, BA!settings, BA!None, BANumbers
    <2>5. BAThreads'
      BY <1>5, <1>0 DEF BA!Destroy, BA!settings, BA!None, BAThreads
    <2>6. ba_arguments' = ba_arguments
      BY <1>5 DEF BA!Destroy, BA!settings, BA!None
    <2>7. BAArguments'
      BY <1>0, <2>6 DEF BAArguments
    <2>8. BASource'
      BY <1>5, <1>0 DEF BA!Destroy, BA!settings, BA!None, BASource
    <2>9. ba_raced' \/ (~ba_raced /\ BA!Busy = {})
      BY <2>1
    <2>10. ba_raced' \/ (BAAlone /\ BAHands /\ BAGain /\ \A c \in ba_Callers : ba_pc[c] = "idle")
      BY <1>0, <2>9 DEF BA!Busy
    <2>11. ba_raced' \/ BAAlone'
      BY <1>5, <1>0, <2>10 DEF BA!Destroy, BA!settings, BA!None, BAAlone, BAThreads
    <2>12. ba_raced' \/ BAHands'
      BY <1>5, <1>0, <2>10 DEF BA!Destroy, BA!settings, BA!None, BAHands
    <2>13. ba_raced' \/ BAGain'
      BY <1>5, <1>0, <2>10 DEF BA!Destroy, BA!settings, BA!None, BAGain
    <2> QED
      BY <2>1, <2>2, <2>3, <2>4, <2>5, <2>6, <2>7, <2>8, <2>9, <2>10, <2>11, <2>12,
         <2>13 DEF BAInv
  <1>6. ASSUME NEW c \in ba_Callers, BA!put_Volume(c) PROVE BAInv'
    <2>1. ba_raced' = (BA!Busy # {} \/ ba_sound \in {"volume", "set"})
      BY <1>6 DEF BA!put_Volume, BA!streams
    <2>2. ba_raced' \in BOOLEAN
      BY <2>1
    <2>3. BAFlags'
      BY <1>6, <1>0, <2>2 DEF BA!put_Volume, BA!streams, BAFlags
    <2>4. BANumbers'
      BY <1>6, <1>0 DEF BA!put_Volume, BA!streams, BANumbers, BA!None
    <2>5. BAThreads'
      BY <1>6, <1>0 DEF BA!put_Volume, BA!streams, BAThreads
    <2>6. ba_arguments' = ba_arguments
      BY <1>6 DEF BA!put_Volume, BA!streams
    <2>7. BAArguments'
      BY <1>0, <2>6 DEF BAArguments
    <2>8. BASource'
      BY <1>6, <1>0 DEF BA!put_Volume, BA!streams, BASource, BAThreads
    <2>9. ba_raced' \/ (BA!Busy = {} /\ ba_sound \notin {"volume", "set"})
      BY <2>1
    <2>10. ba_raced' \/ (ba_sound \notin {"volume", "set"} /\ \A d \in ba_Callers : ba_pc[d] = "idle")
      BY <2>9 DEF BA!Busy
    <2>11. ba_raced' \/ BAAlone'
      BY <1>6, <1>0, <2>10 DEF BA!put_Volume, BA!streams, BAAlone, BAThreads
    <2>12. ba_raced' \/ BAHands'
      BY <1>6, <1>0, <2>10 DEF BA!put_Volume, BA!streams, BAHands, BAThreads
    <2>13. ba_raced' \/ BAGain'
      BY <1>6, <1>0, <2>10 DEF BA!put_Volume, BA!streams, BAGain, BAThreads
    <2> QED
      BY <2>1, <2>2, <2>3, <2>4, <2>5, <2>6, <2>7, <2>8, <2>9, <2>10, <2>11, <2>12,
         <2>13 DEF BAInv
  <1>7. ASSUME NEW c \in ba_Callers, BA!ReadSource(c) PROVE BAInv'
    <2>1. ba_raced' = ba_raced
      BY <1>7 DEF BA!ReadSource, BA!streams, BA!settings, BA!Reads
    <2>2. BAFlags'
      BY <1>7, <1>0, <2>1 DEF BA!ReadSource, BA!streams, BA!settings, BA!Reads, BAFlags
    <2>3. UNCHANGED <<ba_m_source, ba_gain, BA!settings>>
      BY <1>7 DEF BA!ReadSource, BA!streams, BA!settings, BA!Reads
    <2>4. BANumbers'
      BY <1>0, <2>3 DEF BA!settings, BANumbers, BA!None
    <2>5. BAThreads'
      BY <1>7, <1>0 DEF BA!ReadSource, BA!streams, BA!settings, BA!Reads, BAThreads
    <2>6. ba_arguments' = [ba_arguments EXCEPT ![c] = <<ba_m_source, ba_m_volume>>]
      BY <1>7 DEF BA!ReadSource, BA!streams, BA!settings, BA!Reads
    <2>7. ba_m_source \in {BA!None, 1} /\ ba_m_volume \in Int
      BY <1>0 DEF BANumbers, BA!None
    <2>8. BAArguments'
      BY <1>0, <2>6, <2>7, BAPut
    <2>9. BASource'
      BY <1>7, <1>0 DEF BA!ReadSource, BA!streams, BA!settings, BA!Reads, BASource
    <2>10. ba_raced' \/ (BAAlone /\ BAHands /\ BAGain)
      BY <1>0, <2>1
    <2>11. ba_raced' \/ BAAlone'
      BY <1>7, <1>0, <2>10
         DEF BA!ReadSource, BA!streams, BA!settings, BA!Reads, BAAlone, BAThreads
    <2>12. ba_raced' \/ BAHands'
      BY <1>7, <1>0, <2>10
         DEF BA!ReadSource, BA!streams, BA!settings, BA!Reads, BAHands, BAThreads,
             BAArguments
    <2>13. ba_raced' \/ BAGain'
      BY <1>7, <1>0, <2>10
         DEF BA!ReadSource, BA!streams, BA!settings, BA!Reads, BAGain, BAThreads
    <2> QED
      BY <2>1, <2>2, <2>3, <2>4, <2>5, <2>6, <2>7, <2>8, <2>9, <2>10, <2>11, <2>12,
         <2>13 DEF BAInv
  <1>8. ASSUME NEW c \in ba_Callers, BA!ApplyVolume(c) PROVE BAInv'
    <2>1. ba_raced' = ba_raced
      BY <1>8 DEF BA!ApplyVolume, BA!settings, BA!SourceGain, BA!Forgets, BA!None
    <2>2. BAFlags'
      BY <1>8, <1>0, <2>1
         DEF BA!ApplyVolume, BA!settings, BA!SourceGain, BA!Forgets, BA!None, BAFlags
    <2>3. ba_arguments[c][2] \in Int
      BY <1>0 DEF BAArguments
    <2>4. UNCHANGED <<ba_m_source, BA!settings>>
          /\ (ba_gain' = ba_gain \/ ba_gain' = ba_arguments[c][2])
      BY <1>8 DEF BA!ApplyVolume, BA!settings, BA!SourceGain, BA!Forgets, BA!None
    <2>5. BANumbers'
      BY <1>0, <2>3, <2>4 DEF BA!settings, BANumbers, BA!None
    <2>6. BAThreads'
      BY <1>8, <1>0
         DEF BA!ApplyVolume, BA!settings, BA!SourceGain, BA!Forgets, BA!None, BAThreads
    <2>7. ba_arguments' = [ba_arguments EXCEPT ![c] = <<BA!None, 0>>]
      BY <1>8 DEF BA!ApplyVolume, BA!settings, BA!SourceGain, BA!Forgets, BA!None
    <2>8. BA!None \in {BA!None, 1} /\ 0 \in Int
      BY SMT
    <2>9. BAArguments'
      BY <1>0, <2>7, <2>8, BAPut
    <2>10. BASource'
      BY <1>8, <1>0
         DEF BA!ApplyVolume, BA!settings, BA!SourceGain, BA!Forgets, BA!None, BASource,
             BAThreads
    <2>11. ba_raced' \/ (BAAlone /\ BAHands /\ BAGain)
      BY <1>0, <2>1
    <2>12. ba_raced' \/ BAAlone'
      BY <1>8, <1>0, <2>11
         DEF BA!ApplyVolume, BA!settings, BA!SourceGain, BA!Forgets, BA!None, BAAlone,
             BAThreads
    <2>13. ba_raced' \/ BAHands'
      BY <1>8, <1>0, <2>11
         DEF BA!ApplyVolume, BA!settings, BA!SourceGain, BA!Forgets, BA!None, BAAlone,
             BAHands, BAThreads, BAArguments
    <2>14. ba_raced' \/ BAGain'
      BY <1>8, <1>0, <2>11
         DEF BA!ApplyVolume, BA!settings, BA!SourceGain, BA!Forgets, BA!None, BAGain,
             BAHands, BASource, BAThreads
    <2> QED
      BY <2>1, <2>2, <2>3, <2>4, <2>5, <2>6, <2>7, <2>8, <2>9, <2>10, <2>11, <2>12,
         <2>13, <2>14 DEF BAInv
  <1>9. ASSUME NEW c \in ba_Callers, BA!put_Balance(c) PROVE BAInv'
    <2>1. ba_raced' = ba_raced
      BY <1>9 DEF BA!put_Balance, BA!streams
    <2>2. BAFlags'
      BY <1>9, <1>0, <2>1 DEF BA!put_Balance, BA!streams, BAFlags
    <2>3. BANumbers'
      BY <1>9, <1>0 DEF BA!put_Balance, BA!streams, BANumbers, BA!None
    <2>4. BAThreads'
      BY <1>9, <1>0 DEF BA!put_Balance, BA!streams, BAThreads
    <2>5. ba_arguments' = ba_arguments
      BY <1>9 DEF BA!put_Balance, BA!streams
    <2>6. BAArguments'
      BY <1>0, <2>5 DEF BAArguments
    <2>7. BASource'
      BY <1>9, <1>0 DEF BA!put_Balance, BA!streams, BASource
    <2>8. ba_raced' \/ (BAAlone /\ BAHands /\ BAGain)
      BY <1>0, <2>1
    <2>9. ba_raced' \/ BAAlone'
      BY <1>9, <1>0, <2>8 DEF BA!put_Balance, BA!streams, BAAlone, BAThreads
    <2>10. ba_raced' \/ BAHands'
      BY <1>9, <1>0, <2>8 DEF BA!put_Balance, BA!streams, BAHands
    <2>11. ba_raced' \/ BAGain'
      BY <1>9, <1>0, <2>8 DEF BA!put_Balance, BA!streams, BAGain
    <2> QED
      BY <2>1, <2>2, <2>3, <2>4, <2>5, <2>6, <2>7, <2>8, <2>9, <2>10, <2>11 DEF BAInv
  <1>10. CASE UNCHANGED BA!vars
    <2>1. ba_raced' = ba_raced
      BY <1>10 DEF BA!vars, BA!streams, BA!settings
    <2>2. BAFlags'
      BY <1>10, <1>0, <2>1 DEF BA!vars, BA!streams, BA!settings, BAFlags
    <2>3. BANumbers'
      BY <1>10, <1>0 DEF BA!vars, BA!streams, BA!settings, BANumbers, BA!None
    <2>4. BAThreads'
      BY <1>10, <1>0 DEF BA!vars, BA!streams, BA!settings, BAThreads
    <2>5. ba_arguments' = ba_arguments
      BY <1>10 DEF BA!vars, BA!streams, BA!settings
    <2>6. BAArguments'
      BY <1>0, <2>5 DEF BAArguments
    <2>7. BASource'
      BY <1>10, <1>0 DEF BA!vars, BA!streams, BA!settings, BASource
    <2>8. ba_raced' \/ (BAAlone /\ BAHands /\ BAGain)
      BY <1>0, <2>1
    <2>9. ba_raced' \/ BAAlone'
      BY <1>10, <1>0, <2>8 DEF BA!vars, BA!streams, BA!settings, BAAlone, BAThreads
    <2>10. ba_raced' \/ BAHands'
      BY <1>10, <1>0, <2>8 DEF BA!vars, BA!streams, BA!settings, BAHands
    <2>11. ba_raced' \/ BAGain'
      BY <1>10, <1>0, <2>8 DEF BA!vars, BA!streams, BA!settings, BAGain
    <2> QED
      BY <2>1, <2>2, <2>3, <2>4, <2>5, <2>6, <2>7, <2>8, <2>9, <2>10, <2>11 DEF BAInv
  <1> QED
    BY <1>1, <1>2, <1>3, <1>4, <1>5, <1>6, <1>7, <1>8, <1>9, <1>10 DEF BA!Next

LEMMA BAVolume == BAInv => BA!VolumeHolds
  <1> SUFFICES ASSUME BAInv
               PROVE  BA!VolumeHolds
    OBVIOUS
  <1>0. /\ ba_m_volume \in Int /\ -10000 <= ba_m_volume /\ ba_m_volume <= 0
        /\ ba_m_fake_balance \in Int /\ -10000 <= ba_m_fake_balance
        /\ ba_m_fake_balance <= 10000
    BY DEF BAInv, BANumbers, BA!None
  <1>2. ASSUME BA!Busy = {}, ~ba_raced, ba_sound \notin {"volume", "set"}, NEW v \in BA!get_Volume
        PROVE  -10000 <= v /\ v <= 0 /\ v - ba_m_volume \in {0, 1}
    <2>1. ba_m_source # BA!None => ba_gain = ba_m_volume
      BY <1>2 DEF BAInv, BAThreads, BASource, BAGain, BA!Busy
    <2>2. v = ba_m_volume \/ (ba_m_volume # 0 /\ v = ba_m_volume + 1)
      BY <1>2, <2>1 DEF BA!get_Volume
    <2>4. CASE v = ba_m_volume
      BY <1>0, <2>4
    <2>5. CASE ba_m_volume # 0 /\ v = ba_m_volume + 1
      BY <1>0, <2>5
    <2> QED
      BY <2>2, <2>4, <2>5
  <1> QED
    BY <1>0, <1>2 DEF BA!VolumeHolds

(* AL's frame and the filter's agree, format by format.                    *)
LEMMA BAFrames == BA!FramesFitFormat
  <1> SUFFICES ASSUME NEW l \in {"Quad", "Stereo", "Mono", "Surround8", "Surround6"},
                      NEW b \in {"bit16", "bit8", "bitfloat", "bit32"}
               PROVE  BA!GetFrameSize(l, b) = BA!ALFrame(BA!FormatString(l, b))
    BY DEF BA!FramesFitFormat, BA!SupportedSpeakerLayout, BA!SupportedBitness
  <1> DEFINE n == BA!FormatString(l, b)
  <1>1. (CASE n[1] = "MONO" -> 1 [] n[1] = "STEREO" -> 2 [] n[1] = "QUAD" -> 4
           [] n[1] = "51CHN" -> 6 [] n[1] = "71CHN" -> 8)
        = (CASE l = "Mono" -> 1 [] l = "Stereo" -> 2 [] l = "Quad" -> 4
             [] l = "Surround6" -> 6 [] l = "Surround8" -> 8)
    BY DEF BA!FormatString
  <1>2. (CASE n[2] = "8" -> 1 [] n[2] = "16" -> 2 [] OTHER -> 4)
        = (CASE b = "bit8" -> 1 [] b = "bit16" -> 2 [] OTHER -> 4)
    BY DEF BA!FormatString
  <1> QED
    BY <1>1, <1>2 DEF BA!GetFrameSize, BA!ALFrame

-----------------------------------------------------------------------------
(***************************************************************************)
(* Stream control: a stop is pending only after the start that is, and what*)
(* becomes of the sample in hand follows from where it is in those times.  *)
(***************************************************************************)

SCSettings ==
  /\ sc_stream \in {"FLOWING", "DISCARDING"} /\ sc_onStop \in {"FLOWING", "DISCARDING"}
  /\ sc_startTime \in 0..SC!Never /\ sc_stopTime \in 0..SC!Never

SCFlags ==
  /\ sc_flushing \in BOOLEAN /\ sc_sendExtra \in BOOLEAN /\ sc_extraSent \in BOOLEAN
  /\ sc_event \in BOOLEAN /\ sc_hasClock \in BOOLEAN

SCPlaces ==
  /\ sc_filter \in {"Stopped", "Paused", "Running"}
  /\ sc_answer \in {"FLOWING", "DISCARDING"}
  /\ sc_spc \in {"idle", "look", "times", "test", "send", "discard", "wait", "waitForEver"}

\* The sample in hand ends after it begins, and before the end of time.
SCSample ==
  /\ sc_sample = [start |-> sc_sample.start, stop |-> sc_sample.stop]
  /\ sc_sample.start \in 0..SC!Never /\ sc_sample.stop \in 0..SC!Never
  /\ sc_spc # "idle" => sc_sample.start < sc_sample.stop /\ sc_sample.stop < SC!Never

SCInv == SCSettings /\ SCFlags /\ SCPlaces /\ SCSample /\ SC!PendingStop

LEMMA SCStart == SC!Init => SCInv
  <1> SUFFICES ASSUME SC!Init
               PROVE  SCInv
    OBVIOUS
  <1>1. SCSettings /\ SC!PendingStop
    BY ControlAssumption DEF SC!Init, SC!Never, SCSettings, SC!PendingStop
  <1>2. SCFlags
    BY DEF SC!Init, SCFlags
  <1>3. SCPlaces
    BY DEF SC!Init, SCPlaces
  <1>4. SCSample
    BY ControlAssumption DEF SC!Init, SCSample, SC!NoSample, SC!Never
  <1> QED
    BY <1>1, <1>2, <1>3, <1>4 DEF SCInv

(* An order of ExecuteStart and ExecuteStop, as a record of settings, and   *)
(* what CheckSampleTimes makes of them.                                     *)
SCGood(s) ==
  /\ s.stream \in {"FLOWING", "DISCARDING"} /\ s.onStop \in {"FLOWING", "DISCARDING"}
  /\ s.start \in 0..SC!Never /\ s.stop \in 0..SC!Never
  /\ (s.stop # SC!Never) <=> (s.onStop = "DISCARDING")

LEMMA SCOrders ==
  ASSUME SCSettings, SC!PendingStop, NEW from \in 0..sc_MaxTime, NEW to \in 0..sc_MaxTime, from < to
  PROVE  LET s == SC!Settings
             c == SC!CheckSampleTimes(s, from, to)
             t == SC!AsTold(s, from, to)
         IN  /\ c.stream = t.stream /\ c.onStop = t.onStop
             /\ c.start = t.start /\ c.stop = t.stop
             /\ SCGood(c)
  <1> USE ControlAssumption DEF SC!Settings, SC!CheckSampleTimes, SC!AsTold, SC!ExecuteStart, SC!ExecuteStop,
                                SC!CancelStart, SC!CancelStop, SCSettings, SC!PendingStop, SC!Never, SCGood
  <1>1. CASE sc_stopTime >= from /\ sc_startTime >= to
    BY <1>1
  <1>2. CASE sc_stopTime >= from /\ sc_startTime < to /\ sc_stopTime < sc_startTime
    BY <1>2
  <1>3. CASE sc_stopTime >= from /\ sc_startTime < to /\ ~(sc_stopTime < sc_startTime)
    BY <1>3
  <1>4. CASE sc_stopTime < from /\ sc_startTime >= to
    BY <1>4
  <1>5. CASE sc_stopTime < from /\ sc_startTime < to /\ sc_startTime <= sc_stopTime
    BY <1>5
  <1>6. CASE sc_stopTime < from /\ sc_startTime < to /\ ~(sc_startTime <= sc_stopTime)
    BY <1>6
  <1> QED
    BY <1>1, <1>2, <1>3, <1>4, <1>5, <1>6

(* A stop of the filter executes what is pending in its order.              *)
LEMMA SCBecomes ==
  ASSUME NEW s, SCGood(s), SC!Becomes(s)
  PROVE  SCSettings' /\ SC!PendingStop'
  BY DEF SCGood, SC!Becomes, SCSettings, SC!PendingStop, SC!Never

(* The answer is the one the comment of CheckSampleTimes promises.          *)
LEMMA SCTold == SCInv /\ [SC!Next]_(SC!vars) => SC!SampleIsTold
  <1> SUFFICES ASSUME SCInv, [SC!Next]_(SC!vars), sc_spc = "times", sc_spc' # "times"
               PROVE  SC!Becomes(SC!AsTold(SC!Settings, sc_sample.start, sc_sample.stop))
    BY DEF SC!SampleIsTold
  <1>1. SC!Times
    BY
       DEF SC!Next, SC!vars, SC!asked, SC!StopAt, SC!StopNow, SC!StartAt, SC!StartNow,
           SC!NotifyStopped, SC!NotifyActive,
           SC!Flushing, SC!Ask, SC!AskUntimed, SC!Check, SC!Look, SC!TestExtra, SC!SendExtra, SC!Discard, SC!Timeout, SC!Wake
  <1>2. SC!Becomes(SC!CheckSampleTimes(SC!Settings, sc_sample.start, sc_sample.stop))
    BY <1>1 DEF SC!Times
  <1>3. sc_sample.start \in 0..sc_MaxTime /\ sc_sample.stop \in 0..sc_MaxTime
        /\ sc_sample.start < sc_sample.stop
    BY ControlAssumption DEF SCInv, SCSample, SC!Never
  <1> QED
    BY <1>2, <1>3, SCOrders DEF SCInv, SC!Becomes

LEMMA SCStep == SCInv /\ [SC!Next]_(SC!vars) => SCInv'
  <1> SUFFICES ASSUME SCInv, [SC!Next]_(SC!vars)
               PROVE  SCInv'
    OBVIOUS
  <1>0. SCSettings /\ SCFlags /\ SCPlaces /\ SCSample /\ SC!PendingStop
    BY DEF SCInv
  <1>1. CASE SC!StopAt
    <2>1. SCSettings' /\ SC!PendingStop'
      BY <1>1, <1>0, ControlAssumption
         DEF SC!StopAt, SCSettings, SC!PendingStop, SC!Never
    <2>2. SCFlags'
      BY <1>1, <1>0 DEF SC!StopAt, SC!asked, SCFlags
    <2>3. SCPlaces'
      BY <1>1, <1>0 DEF SC!StopAt, SC!asked, SCPlaces
    <2>4. SCSample'
      BY <1>1, <1>0, ControlAssumption
         DEF SC!StopAt, SC!asked, SCSample, SC!NoSample, SC!Never
    <2> QED
      BY <2>1, <2>2, <2>3, <2>4 DEF SCInv
  <1>2. CASE SC!StopNow
    <2>1. SCSettings' /\ SC!PendingStop'
      BY <1>2, <1>0, ControlAssumption
         DEF SC!StopNow, SCSettings, SC!PendingStop, SC!Never
    <2>2. SCFlags'
      BY <1>2, <1>0 DEF SC!StopNow, SC!asked, SCFlags
    <2>3. SCPlaces'
      BY <1>2, <1>0 DEF SC!StopNow, SC!asked, SCPlaces
    <2>4. SCSample'
      BY <1>2, <1>0, ControlAssumption
         DEF SC!StopNow, SC!asked, SCSample, SC!NoSample, SC!Never
    <2> QED
      BY <2>1, <2>2, <2>3, <2>4 DEF SCInv
  <1>3. CASE SC!StartAt
    <2>1. SCSettings' /\ SC!PendingStop'
      BY <1>3, <1>0, ControlAssumption
         DEF SC!StartAt, SCSettings, SC!PendingStop, SC!Never
    <2>2. SCFlags'
      BY <1>3, <1>0 DEF SC!StartAt, SC!asked, SCFlags
    <2>3. SCPlaces'
      BY <1>3, <1>0 DEF SC!StartAt, SC!asked, SCPlaces
    <2>4. SCSample'
      BY <1>3, <1>0, ControlAssumption
         DEF SC!StartAt, SC!asked, SCSample, SC!NoSample, SC!Never
    <2> QED
      BY <2>1, <2>2, <2>3, <2>4 DEF SCInv
  <1>4. CASE SC!StartNow
    <2>1. SCSettings' /\ SC!PendingStop'
      BY <1>4, <1>0, ControlAssumption
         DEF SC!StartNow, SCSettings, SC!PendingStop, SC!Never
    <2>2. SCFlags'
      BY <1>4, <1>0 DEF SC!StartNow, SC!asked, SCFlags
    <2>3. SCPlaces'
      BY <1>4, <1>0 DEF SC!StartNow, SC!asked, SCPlaces
    <2>4. SCSample'
      BY <1>4, <1>0, ControlAssumption
         DEF SC!StartNow, SC!asked, SCSample, SC!NoSample, SC!Never
    <2> QED
      BY <2>1, <2>2, <2>3, <2>4 DEF SCInv
  <1>5. CASE SC!NotifyStopped
    <2>1. \E done : SCGood(done) /\ SC!Becomes(done)
      <3> DEFINE s == SC!Settings
                 done == CASE s.start # SC!Never /\ s.stop = SC!Never -> SC!ExecuteStart(s)
                           [] s.start = SC!Never /\ s.stop # SC!Never -> SC!ExecuteStop(s)
                           [] s.start # SC!Never /\ s.stop # SC!Never ->
                                IF s.start <= s.stop THEN SC!ExecuteStop(SC!ExecuteStart(s))
                                                     ELSE SC!ExecuteStart(SC!ExecuteStop(s))
                           [] OTHER -> s
      <3>1. SCGood([done EXCEPT !.stream = "FLOWING"])
        BY <1>0, ControlAssumption
           DEF SC!Settings, SC!ExecuteStart, SC!ExecuteStop, SC!CancelStart,
               SC!CancelStop,
                 SCSettings, SC!PendingStop, SC!Never, SCGood
      <3>2. SC!Becomes([done EXCEPT !.stream = "FLOWING"])
        BY <1>5 DEF SC!NotifyStopped
      <3> QED
        BY <3>1, <3>2
    <2>1a. SCSettings' /\ SC!PendingStop'
      BY <2>1, SCBecomes
    <2>2. SCFlags'
      BY <1>5, <1>0 DEF SC!NotifyStopped, SC!asked, SCFlags
    <2>3. SCPlaces'
      BY <1>5, <1>0 DEF SC!NotifyStopped, SC!asked, SCPlaces
    <2>4. SCSample'
      BY <1>5, <1>0, ControlAssumption
         DEF SC!NotifyStopped, SC!asked, SCSample, SC!NoSample, SC!Never
    <2> QED
      BY <2>1, <2>1a, <2>2, <2>3, <2>4 DEF SCInv
  <1>6. CASE SC!NotifyActive
    <2>1. SCSettings' /\ SC!PendingStop'
      BY <1>6, <1>0
         DEF SC!NotifyActive, SC!settings, SCSettings, SC!PendingStop, SC!Never
    <2>2. SCFlags'
      BY <1>6, <1>0 DEF SC!NotifyActive, SC!settings, SC!asked, SC!Rest, SCFlags
    <2>3. SCPlaces'
      BY <1>6, <1>0 DEF SC!NotifyActive, SC!settings, SC!asked, SC!Rest, SCPlaces
    <2>4. SCSample'
      BY <1>6, <1>0, ControlAssumption
         DEF SC!NotifyActive, SC!settings, SC!asked, SC!Rest, SCSample, SC!NoSample,
             SC!Never
    <2> QED
      BY <2>1, <2>2, <2>3, <2>4 DEF SCInv
  <1>7. CASE SC!Flushing
    <2>1. SCSettings' /\ SC!PendingStop'
      BY <1>7, <1>0 DEF SC!Flushing, SC!settings, SCSettings, SC!PendingStop, SC!Never
    <2>2. SCFlags'
      BY <1>7, <1>0 DEF SC!Flushing, SC!settings, SC!asked, SC!Rest, SCFlags
    <2>3. SCPlaces'
      BY <1>7, <1>0 DEF SC!Flushing, SC!settings, SC!asked, SC!Rest, SCPlaces
    <2>4. SCSample'
      BY <1>7, <1>0, ControlAssumption
         DEF SC!Flushing, SC!settings, SC!asked, SC!Rest, SCSample, SC!NoSample,
             SC!Never
    <2> QED
      BY <2>1, <2>2, <2>3, <2>4 DEF SCInv
  <1>8. CASE SC!Ask
    <2>1. SCSettings' /\ SC!PendingStop'
      BY <1>8, <1>0 DEF SC!Ask, SC!settings, SCSettings, SC!PendingStop, SC!Never
    <2>2. SCFlags'
      BY <1>8, <1>0 DEF SC!Ask, SC!settings, SC!Rest, SC!Answers, SCFlags
    <2>3. SCPlaces'
      BY <1>8, <1>0 DEF SC!Ask, SC!settings, SC!Rest, SC!Answers, SCPlaces
    <2>4. SCSample'
      BY <1>8, <1>0, ControlAssumption
         DEF SC!Ask, SC!settings, SC!Rest, SC!Answers, SCSample, SC!NoSample, SC!Never
    <2> QED
      BY <2>1, <2>2, <2>3, <2>4 DEF SCInv
  <1>9. CASE SC!AskUntimed
    <2>1. SCSettings' /\ SC!PendingStop'
      BY <1>9, <1>0 DEF SC!AskUntimed, SC!settings, SCSettings, SC!PendingStop, SC!Never
    <2>2. SCFlags'
      BY <1>9, <1>0 DEF SC!AskUntimed, SC!settings, SC!asked, SC!Rest, SCFlags
    <2>2a. sc_answer' \in {"FLOWING", "DISCARDING"}
      BY <1>9, <1>0 DEF SC!AskUntimed, SCSettings
    <2>2b. UNCHANGED <<sc_filter, sc_spc>>
      BY <1>9, <1>0 DEF SC!AskUntimed, SC!Rest
    <2>3. SCPlaces'
      BY <1>0, <2>2a, <2>2b DEF SCPlaces
    <2>4. SCSample'
      BY <1>9, <1>0, ControlAssumption
         DEF SC!AskUntimed, SC!settings, SC!asked, SC!Rest, SCSample, SC!NoSample,
             SC!Never
    <2> QED
      BY <2>1, <2>2, <2>3, <2>4 DEF SCInv
  <1>10. CASE SC!Look
    <2>1. SCSettings' /\ SC!PendingStop'
      BY <1>10, <1>0 DEF SC!Look, SC!settings, SCSettings, SC!PendingStop, SC!Never
    <2>2. SCFlags'
      BY <1>10, <1>0 DEF SC!Look, SC!settings, SC!Rest, SC!Answers, SCFlags
    <2>3. SCPlaces'
      BY <1>10, <1>0 DEF SC!Look, SC!settings, SC!Rest, SC!Answers, SCPlaces
    <2>4. SCSample'
      BY <1>10, <1>0, ControlAssumption
         DEF SC!Look, SC!settings, SC!Rest, SC!Answers, SCSample, SC!NoSample, SC!Never
    <2> QED
      BY <2>1, <2>2, <2>3, <2>4 DEF SCInv
  <1>11. CASE SC!Times
    <2>1. sc_sample.start \in 0..sc_MaxTime /\ sc_sample.stop \in 0..sc_MaxTime
          /\ sc_sample.start < sc_sample.stop
      BY <1>11, <1>0, ControlAssumption DEF SC!Times, SCSample, SC!Never
    <2>1a. SCSettings' /\ SC!PendingStop'
      BY <1>11, <1>0, <2>1, SCOrders, SCBecomes DEF SC!Times
    <2>2. SCFlags'
      BY <1>11, <1>0 DEF SC!Times, SC!Rest, SC!Answers, SCFlags
    <2>3. SCPlaces'
      BY <1>11, <1>0 DEF SC!Times, SC!Rest, SC!Answers, SCPlaces
    <2>4. SCSample'
      BY <1>11, <1>0, ControlAssumption
         DEF SC!Times, SC!Rest, SC!Answers, SCSample, SC!NoSample, SC!Never
    <2> QED
      BY <2>1, <2>1a, <2>2, <2>3, <2>4 DEF SCInv
  <1>12. CASE SC!TestExtra
    <2>1. SCSettings' /\ SC!PendingStop'
      BY <1>12, <1>0 DEF SC!TestExtra, SC!settings, SCSettings, SC!PendingStop, SC!Never
    <2>2. SCFlags'
      BY <1>12, <1>0 DEF SC!TestExtra, SC!settings, SC!asked, SC!Rest, SCFlags
    <2>3. SCPlaces'
      BY <1>12, <1>0 DEF SC!TestExtra, SC!settings, SC!asked, SC!Rest, SCPlaces
    <2>4. SCSample'
      BY <1>12, <1>0, ControlAssumption
         DEF SC!TestExtra, SC!settings, SC!asked, SC!Rest, SCSample, SC!NoSample,
             SC!Never
    <2> QED
      BY <2>1, <2>2, <2>3, <2>4 DEF SCInv
  <1>13. CASE SC!SendExtra
    <2>1. SCSettings' /\ SC!PendingStop'
      BY <1>13, <1>0 DEF SC!SendExtra, SC!settings, SCSettings, SC!PendingStop, SC!Never
    <2>2. SCFlags'
      BY <1>13, <1>0 DEF SC!SendExtra, SC!settings, SC!Rest, SC!Answers, SCFlags
    <2>3. SCPlaces'
      BY <1>13, <1>0 DEF SC!SendExtra, SC!settings, SC!Rest, SC!Answers, SCPlaces
    <2>4. SCSample'
      BY <1>13, <1>0, ControlAssumption
         DEF SC!SendExtra, SC!settings, SC!Rest, SC!Answers, SCSample, SC!NoSample,
             SC!Never
    <2> QED
      BY <2>1, <2>2, <2>3, <2>4 DEF SCInv
  <1>14. CASE SC!Discard
    <2>1. SCSettings' /\ SC!PendingStop'
      BY <1>14, <1>0 DEF SC!Discard, SC!settings, SCSettings, SC!PendingStop, SC!Never
    <2>2. SCFlags'
      BY <1>14, <1>0 DEF SC!Discard, SC!settings, SC!Rest, SC!Answers, SCFlags
    <2>3. SCPlaces'
      BY <1>14, <1>0 DEF SC!Discard, SC!settings, SC!Rest, SC!Answers, SCPlaces
    <2>4. SCSample'
      BY <1>14, <1>0, ControlAssumption
         DEF SC!Discard, SC!settings, SC!Rest, SC!Answers, SCSample, SC!NoSample,
             SC!Never
    <2> QED
      BY <2>1, <2>2, <2>3, <2>4 DEF SCInv
  <1>15. CASE SC!Timeout
    <2>1. SCSettings' /\ SC!PendingStop'
      BY <1>15, <1>0 DEF SC!Timeout, SC!settings, SCSettings, SC!PendingStop, SC!Never
    <2>2. SCFlags'
      BY <1>15, <1>0 DEF SC!Timeout, SC!settings, SC!Rest, SC!Answers, SCFlags
    <2>3. SCPlaces'
      BY <1>15, <1>0 DEF SC!Timeout, SC!settings, SC!Rest, SC!Answers, SCPlaces
    <2>4. SCSample'
      BY <1>15, <1>0, ControlAssumption
         DEF SC!Timeout, SC!settings, SC!Rest, SC!Answers, SCSample, SC!NoSample,
             SC!Never
    <2> QED
      BY <2>1, <2>2, <2>3, <2>4 DEF SCInv
  <1>16. CASE SC!Wake
    <2>1. SCSettings' /\ SC!PendingStop'
      BY <1>16, <1>0 DEF SC!Wake, SC!settings, SCSettings, SC!PendingStop, SC!Never
    <2>2. SCFlags'
      BY <1>16, <1>0 DEF SC!Wake, SC!settings, SC!asked, SC!Rest, SCFlags
    <2>3. SCPlaces'
      BY <1>16, <1>0 DEF SC!Wake, SC!settings, SC!asked, SC!Rest, SCPlaces
    <2>4. SCSample'
      BY <1>16, <1>0, ControlAssumption
         DEF SC!Wake, SC!settings, SC!asked, SC!Rest, SCSample, SC!NoSample, SC!Never
    <2> QED
      BY <2>1, <2>2, <2>3, <2>4 DEF SCInv
  <1>17. CASE UNCHANGED SC!vars
    <2>1. SCSettings' /\ SC!PendingStop'
      BY <1>17, <1>0 DEF SC!vars, SC!settings, SCSettings, SC!PendingStop, SC!Never
    <2>2. SCFlags'
      BY <1>17, <1>0 DEF SC!vars, SC!settings, SC!asked, SC!Rest, SCFlags
    <2>3. SCPlaces'
      BY <1>17, <1>0 DEF SC!vars, SC!settings, SC!asked, SC!Rest, SCPlaces
    <2>4. SCSample'
      BY <1>17, <1>0, ControlAssumption
         DEF SC!vars, SC!settings, SC!asked, SC!Rest, SCSample, SC!NoSample, SC!Never
    <2> QED
      BY <2>1, <2>2, <2>3, <2>4 DEF SCInv
  <1> QED
    BY <1>1, <1>2, <1>3, <1>4, <1>5, <1>6, <1>7, <1>8, <1>9, <1>10, <1>11, <1>12, <1>13,
       <1>14, <1>15, <1>16, <1>17 DEF SC!Next, SC!Check

LEMMA SCSafe == SCInv => SC!TypeOK /\ SC!PendingStop
  <1> SUFFICES ASSUME SCInv
               PROVE  SC!TypeOK
    BY DEF SCInv
  <1>1. {sc_stream, sc_onStop, sc_answer} \subseteq {"FLOWING", "DISCARDING"}
    BY DEF SCInv, SCSettings, SCPlaces
  <1>2. {sc_startTime, sc_stopTime} \subseteq 0..SC!Never
    BY DEF SCInv, SCSettings
  <1>3. {sc_flushing, sc_sendExtra, sc_extraSent, sc_event, sc_hasClock} \subseteq BOOLEAN
    BY DEF SCInv, SCFlags
  <1>4. sc_sample \in [start : 0..SC!Never, stop : 0..SC!Never]
    BY DEF SCInv, SCSample
  <1> QED
    BY <1>1, <1>2, <1>3, <1>4 DEF SCInv, SCPlaces, SC!TypeOK

-----------------------------------------------------------------------------
(***************************************************************************)
(* Registration: what has been written when a call has come to a template. *)
(***************************************************************************)

\* The table is not empty, and says which of its templates are filters.
RGTable == rg_N \in Nat \ {0} /\ rg_Filters \subseteq RG!Templates

\* What has been done when a call has come to pc and at.
RGDone ==
  /\ rg_call = "register" /\ rg_pc = "servers" =>
       \A i \in RG!Templates : i < rg_at => rg_server[i] = RG!Written
  /\ rg_call = "register" /\ rg_pc \in {"mapper", "filters"} =>
       \A i \in RG!Templates : rg_server[i] = RG!Written
  /\ rg_call = "register" /\ rg_pc = "filters" =>
       \A i \in rg_Filters \ rg_excused : i < rg_at => rg_filter[i] = "whole"
  /\ rg_call = "unregister" /\ rg_pc = "filters" =>
       \A i \in rg_Filters : i < rg_at => rg_filter[i] = "none"
  /\ rg_call = "unregister" /\ rg_pc = "servers" =>
       \A i \in RG!Templates : /\ rg_filter[i] = "none"
                               /\ i < rg_at /\ rg_denied = "nothing" => rg_server[i] = 0
  /\ rg_pc # "idle" => rg_call # "none" /\ rg_answer = "none"

RGInv ==
  /\ RG!TypeOK /\ RG!ServerBehindFilter /\ RG!CallsAreWhole /\ RGDone
  /\ \A i \in RG!Templates \ rg_Filters : rg_filter[i] = "none"

USE DEF RG!Templates, RG!Written, RG!ClassKey

LEMMA RGTableOK == RGTable
  BY RegistrationAssumption DEF RGTable, RG!Templates

LEMMA RGStart == RGTable /\ RG!Init => RGInv
  BY
     DEF RGTable, RG!Init, RGInv, RG!TypeOK, RG!ServerBehindFilter, RG!CallsAreWhole,
         RGDone

LEMMA RGStep == RGTable /\ RGInv /\ [RG!Next]_(RG!vars) => RGInv'
<1> SUFFICES ASSUME RGTable, RGInv, [RG!Next]_(RG!vars) PROVE RGInv'
  OBVIOUS
<1> USE DEF RGTable, RGInv, RG!TypeOK, RG!ServerBehindFilter, RG!CallsAreWhole, RGDone
<1>1. ASSUME NEW c \in {"register", "unregister"}, RG!AMovieDllRegisterServer2(c) PROVE RGInv'
  BY <1>1 DEF RG!AMovieDllRegisterServer2
<1>2. CASE RG!RegisterServer
  BY <1>2 DEF RG!RegisterServer, RG!Following, RG!Goes, RG!Returns
<1>3. CASE RG!UnregisterServer
  BY <1>3 DEF RG!UnregisterServer, RG!EliminateSubKey, RG!Following, RG!Returns
<1>4. CASE RG!FindMapper
  BY <1>4 DEF RG!FindMapper, RG!Goes, RG!Returns
<1>5. CASE RG!RegisterFilter
  <2>1. UNCHANGED <<rg_server, rg_denied, rg_mapper>> /\ rg_pc = "filters"
        /\ rg_server[rg_at] = rg_server'[rg_at]
    BY <1>5 DEF RG!RegisterFilter
  <2> USE DEF RG!AfterFilters, RG!Following, RG!Goes, RG!Returns
  <2>0. RG!Replaced \subseteq {"none", "bare", "whole"}
    BY DEF RG!Replaced, RG!Registered
  <2>2. ASSUME rg_call = "register", rg_at \in rg_Filters, rg_filter' = [rg_filter EXCEPT ![rg_at] = "whole"],
               RG!Following(RG!AfterFilters), UNCHANGED rg_excused
        PROVE RGInv'
    <3>1. \A i \in RG!Templates : rg_server[i] = RG!Written
      BY <2>1, <2>2
    <3>2. CASE rg_at < rg_N
      BY <2>1, <2>2, <3>1, <3>2
    <3>3. CASE ~(rg_at < rg_N)
      BY <2>1, <2>2, <3>1, <3>3
    <3>4. QED
      BY <3>2, <3>3
  <2>3. ASSUME rg_call = "register", rg_at \in rg_Filters, NEW f \in RG!Replaced,
               rg_filter' = [rg_filter EXCEPT ![rg_at] = f],
               RG!Following(RG!AfterFilters), rg_excused' = rg_excused \cup {rg_at}
        PROVE RGInv'
    <3>1. (\A i \in RG!Templates : rg_server[i] = RG!Written) /\ f \in {"none", "bare", "whole"}
      BY <2>0, <2>1, <2>3
    <3>2. CASE rg_at < rg_N
      BY <2>1, <2>3, <3>1, <3>2
    <3>3. CASE ~(rg_at < rg_N)
      BY <2>1, <2>3, <3>1, <3>3
    <3>4. QED
      BY <3>2, <3>3
  <2>4. ASSUME rg_call = "register", rg_at \in rg_Filters, NEW f \in RG!Replaced,
               rg_filter' = [rg_filter EXCEPT ![rg_at] = f], RG!Returns(FALSE), UNCHANGED rg_excused
        PROVE RGInv'
    <3>1. (\A i \in RG!Templates : rg_server[i] = RG!Written) /\ f \in {"none", "bare", "whole"}
      BY <2>0, <2>1, <2>4
    <3> QED
      BY <2>1, <2>4, <3>1
  <2>5. ASSUME rg_call = "unregister", rg_at \in rg_Filters, rg_filter' = [rg_filter EXCEPT ![rg_at] = "none"],
               RG!Following(RG!AfterFilters), UNCHANGED rg_excused
        PROVE RGInv'
    <3>1. CASE rg_at < rg_N
      BY <2>1, <2>5, <3>1
    <3>2. CASE ~(rg_at < rg_N)
      BY <2>1, <2>5, <3>2
    <3>3. QED
      BY <3>1, <3>2
  <2>6. CASE RG!Returns(FALSE) /\ UNCHANGED <<rg_filter, rg_excused>>
    BY <2>1, <2>6
  <2>7. CASE rg_at \notin rg_Filters /\ RG!Following(RG!AfterFilters)
             /\ UNCHANGED <<rg_filter, rg_excused>>
    <3>1. CASE rg_at < rg_N
      BY <2>1, <2>7, <3>1
    <3>2. CASE ~(rg_at < rg_N) /\ rg_call = "register"
      BY <2>1, <2>7, <3>2
    <3>3. CASE ~(rg_at < rg_N) /\ rg_call = "unregister"
      BY <2>1, <2>7, <3>3
    <3>4. QED
      BY <2>1, <3>1, <3>2, <3>3
  <2>8. QED
    BY <1>5, <2>2, <2>3, <2>4, <2>5, <2>6, <2>7 DEF RG!RegisterFilter
<1>6. CASE RG!Killed
  BY <1>6 DEF RG!Killed
<1>7. CASE UNCHANGED RG!vars
  BY <1>7 DEF RG!vars
<1>8. QED
  BY <1>1, <1>2, <1>3, <1>4, <1>5, <1>6, <1>7 DEF RG!Next

HIDE DEF RG!Templates, RG!Written, RG!ClassKey

-----------------------------------------------------------------------------
(***************************************************************************)
(* The place of a window.  While a style is being changed the window is out*)
(* of sight and the rectangle it is to come back to is kept (WCStyle).     *)
(***************************************************************************)

WCRect == [left : Int, top : Int, width : Int, height : Int]

WCTypes ==
  /\ wc_place \in WCRect /\ wc_WindowRect \in WCRect
  /\ wc_asked \in [place : WCRect, shown : BOOLEAN]
  /\ wc_parent \in BOOLEAN /\ wc_visible \in BOOLEAN
  /\ wc_step \in {"none", "move away", "show", "hide", "move back"}

\* While a style changes the window is to be hidden, it knows the way back, and is
\* seen only where nobody sees it.
WCStyle ==
  IF wc_step = "none" THEN wc_place = wc_asked.place /\ wc_visible = wc_asked.shown
  ELSE /\ ~wc_asked.shown /\ (wc_visible <=> wc_step = "hide")
       /\ WC!MapWindowPoints(wc_WindowRect) = wc_asked.place
       /\ wc_step # "move away" => wc_place.left = wc_Screen /\ wc_place.top = wc_Screen

WCInv == WCTypes /\ WCStyle

(* There and back again.                                                   *)
LEMMA WCMove ==
  ASSUME NEW a \in Int, NEW b \in Int, NEW c \in Int, NEW d \in Int, NEW n \in Int
  PROVE  WC!Moved([left |-> a, top |-> b, width |-> c, height |-> d], n) =
         [left |-> a + n, top |-> b + n, width |-> c, height |-> d]
  <1>1. WC!Moved([left |-> a, top |-> b, width |-> c, height |-> d], n) =
          [[left |-> a, top |-> b, width |-> c, height |-> d] EXCEPT !.left = @ + n, !.top = @ + n]
    BY DEF WC!Moved
  <1> QED
    BY <1>1

LEMMA WCMapped ==
  ASSUME NEW r \in WCRect
  PROVE  /\ WC!Moved(r, wc_Origin) \in WCRect /\ WC!Moved(r, -wc_Origin) \in WCRect
         /\ WC!Moved(WC!Moved(r, wc_Origin), -wc_Origin) = r
  <1>1. /\ r.left \in Int /\ r.top \in Int /\ r.width \in Int /\ r.height \in Int
        /\ r = [left |-> r.left, top |-> r.top, width |-> r.width, height |-> r.height]
        /\ wc_Origin \in Int /\ -wc_Origin \in Int
    BY PlaceAssumption DEF WCRect
  <1>2. /\ WC!Moved(r, wc_Origin) = [left |-> r.left + wc_Origin, top |-> r.top + wc_Origin,
                                     width |-> r.width, height |-> r.height]
        /\ WC!Moved(r, -wc_Origin) = [left |-> r.left + (-wc_Origin), top |-> r.top + (-wc_Origin),
                                      width |-> r.width, height |-> r.height]
    <2> DEFINE s == [left |-> r.left, top |-> r.top, width |-> r.width, height |-> r.height]
    <2>1. /\ WC!Moved(s, wc_Origin) = [left |-> r.left + wc_Origin, top |-> r.top + wc_Origin,
                                       width |-> r.width, height |-> r.height]
          /\ WC!Moved(s, -wc_Origin) = [left |-> r.left + (-wc_Origin), top |-> r.top + (-wc_Origin),
                                        width |-> r.width, height |-> r.height]
      BY <1>1, WCMove
    <2> QED
      BY <1>1, <2>1, Zenon
  <1>3. /\ r.left + wc_Origin \in Int /\ r.top + wc_Origin \in Int
        /\ r.left + wc_Origin + (-wc_Origin) = r.left
        /\ r.top + wc_Origin + (-wc_Origin) = r.top
    BY <1>1
  <1>4. WC!Moved(WC!Moved(r, wc_Origin), -wc_Origin) = r
    BY <1>1, <1>2, <1>3, WCMove
  <1> QED
    BY <1>1, <1>2, <1>4 DEF WCRect

LEMMA WCBack ==
  ASSUME WCTypes
  PROVE  WC!GetWindowRect \in WCRect /\ WC!MapWindowPoints(WC!GetWindowRect) = wc_place
  BY WCMapped DEF WCTypes, WC!GetWindowRect, WC!MapWindowPoints

LEMMA WCStart == WC!Init => WCInv
  <1> SUFFICES ASSUME WC!Init PROVE WCInv
    OBVIOUS
  <1>1. wc_place \in WCRect
    BY PlaceAssumption DEF WC!Init, WCRect
  <1> QED
    BY <1>1 DEF WC!Init, WCInv, WCTypes, WCStyle

LEMMA WCStep == WCInv /\ [WC!Next]_(WC!vars) => WCInv'
  <1> SUFFICES ASSUME WCInv, [WC!Next]_(WC!vars)
               PROVE  WCInv'
    OBVIOUS
  <1>0. WCTypes /\ WCStyle
    BY DEF WCInv
  <1>b. WC!GetWindowRect \in WCRect /\ WC!MapWindowPoints(WC!GetWindowRect) = wc_place
    BY <1>0, WCBack
  <1>1. ASSUME NEW dimension \in {"left", "top", "width", "height"}, WC!put(dimension)
        PROVE  WCInv'
    <2>1. PICK new \in wc_Coordinates :
            /\ wc_place' = [wc_place EXCEPT ![dimension] = new]
            /\ wc_asked' = [wc_asked EXCEPT !.place[dimension] = new]
      BY <1>1, <1>b DEF WC!put
    <2>2. UNCHANGED <<wc_parent, wc_visible, wc_step, wc_WindowRect>> /\ wc_step = "none"
      BY <1>1 DEF WC!put, WC!Idle
    <2>3. wc_place = wc_asked.place /\ wc_visible = wc_asked.shown
      BY <1>0, <2>2 DEF WCStyle
    <2>4. wc_asked' = [place |-> [wc_asked.place EXCEPT ![dimension] = new], shown |-> wc_asked.shown]
      BY <1>0, <2>1 DEF WCTypes
    <2>5. wc_place' \in WCRect
      BY <1>0, <2>1, PlaceAssumption DEF WCTypes, WCRect
    <2> QED
      BY <1>0, <2>1, <2>2, <2>3, <2>4, <2>5 DEF WCInv, WCTypes, WCStyle
  <1>2. CASE WC!SetWindowPosition
    <2>1. wc_place' \in WCRect
      BY <1>2, PlaceAssumption DEF WC!SetWindowPosition, WC!Places, WCRect
    <2> QED
      BY <1>0, <1>2, <2>1 DEF WC!SetWindowPosition, WC!Idle, WCInv, WCTypes, WCStyle
  <1>3. CASE WC!put_Owner
    BY <1>0, <1>3 DEF WC!put_Owner, WC!Idle, WCInv, WCTypes, WCStyle
  <1>4. CASE WC!put_Visible
    BY <1>0, <1>4 DEF WC!put_Visible, WC!Idle, WCInv, WCTypes, WCStyle
  <1>5. ASSUME WC!Idle, WC!DoSetWindowStyle
        PROVE  WCInv'
    <2>1. wc_step = "none" /\ wc_place = wc_asked.place /\ wc_visible = wc_asked.shown
      BY <1>0, <1>5 DEF WC!Idle, WCStyle
    <2>2. /\ wc_WindowRect' \in WCRect
          /\ (WC!MapWindowPoints(wc_WindowRect))' = wc_asked.place
      BY <1>5, <1>b, <2>1 DEF WC!DoSetWindowStyle, WC!MapWindowPoints
    <2> QED
      BY <1>0, <1>5, <2>1, <2>2 DEF WC!DoSetWindowStyle, WCInv, WCTypes, WCStyle
  <1>6. CASE WC!put_WindowStyle
    BY <1>5, <1>6 DEF WC!put_WindowStyle
  <1>7. CASE WC!put_WindowStyleEx
    <2>1. CASE UNCHANGED <<wc_place, wc_parent, wc_owner, wc_visible, wc_step,
                           wc_WindowRect, wc_asked>>
      BY <1>0, <2>1 DEF WCInv, WCTypes, WCStyle, WC!MapWindowPoints
    <2> QED
      BY <1>5, <1>7, <2>1 DEF WC!put_WindowStyleEx
  <1>8. CASE WC!MoveAway
    <2>1. wc_place' = [left |-> wc_Screen, top |-> wc_Screen, width |-> wc_place.width,
                       height |-> wc_place.height]
      BY <1>0, <1>8 DEF WC!MoveAway, WCTypes, WCRect
    <2>2. wc_place' \in WCRect /\ wc_place'.left = wc_Screen /\ wc_place'.top = wc_Screen
      BY <1>0, <2>1, PlaceAssumption DEF WCTypes, WCRect
    <2>3. (WC!MapWindowPoints(wc_WindowRect))' = WC!MapWindowPoints(wc_WindowRect)
      BY <1>8 DEF WC!MoveAway, WC!MapWindowPoints
    <2> QED
      BY <1>0, <1>8, <2>2, <2>3 DEF WC!MoveAway, WCInv, WCTypes, WCStyle
  <1>9. CASE WC!Show
    <2>1. (WC!MapWindowPoints(wc_WindowRect))' = WC!MapWindowPoints(wc_WindowRect)
      BY <1>9 DEF WC!Show, WC!MapWindowPoints
    <2> QED
      BY <1>0, <1>9, <2>1 DEF WC!Show, WCInv, WCTypes, WCStyle
  <1>10. CASE WC!MoveBack
    <2>1. wc_place' \in WCRect /\ wc_place' = wc_asked.place
      BY <1>0, <1>10 DEF WC!MoveBack, WCTypes, WCStyle
    <2> QED
      BY <1>0, <1>10, <2>1 DEF WC!MoveBack, WCInv, WCTypes, WCStyle
  <1>11. CASE UNCHANGED WC!vars
    BY <1>0, <1>11 DEF WC!vars, WCInv, WCTypes, WCStyle, WC!MapWindowPoints
  <1> QED
    BY <1>1, <1>2, <1>3, <1>4, <1>6, <1>7, <1>8, <1>9, <1>10, <1>11 DEF WC!Next

LEMMA WCSafe == WCInv => WC!WindowAsAsked
  <1> SUFFICES ASSUME WCInv PROVE WC!WindowAsAsked
    OBVIOUS
  <1>1. WC!Idle => wc_place = wc_asked.place /\ wc_visible = wc_asked.shown
    BY DEF WCInv, WCStyle, WC!Idle
  <1>2. wc_visible /\ ~wc_asked.shown => wc_place.left = wc_Screen /\ wc_place.top = wc_Screen
    BY DEF WCInv, WCStyle
  <1> QED
    BY <1>1, <1>2, PlaceAssumption DEF WC!WindowAsAsked

-----------------------------------------------------------------------------
(***************************************************************************)
(* Rectangles.  Source lies in the picture and neither has an edge before the*)
(* other (VCInv), though a width is a LONG and what is asked for wraps: the*)
(* lemmas on Wrap say what a comparison of wrapped numbers still tells.    *)
(***************************************************************************)

LEMMA VCAssumption ==
  /\ vc_Half \in Nat \ {0} /\ vc_Extents \subseteq VC!Long \X VC!Long
  /\ vc_Images \subseteq (1 .. vc_Half - 1) \X (1 .. vc_Half - 1)
  BY RectangleAssumption DEF VC!Long

VCSize == vc_size \in vc_Images

VCLongs ==
  /\ vc_Source.left \in VC!Long /\ vc_Source.top \in VC!Long
  /\ vc_Source.right \in VC!Long /\ vc_Source.bottom \in VC!Long
  /\ vc_Target.left \in VC!Long /\ vc_Target.top \in VC!Long
  /\ vc_Target.right \in VC!Long /\ vc_Target.bottom \in VC!Long

VCSource ==
  /\ 0 <= vc_Source.left /\ vc_Source.left < vc_Source.right
  /\ vc_Source.right <= vc_size[1]
  /\ 0 <= vc_Source.top /\ vc_Source.top < vc_Source.bottom
  /\ vc_Source.bottom <= vc_size[2]

VCTarget ==
  /\ vc_Target.right - vc_Target.left \in VC!Long \ {0} /\ vc_Target.left < vc_Target.right
  /\ vc_Target.bottom - vc_Target.top \in VC!Long \ {0} /\ vc_Target.top < vc_Target.bottom

VCInv == VCSize /\ VCLongs /\ VCSource /\ VCTarget

(* What a LONG makes of a number, and of the length of an interval.         *)
LEMMA VCWrap ==
  /\ \A n \in Int : VC!Wrap(n) \in VC!Long
  /\ \A n \in VC!Long : VC!Wrap(n) = n
  /\ \A a, b \in VC!Long : a <= b /\ VC!Wrap(b - a) > 0 => b - a \in VC!Long \ {0} /\ a < b
  <1>1. ASSUME NEW n \in Int PROVE VC!Wrap(n) \in VC!Long
    <2>1. n + vc_Half \in Int /\ 2 * vc_Half \in Nat \ {0}
      BY VCAssumption
    <2>2. (n + vc_Half) % (2 * vc_Half) \in 0 .. 2 * vc_Half - 1
      BY <2>1
    <2> QED
      BY <2>2, VCAssumption DEF VC!Wrap, VC!Long
  <1>2. ASSUME NEW n \in VC!Long PROVE VC!Wrap(n) = n
    <2>1. n + vc_Half \in 0 .. 2 * vc_Half - 1 /\ 2 * vc_Half \in Nat \ {0}
      BY VCAssumption DEF VC!Long
    <2>2. (n + vc_Half) % (2 * vc_Half) = n + vc_Half
      BY <2>1
    <2> QED
      BY <2>2, VCAssumption DEF VC!Wrap, VC!Long
  <1>3. ASSUME NEW a \in VC!Long, NEW b \in VC!Long, a <= b, VC!Wrap(b - a) > 0
        PROVE  b - a \in VC!Long \ {0} /\ a < b
    <2>1. b - a \in 0 .. 2 * vc_Half - 1
      BY <1>3, VCAssumption DEF VC!Long
    <2>2. CASE b - a \in VC!Long
      BY <1>2, <1>3, <2>2, VCAssumption DEF VC!Long
    <2>3. CASE b - a >= vc_Half
      <3> DEFINE M == 2 * vc_Half
                 x == b - a + vc_Half
      <3>1. M \in Nat \ {0} /\ x \in M .. 2 * M - 1
        BY <2>1, <2>3, VCAssumption DEF VC!Long
      <3> HIDE DEF M, x
      <3>2. x % M = x - M
        BY <3>1
      <3> QED
        BY <1>3, <2>1, <3>2, VCAssumption DEF VC!Wrap, M, x, VC!Long
    <2> QED
      BY <2>1, <2>2, <2>3, VCAssumption DEF VC!Long
  <1> QED
    BY <1>1, <1>2, <1>3

(* The rectangle of a whole video.                                         *)
LEMMA VCAll ==
  ASSUME NEW s \in vc_Images
  PROVE  /\ VC!All(s) = [left |-> 0, top |-> 0, right |-> s[1], bottom |-> s[2]]
         /\ s[1] \in 1 .. vc_Half - 1 /\ s[2] \in 1 .. vc_Half - 1
  <1>1. s[1] \in 1 .. vc_Half - 1 /\ s[2] \in 1 .. vc_Half - 1
    BY VCAssumption
  <1>2. s[1] \in VC!Long /\ s[2] \in VC!Long
    BY <1>1, VCAssumption DEF VC!Long
  <1> QED
    BY <1>1, <1>2, VCWrap DEF VC!All, VC!Rect

LEMMA VCWhole ==
  ASSUME vc_size' \in vc_Images, vc_Source' = VC!All(vc_size'), vc_Target' = VC!All(vc_size')
  PROVE  VCInv'
  <1>1. /\ VC!All(vc_size') = [left |-> 0, top |-> 0, right |-> vc_size'[1], bottom |-> vc_size'[2]]
        /\ vc_size'[1] \in 1 .. vc_Half - 1 /\ vc_size'[2] \in 1 .. vc_Half - 1
    BY VCAll
  <1> QED
    BY <1>1, VCAssumption DEF VCInv, VCSize, VCLongs, VCSource, VCTarget, VC!Long

(* The invariant in terms of one rectangle.                                *)
LEMMA VCSetsSource ==
  ASSUME VCInv, NEW l \in VC!Long, NEW t \in VC!Long, NEW x \in Int, NEW y \in Int,
         VC!SetSourceRect(VC!Rect(l, t, x, y))
  PROVE  VCInv'
  <1> DEFINE r == VC!Rect(l, t, x, y)
  <1>1. r.left = l /\ r.top = t /\ r.right \in VC!Long /\ r.bottom \in VC!Long
    BY VCWrap DEF VC!Rect
  <1> HIDE DEF r
  <1>2. UNCHANGED <<vc_size, vc_Target>>
        /\ vc_Source' = IF VC!CheckSourceRect(r) THEN r ELSE vc_Source
    BY DEF VC!SetSourceRect, r
  <1>3. CASE VC!CheckSourceRect(r)
    BY <1>1, <1>2, <1>3
       DEF VC!CheckSourceRect, VCInv, VCSize, VCLongs, VCSource, VCTarget
  <1>4. CASE ~VC!CheckSourceRect(r)
    BY <1>2, <1>4 DEF VCInv, VCSize, VCLongs, VCSource, VCTarget
  <1> QED
    BY <1>3, <1>4

LEMMA VCSetsTarget ==
  ASSUME VCInv, NEW l \in VC!Long, NEW t \in VC!Long, NEW x \in Int, NEW y \in Int,
         VC!SetTargetRect(VC!Rect(l, t, x, y))
  PROVE  VCInv'
  <1> DEFINE r == VC!Rect(l, t, x, y)
  <1>1. r.left \in VC!Long /\ r.top \in VC!Long /\ r.right \in VC!Long
        /\ r.bottom \in VC!Long
    BY VCWrap DEF VC!Rect
  <1> HIDE DEF r
  <1>2. UNCHANGED <<vc_size, vc_Source>>
        /\ vc_Target' = IF VC!CheckTargetRect(r) THEN r ELSE vc_Target
    BY DEF VC!SetTargetRect, r
  <1>3. CASE VC!CheckTargetRect(r)
    <2>1. /\ r.right - r.left \in VC!Long \ {0} /\ r.left < r.right
          /\ r.bottom - r.top \in VC!Long \ {0} /\ r.top < r.bottom
      BY <1>1, <1>3, VCWrap DEF VC!CheckTargetRect, VC!WIDTH, VC!HEIGHT
    <2> QED
      BY <1>1, <1>2, <1>3, <2>1 DEF VCInv, VCSize, VCLongs, VCSource, VCTarget
  <1>4. CASE ~VC!CheckTargetRect(r)
    BY <1>2, <1>4 DEF VCInv, VCSize, VCLongs, VCSource, VCTarget
  <1> QED
    BY <1>3, <1>4

LEMMA VCStart == VC!Init => VCInv
  <1> SUFFICES ASSUME VC!Init PROVE VCInv
    OBVIOUS
  <1>1. /\ vc_size \in vc_Images /\ vc_Source = VC!All(vc_size)
        /\ vc_Target = VC!All(vc_size)
        /\ VC!All(vc_size) = [left |-> 0, top |-> 0, right |-> vc_size[1], bottom |-> vc_size[2]]
        /\ vc_size[1] \in 1 .. vc_Half - 1 /\ vc_size[2] \in 1 .. vc_Half - 1
    BY VCAll DEF VC!Init
  <1> QED
    BY <1>1, VCAssumption DEF VCInv, VCSize, VCLongs, VCSource, VCTarget, VC!Long

LEMMA VCStep == VCInv /\ [VC!Next]_(VC!vars) => VCInv'
  <1> SUFFICES ASSUME VCInv, [VC!Next]_(VC!vars)
               PROVE  VCInv'
    OBVIOUS
  <1>0. /\ VCSize /\ VCLongs
        /\ \A n \in VC!Long : n \in Int
        /\ \A e \in vc_Extents : e[1] \in VC!Long /\ e[2] \in VC!Long
    <2>1. vc_Extents \subseteq VC!Long \X VC!Long
      BY VCAssumption
    <2>2. ASSUME NEW e \in vc_Extents PROVE e[1] \in VC!Long /\ e[2] \in VC!Long
      BY <2>1
    <2> QED
      BY <2>2 DEF VCInv, VC!Long
  <1>1. CASE VC!put_Source
    <2>0. /\ vc_Source.left \in VC!Long /\ vc_Source.top \in VC!Long
          /\ vc_Source.right \in Int /\ vc_Source.bottom \in Int
          /\ VC!WIDTH(vc_Source) \in Int /\ VC!HEIGHT(vc_Source) \in Int
      BY <1>0, VCWrap DEF VCLongs, VC!WIDTH, VC!HEIGHT
    <2>1. PICK new \in VC!Long : \/ VC!SetSourceRect(VC!WithLeft(vc_Source, new))
                                 \/ VC!SetSourceRect(VC!WithTop(vc_Source, new))
                                 \/ VC!SetSourceRect(VC!WithWidth(vc_Source, new))
                                 \/ VC!SetSourceRect(VC!WithHeight(vc_Source, new))
      BY <1>1 DEF VC!put_Source
    <2>2. /\ new \in Int /\ new + VC!WIDTH(vc_Source) \in Int
          /\ new + VC!HEIGHT(vc_Source) \in Int
          /\ vc_Source.left + new \in Int /\ vc_Source.top + new \in Int
      BY <1>0, <2>0
    <2> QED
      BY <2>0, <2>1, <2>2, VCSetsSource
         DEF VC!WithLeft, VC!WithTop, VC!WithWidth, VC!WithHeight
  <1>2. CASE VC!put_Destination
    <2>0. /\ vc_Target.left \in VC!Long /\ vc_Target.top \in VC!Long
          /\ vc_Target.right \in Int /\ vc_Target.bottom \in Int
          /\ VC!WIDTH(vc_Target) \in Int /\ VC!HEIGHT(vc_Target) \in Int
      BY <1>0, VCWrap DEF VCLongs, VC!WIDTH, VC!HEIGHT
    <2>1. PICK new \in VC!Long : \/ VC!SetTargetRect(VC!WithLeft(vc_Target, new))
                                 \/ VC!SetTargetRect(VC!WithTop(vc_Target, new))
                                 \/ VC!SetTargetRect(VC!WithWidth(vc_Target, new))
                                 \/ VC!SetTargetRect(VC!WithHeight(vc_Target, new))
      BY <1>2 DEF VC!put_Destination
    <2>2. /\ new \in Int /\ new + VC!WIDTH(vc_Target) \in Int
          /\ new + VC!HEIGHT(vc_Target) \in Int
          /\ vc_Target.left + new \in Int /\ vc_Target.top + new \in Int
      BY <1>0, <2>0
    <2> QED
      BY <2>0, <2>1, <2>2, VCSetsTarget
         DEF VC!WithLeft, VC!WithTop, VC!WithWidth, VC!WithHeight
  <1>3. CASE VC!SetSourcePosition
    <2>1. PICK left \in VC!Long, width \in VC!Long, e \in vc_Extents :
            VC!SetSourceRect(VC!Rect(left, e[1], left + width, e[1] + e[2]))
      BY <1>3 DEF VC!SetSourcePosition
    <2>2. e[1] \in VC!Long /\ left + width \in Int /\ e[1] + e[2] \in Int
      BY <1>0
    <2> QED
      BY <2>1, <2>2, VCSetsSource
  <1>4. CASE VC!SetDestinationPosition
    <2>1. PICK left \in VC!Long, width \in VC!Long, e \in vc_Extents :
            VC!SetTargetRect(VC!Rect(left, e[1], left + width, e[1] + e[2]))
      BY <1>4 DEF VC!SetDestinationPosition
    <2>2. e[1] \in VC!Long /\ left + width \in Int /\ e[1] + e[2] \in Int
      BY <1>0
    <2> QED
      BY <2>1, <2>2, VCSetsTarget
  <1>5. vc_size \in vc_Images
        /\ VC!All(vc_size) = [left |-> 0, top |-> 0, right |-> vc_size[1], bottom |-> vc_size[2]]
        /\ vc_size[1] \in 1 .. vc_Half - 1 /\ vc_size[2] \in 1 .. vc_Half - 1
    BY <1>0, VCAll DEF VCSize
  <1>6. CASE VC!SetDefaultSourcePosition
    BY <1>5, <1>6, VCAssumption
       DEF VC!SetDefaultSourcePosition, VCInv, VCSize, VCLongs, VCSource,
                                    VCTarget, VC!Long
  <1>7. CASE VC!SetDefaultDestinationPosition
    BY <1>5, <1>7, VCAssumption
       DEF VC!SetDefaultDestinationPosition, VCInv, VCSize, VCLongs,
                                    VCSource, VCTarget, VC!Long
  <1>8. CASE VC!ChangeFormat
    BY <1>8, VCWhole DEF VC!ChangeFormat
  <1>9. CASE UNCHANGED <<vc_size, vc_Source, vc_Target>>
    BY <1>9 DEF VCInv, VCSize, VCLongs, VCSource, VCTarget
  <1> QED
    BY <1>1, <1>2, <1>3, <1>4, <1>6, <1>7, <1>8, <1>9
       DEF VC!Next, VC!ChangeState, VC!vars

(* Line by line, W pixels of each of H lines: what the offsets stand for.  *)
LEMMA VCLines ==
  ASSUME NEW W \in Nat \ {0}, NEW H \in Nat \ {0}
  PROVE  /\ W * H \in Nat
         /\ \A i \in 0 .. W * H - 1 : i \div W \in 0 .. H - 1 /\ i % W \in 0 .. W - 1
         /\ \A q \in 0 .. H - 1, r \in 0 .. W - 1 :
              /\ q * W + r \in 0 .. W * H - 1
              /\ (q * W + r) \div W = q /\ (q * W + r) % W = r
  <1>1. W * H \in Nat
    OBVIOUS
  <1>2. ASSUME NEW i \in 0 .. W * H - 1
        PROVE  i \div W \in 0 .. H - 1 /\ i % W \in 0 .. W - 1
    <2>1. i \div W \in 0 .. H - 1
      OBVIOUS
    <2>2. i % W \in 0 .. W - 1
      BY <1>1
    <2> QED
      BY <2>1, <2>2
  <1>3. ASSUME NEW q \in 0 .. H - 1, NEW r \in 0 .. W - 1
        PROVE  /\ q * W + r \in 0 .. W * H - 1
               /\ (q * W + r) \div W = q /\ (q * W + r) % W = r
    <2>1. (q * W + r) \div W = q
      OBVIOUS
    <2>2. (q * W + r) % W = r
      OBVIOUS
    <2>3. q * W \in Nat /\ q * W <= (H - 1) * W /\ (H - 1) * W = W * H - W
      OBVIOUS
    <2> QED
      BY <1>1, <2>1, <2>2, <2>3
  <1> QED
    BY <1>1, <1>2, <1>3

LEMMA VCLine ==
  ASSUME NEW l \in Int, NEW b \in Int, NEW n \in Int, NEW m \in Int, NEW q \in Int, NEW r \in Int
  PROVE  (m - b) * n + l + q * n + r = (m - 1 - (b - 1 - q)) * n + (l + r)
  <1>1. m - 1 - (b - 1 - q) = (m - b) + q
    OBVIOUS
  <1>2. ((m - b) + q) * n = (m - b) * n + q * n
    OBVIOUS
  <1>3. (m - b) * n \in Int /\ q * n \in Int
    OBVIOUS
  <1> QED
    BY <1>1, <1>2, <1>3

(* GetCurrentImage copies the pixels of the source rectangle.              *)
LEMMA VCCopies ==
  ASSUME VCInv
  PROVE  {VC!CopyImage[i] : i \in DOMAIN VC!CopyImage} =
         {VC!Offset(p[1], p[2]) : p \in (vc_Source.left .. vc_Source.right - 1) \X
                                        (vc_Source.top .. vc_Source.bottom - 1)}
  <1> DEFINE l == vc_Source.left
             t == vc_Source.top
             W == vc_Source.right - vc_Source.left
             H == vc_Source.bottom - vc_Source.top
             n == vc_size[1]
             m == vc_size[2]
             F(i) == (m - (t + H)) * n + l + (i \div W) * n + (i % W)
  <1>1. /\ l \in Int /\ t \in Int /\ n \in Int /\ m \in Int
        /\ W \in Nat \ {0} /\ H \in Nat \ {0} /\ W \in VC!Long /\ H \in VC!Long
        /\ vc_Source.right = l + W /\ vc_Source.bottom = t + H
    BY VCAssumption, VCAll DEF VCInv, VCSize, VCLongs, VCSource, VC!Long
  <1>2. VC!WIDTH(vc_Source) = W /\ VC!HEIGHT(vc_Source) = H
    BY <1>1, VCWrap DEF VC!WIDTH, VC!HEIGHT
  <1>r. (vc_Source.left .. vc_Source.right - 1) \X (vc_Source.top .. vc_Source.bottom - 1) =
          (l .. l + W - 1) \X (t .. t + H - 1)
    <2>1. vc_Source.right - 1 = l + W - 1 /\ vc_Source.bottom - 1 = t + H - 1
      BY <1>1
    <2> QED
      BY <2>1, Zenon
  <1>3. VC!CopyImage = [i \in 0 .. W * H - 1 |-> F(i)]
    BY <1>2 DEF VC!CopyImage, VC!GetImageSize
  <1>4. \A x, y : VC!Offset(x, y) = (m - 1 - y) * n + x
    BY DEF VC!Offset
  <1>5. {VC!CopyImage[i] : i \in DOMAIN VC!CopyImage} = {F(i) : i \in 0 .. W * H - 1}
    BY <1>3
  <1> HIDE DEF l, t, W, H, n, m, F
  <1>6. ASSUME NEW i \in 0 .. W * H - 1
        PROVE  \E p \in (l .. l + W - 1) \X (t .. t + H - 1) : F(i) = VC!Offset(p[1], p[2])
    <2>1. i \div W \in 0 .. H - 1 /\ i % W \in 0 .. W - 1
      BY <1>1, VCLines
    <2> DEFINE q == i \div W
               r == i % W
               x == l + r
               y == t + H - 1 - q
    <2>2. x \in l .. l + W - 1 /\ y \in t .. t + H - 1
      BY <1>1, <2>1
    <2>3. t + H \in Int /\ q \in Int /\ r \in Int
      BY <1>1, <2>1
    <2>6. F(i) = (m - (t + H)) * n + l + q * n + r
      BY DEF F
    <2> HIDE DEF q, r
    <2>4. F(i) = (m - 1 - y) * n + x
      BY <1>1, <2>3, <2>6, VCLine
    <2>5. F(i) = VC!Offset(<<x, y>>[1], <<x, y>>[2])
      BY <1>4, <2>4
    <2> QED
      BY <2>2, <2>5
  <1>7. ASSUME NEW x \in l .. l + W - 1, NEW y \in t .. t + H - 1
        PROVE  \E i \in 0 .. W * H - 1 : F(i) = VC!Offset(x, y)
    <2> DEFINE q == t + H - 1 - y
               r == x - l
    <2>1. q \in 0 .. H - 1 /\ r \in 0 .. W - 1 /\ y = t + H - 1 - q /\ x = l + r
      BY <1>1
    <2> HIDE DEF q, r
    <2>2. /\ q * W + r \in 0 .. W * H - 1
          /\ (q * W + r) \div W = q /\ (q * W + r) % W = r
      BY <1>1, <2>1, VCLines
    <2>3. F(q * W + r) = (m - (t + H)) * n + l + q * n + r
      BY <2>2 DEF F
    <2>4. t + H \in Int /\ q \in Int /\ r \in Int
      BY <1>1, <2>1
    <2>5. F(q * W + r) = (m - 1 - (t + H - 1 - q)) * n + (l + r)
      BY <1>1, <2>3, <2>4, VCLine
    <2>6. F(q * W + r) = VC!Offset(x, y)
      BY <1>4, <2>1, <2>5
    <2> QED
      BY <2>2, <2>6
  <1>8. {F(i) : i \in 0 .. W * H - 1} =
        {VC!Offset(p[1], p[2]) : p \in (l .. l + W - 1) \X (t .. t + H - 1)}
    BY <1>6, <1>7
  <1> QED
    BY <1>r, <1>5, <1>8

LEMMA VCSafe == VCInv => VC!RectanglesSound
  <1> SUFFICES ASSUME VCInv PROVE VC!RectanglesSound
    OBVIOUS
  <1>1. VCSource /\ VCTarget
    BY DEF VCInv
  <1>2. vc_State = "Paused" =>
          {VC!GetCurrentImage[i] : i \in DOMAIN VC!GetCurrentImage} =
          {VC!Offset(p[1], p[2]) : p \in (vc_Source.left .. vc_Source.right - 1) \X
                                         (vc_Source.top .. vc_Source.bottom - 1)}
    BY VCCopies DEF VC!GetCurrentImage
  <1> QED
    BY <1>1, <1>2 DEF VCSource, VCTarget, VC!RectanglesSound

-----------------------------------------------------------------------------
(***************************************************************************)
(* Quality of a renderer.  VQSpread: a sum of n numbers and the sum of their*)
(* squares, T * T <= n * S, of which the report computes a deviation; VQLate: a*)
(* frame was dropped only if the last one drawn is less than a second old. *)
(***************************************************************************)

VQFields ==
  {"LastDraw", "RenderAvg", "RenderLast", "FrameAvg", "trDuration", "WaitAvg", "Normal",
   "Earliness", "FramesDrawn", "FramesDropped", "TotAcc", "SumSqAcc", "SumFrameTime",
   "SumSqFrameTime", "Late", "Frame"}
VQMembers == [VQFields -> Int]

\* k numbers whose sum is T, and S the sum of their squares.
VQSpread(k, S, T) == k \in Nat /\ S \in Nat /\ T \in Int /\ T * T <= k * S
VQBeyond(n, k) == IF n > k THEN n - k ELSE 0

VQSums(m) ==
  /\ m.FramesDrawn \in Nat
  /\ VQSpread(VQBeyond(m.FramesDrawn, 2), m.SumSqAcc, m.TotAcc)
  /\ VQSpread(VQBeyond(m.FramesDrawn, 3), m.SumSqFrameTime, m.SumFrameTime)

\* What a renderer asks of upstream, in thousandths.
VQShares == 500 .. 2000

VQTypes ==
  /\ vq_now \in Int /\ vq_next \in Int /\ vq_shownAt \in Int /\ vq_proportion \in VQShares
  /\ vq_dropped \in BOOLEAN
  /\ vq_q \in VQMembers
  /\ vq_throttle \in Int

VQStart1(n) == IF n >= 80 THEN n - 80 ELSE n

\* A frame drawn, or waiting to be, is the last one.
VQShown ==
  IF vq_waiting = <<>> THEN vq_q.LastDraw <= vq_shownAt
  ELSE vq_waiting[1] \in Int /\ vq_q.LastDraw = vq_waiting[1]

\* The first frame comes to a renderer that does not know yet how slow it is.
VQFirst ==
  vq_q.FramesDrawn > 0 \/ (~vq_dropped /\ (vq_waiting = <<>> => vq_q.RenderAvg = 0 /\ vq_q.trDuration = 0))

VQInv == VQTypes /\ VQSums(vq_q) /\ VQShown /\ VQFirst
/\ (vq_dropped => vq_now - vq_shownAt <= VQ!UNITS)

-----------------------------------------------------------------------------
LEMMA VQAtMost ==
  ASSUME NEW a \in Int, NEW n \in Nat \ {0}, NEW s \in Int, a <= n * s
  PROVE  a \div n <= s /\ a \div n \in Int
  OBVIOUS

LEMMA VQQuotient ==
  ASSUME NEW a \in Nat, NEW b \in Nat \ {0}
  PROVE  a \div b \in Nat
  OBVIOUS

LEMMA VQOnce ==
  ASSUME NEW a \in Nat, NEW b \in Nat \ {0}, b <= a
  PROVE  a \div b \in Nat \ {0}
  OBVIOUS

LEMMA VQSign ==
  ASSUME NEW k \in Nat \ {0}, NEW p \in Int, k * p >= 0
  PROVE  p >= 0
  OBVIOUS

(* Cauchy and Schwarz, one number at a time.                               *)
LEMMA VQSpreads ==
  ASSUME NEW k, NEW S, NEW T, VQSpread(k, S, T), NEW x \in Int
  PROVE  VQSpread(k + 1, S + x * x, T + x)
  <1>1. k \in Nat /\ S \in Nat /\ T \in Int /\ T * T <= k * S
    BY DEF VQSpread
  <1>2. x * x \in Nat /\ k + 1 \in Nat /\ T + x \in Int
    BY <1>1
  <1>3. (T + x) * (T + x) <= (k + 1) * (S + x * x)
    <2>1. CASE k = 0
      <3>1. T * T <= 0
        BY <1>1, <2>1
      <3>2. T = 0
        BY <1>1, <3>1
      <3> QED
        BY <1>1, <1>2, <2>1, <3>2
    <2>2. CASE k > 0
      <3> DEFINE d == k * x - T
      <3>1. d \in Int /\ d * d >= 0
        BY <1>1
      <3> DEFINE P == k * (x * x) + S - 2 * (x * T)
      <3>2. P \in Int /\ k * P = d * d + (k * S - T * T)
        BY <1>1
      <3>3. k * S - T * T >= 0 /\ k * S - T * T \in Int
        BY <1>1
      <3>4. k * P >= 0
        <4> DEFINE e == d * d
                   f == k * S - T * T
        <4>1. e >= 0 /\ e \in Int /\ f >= 0 /\ f \in Int /\ k * P = e + f
          BY <3>1, <3>2, <3>3
        <4> HIDE DEF e, f, P
        <4> QED
          BY <4>1
      <3>5. P >= 0
        <4> HIDE DEF P
        <4> QED
          BY <1>1, <2>2, <3>2, <3>4, VQSign
      <3>6. /\ (T + x) * (T + x) = T * T + 2 * (x * T) + x * x
            /\ (k + 1) * (S + x * x) = k * S + k * (x * x) + S + x * x
        BY <1>1
      <3>7. 2 * (x * T) <= k * (x * x) + S
        <4>1. 2 * (x * T) \in Int /\ k * (x * x) \in Int
          BY <1>1
        <4> QED
          BY <1>1, <3>5, <4>1
      <3> DEFINE a == T * T
                 b == 2 * (x * T)
                 c == x * x
                 e == k * S
                 f == k * (x * x)
      <3>8. a \in Int /\ b \in Int /\ c \in Int /\ e \in Int /\ f \in Int
        BY <1>1
      <3>9. a <= e /\ b <= f + S /\ (T + x) * (T + x) = a + b + c
            /\ (k + 1) * (S + x * x) = e + f + S + c
        BY <1>1, <3>6, <3>7
      <3> HIDE DEF a, b, c, e, f
      <3> QED
        BY <1>1, <3>8, <3>9
    <2> QED
      BY <1>1, <2>1, <2>2
  <1> QED
    BY <1>1, <1>2, <1>3 DEF VQSpread

(* What is divided by no fewer than were added up is a variance.           *)
LEMMA VQVariance ==
  ASSUME NEW k, NEW S, NEW T, VQSpread(k, S, T), NEW n \in Int, n > 1 => n >= k
  PROVE  VQ!Variance(n, S, T) >= 0
  <1>1. k \in Nat /\ S \in Nat /\ T \in Int /\ T * T <= k * S
    BY DEF VQSpread
  <1>2. CASE n <= 1
    BY <1>2 DEF VQ!Variance
  <1>3. CASE n > 1
    <2>1. n \in Nat \ {0} /\ n >= k
      BY <1>3
    <2>2. k * S <= n * S
      BY <1>1, <2>1
    <2>3. T * T \in Int /\ T * T <= n * S
      <3>1. T * T \in Int /\ k * S \in Int /\ n * S \in Int
        BY <1>1, <2>1
      <3> QED
        BY <1>1, <2>2, <3>1
    <2> DEFINE a == T * T
    <2>4. a \div n <= S /\ a \div n \in Int
      <3>1. a \in Int /\ a <= n * S
        BY <2>3
      <3> HIDE DEF a
      <3> QED
        BY <1>1, <2>1, <3>1, VQAtMost
    <2>5. S - (a \div n) >= 0 /\ S - (a \div n) \in Int /\ n - 1 \in Nat \ {0}
      BY <1>1, <1>3, <2>4
    <2>6. (S - (a \div n)) \div (n - 1) >= 0
      <3> DEFINE b == S - (a \div n)
                 c == n - 1
      <3> HIDE DEF b, c
      <3> QED
        BY <2>5, VQQuotient DEF b, c
    <2> QED
      BY <1>3, <2>5, <2>6 DEF VQ!Variance, VQ!Quot
  <1> QED
    BY <1>2, <1>3

-----------------------------------------------------------------------------
LEMMA VQQuot ==
  ASSUME NEW a \in Int, NEW b \in Nat \ {0}
  PROVE  VQ!Quot(a, b) \in Int
  <1>1. CASE a < 0
    <2>1. -a \in Nat
      BY <1>1
    <2>2. (-a) \div b \in Nat
      BY <2>1, VQQuotient
    <2> QED
      BY <1>1, <2>2 DEF VQ!Quot
  <1>2. CASE ~(a < 0)
    <2>1. a \in Nat
      BY <1>2
    <2>2. a \div b \in Nat
      BY <2>1, VQQuotient
    <2> QED
      BY <1>2, <2>2 DEF VQ!Quot
  <1> QED
    BY <1>1, <1>2

LEMMA VQAverage ==
  ASSUME NEW a \in Int, NEW b \in Int
  PROVE  VQ!Average(a, b) \in Int
  <1>1. a + b * (4 - 1) \in Int /\ 4 \in Nat \ {0}
    OBVIOUS
  <1> QED
    BY <1>1, VQQuot DEF VQ!Average, VQ!AVGPERIOD

(* RecordFrameLateness.                                                    *)
LEMMA VQRecord ==
  ASSUME NEW m \in VQMembers, VQSums(m)
  PROVE  /\ VQ!Record(m) \in VQMembers /\ VQSums(VQ!Record(m))
         /\ VQ!Record(m).LastDraw = m.LastDraw /\ VQ!Record(m).FramesDrawn > 0
  <1> DEFINE late == VQ!Milliseconds(m.Late)
             frame == VQ!Milliseconds(m.Frame)
             tLate == IF late \in -1000 .. 1000 THEN late
                      ELSE IF m.FramesDrawn <= 1 THEN 0
                      ELSE IF late > 0 THEN 1000 ELSE -1000
             tFrame == IF frame \in 0 .. 1000 THEN frame ELSE 1000
             n == m.FramesDrawn
             A == IF n > 1 THEN m.TotAcc + tLate ELSE m.TotAcc
             B == IF n > 1 THEN m.SumSqAcc + tLate * tLate ELSE m.SumSqAcc
             C == IF n > 2 THEN m.SumFrameTime + tFrame ELSE m.SumFrameTime
             D == IF n > 2 THEN m.SumSqFrameTime + tFrame * tFrame ELSE m.SumSqFrameTime
             E == n + 1
  <1>1. tLate \in Int /\ tFrame \in Int
    <2>1. m.Late \in Int /\ m.Frame \in Int
      BY DEF VQMembers, VQFields
    <2>2. late \in Int /\ frame \in Int
      BY <2>1, VQQuot DEF VQ!Milliseconds
    <2> HIDE DEF late, frame
    <2> QED
      BY <2>2
  <1>2. VQ!Record(m) = [m EXCEPT !.TotAcc = A, !.SumSqAcc = B, !.SumFrameTime = C,
                                 !.SumSqFrameTime = D, !.FramesDrawn = E]
    BY DEF VQ!Record
  <1>3. /\ n \in Nat /\ VQSpread(VQBeyond(n, 2), m.SumSqAcc, m.TotAcc)
        /\ VQSpread(VQBeyond(n, 3), m.SumSqFrameTime, m.SumFrameTime)
    BY DEF VQSums
  <1> HIDE DEF tLate, tFrame, n
  <1>4. VQSpread(VQBeyond(E, 2), B, A)
    <2>1. CASE n > 1
      <3>1. VQBeyond(E, 2) = VQBeyond(n, 2) + 1
        BY <1>3, <2>1 DEF VQBeyond
      <3> QED
        BY <1>1, <1>3, <2>1, <3>1, VQSpreads
    <2>2. CASE ~(n > 1)
      <3>1. VQBeyond(E, 2) = VQBeyond(n, 2)
        BY <1>3, <2>2 DEF VQBeyond
      <3> QED
        BY <1>3, <2>2, <3>1
    <2> QED
      BY <2>1, <2>2
  <1>5. VQSpread(VQBeyond(E, 3), D, C)
    <2>1. CASE n > 2
      <3>1. VQBeyond(E, 3) = VQBeyond(n, 3) + 1
        BY <1>3, <2>1 DEF VQBeyond
      <3> QED
        BY <1>1, <1>3, <2>1, <3>1, VQSpreads
    <2>2. CASE ~(n > 2)
      <3>1. VQBeyond(E, 3) = VQBeyond(n, 3)
        BY <1>3, <2>2 DEF VQBeyond
      <3> QED
        BY <1>3, <2>2, <3>1
    <2> QED
      BY <2>1, <2>2
  <1>6. A \in Int /\ B \in Int /\ C \in Int /\ D \in Int /\ E \in Nat
    BY <1>3, <1>4, <1>5 DEF VQSpread
  <1> HIDE DEF A, B, C, D, E
  <1>7. /\ VQ!Record(m) \in VQMembers /\ VQ!Record(m).LastDraw = m.LastDraw
        /\ VQ!Record(m).FramesDrawn = E /\ VQ!Record(m).TotAcc = A
        /\ VQ!Record(m).SumSqAcc = B
        /\ VQ!Record(m).SumFrameTime = C /\ VQ!Record(m).SumSqFrameTime = D
    <2>1. E \in Int
      BY <1>6
    <2>2. [m EXCEPT !.TotAcc = A, !.SumSqAcc = B, !.SumFrameTime = C,
                    !.SumSqFrameTime = D, !.FramesDrawn = E] \in VQMembers
      BY <1>6, <2>1 DEF VQMembers, VQFields
    <2> QED
      BY <1>2, <2>2 DEF VQMembers, VQFields
  <1>8. E > 0
    BY <1>3 DEF E
  <1> QED
    BY <1>4, <1>5, <1>6, <1>7, <1>8 DEF VQSums

LEMMA VQRender ==
  ASSUME NEW m \in VQMembers, VQSums(m), NEW tr \in Nat
  PROVE  /\ VQ!Render(m, tr) \in VQMembers /\ VQSums(VQ!Render(m, tr))
         /\ VQ!Render(m, tr).LastDraw = m.LastDraw /\ VQ!Render(m, tr).FramesDrawn > 0
  <1> DEFINE r == VQ!Record(m)
  <1>1. r \in VQMembers /\ VQSums(r) /\ r.LastDraw = m.LastDraw /\ r.FramesDrawn > 0
    BY VQRecord
  <1> DEFINE a == IF tr < r.RenderAvg * 2 \/ tr < 2 * m.RenderLast THEN VQ!Average(tr, r.RenderAvg)
                                                                  ELSE r.RenderAvg
  <1>2. VQ!Render(m, tr) = [r EXCEPT !.RenderAvg = a, !.RenderLast = tr]
    BY DEF VQ!Render
  <1> HIDE DEF r
  <1>3. r.RenderAvg \in Int /\ tr \in Int
    BY <1>1 DEF VQMembers, VQFields
  <1>4. a \in Int
    BY <1>3, VQAverage
  <1> HIDE DEF a
  <1>5. /\ VQ!Render(m, tr) \in VQMembers /\ VQ!Render(m, tr).LastDraw = r.LastDraw
        /\ VQ!Render(m, tr).FramesDrawn = r.FramesDrawn
        /\ VQ!Render(m, tr).TotAcc = r.TotAcc
        /\ VQ!Render(m, tr).SumSqAcc = r.SumSqAcc
        /\ VQ!Render(m, tr).SumFrameTime = r.SumFrameTime
        /\ VQ!Render(m, tr).SumSqFrameTime = r.SumSqFrameTime
    <2>1. VQ!Render(m, tr) \in VQMembers
      BY <1>1, <1>2, <1>3, <1>4 DEF VQMembers
    <2> QED
      BY <1>1, <1>2, <2>1 DEF VQMembers, VQFields
  <1> QED
    BY <1>1, <1>5 DEF VQSums

VQSame(m, n) ==
  /\ m.FramesDrawn = n.FramesDrawn /\ m.TotAcc = n.TotAcc /\ m.SumSqAcc = n.SumSqAcc
  /\ m.SumFrameTime = n.SumFrameTime /\ m.SumSqFrameTime = n.SumSqFrameTime

LEMMA VQFresh == VQSums(VQ!ResetStreamingTimes)
  BY DEF VQSums, VQ!ResetStreamingTimes, VQSpread, VQBeyond

(* What a frame that arrives finds, by the three decisions.                 *)
LEMMA VQArrives ==
  ASSUME VQTypes, NEW advance \in Nat, NEW handling \in BOOLEAN, NEW discontinuity \in BOOLEAN,
         NEW f, f = VQ!Arrives(advance, handling, discontinuity)
  PROVE  /\ f.at = vq_now + advance /\ f.trLate = f.at - VQStart1(vq_next)
         /\ f.members \in VQMembers /\ VQSame(f.members, vq_q) /\ f.begins \in Int
         /\ f.decision \in {"draw", "wait", "drop"}
         /\ f.decision = "draw" => f.members.LastDraw = f.at
         /\ f.decision = "wait" => f.members.LastDraw = f.begins
         /\ f.decision = "drop" => /\ f.members.LastDraw = vq_q.LastDraw
                                  /\ f.at - vq_q.LastDraw <= VQ!UNITS
                                  /\ ~(vq_q.RenderAvg = 0 /\ vq_q.trDuration = 0)
  <1> DEFINE start == IF vq_next >= 80 THEN vq_next - 80 ELSE vq_next
             at == vq_now + advance
             trLate == at - start
             d == vq_q.trDuration \div 32
             changed == vq_Duration > vq_q.trDuration + d \/ vq_Duration < vq_q.trDuration - d
             FrameAvg == IF changed THEN vq_Duration ELSE vq_q.FrameAvg
             JustDropped == (handling /\ discontinuity) \/ vq_q.Normal = -1
             Earliness == IF trLate > 0 THEN 0
                          ELSE IF trLate >= vq_q.Earliness \/ JustDropped THEN trLate
                          ELSE vq_q.Earliness - VQ!Quot(vq_q.Earliness, 8)
             WaitAvg == VQ!Average(IF trLate < 0 THEN -trLate ELSE 0, vq_q.WaitAvg)
             trFrame == VQ!Lower(at - vq_q.LastDraw, VQ!UNITS)
             draws == \/ 3 * vq_q.RenderAvg <= FrameAvg
                      \/ IF handling THEN trLate <= vq_Duration * 4 ELSE trLate + trLate < vq_Duration
                      \/ vq_q.WaitAvg > 80
                      \/ at - vq_q.LastDraw > VQ!UNITS
             PlayASAP == /\ \/ JustDropped
                            \/ FrameAvg > vq_Duration + vq_Duration \div 16 /\ trLate > -(vq_Duration * 10)
                         /\ trLate >= -9000
             trDuration == IF changed THEN vq_Duration ELSE vq_q.trDuration
             begins == start + (IF Earliness < -vq_Duration THEN -vq_Duration ELSE Earliness)
             m == [vq_q EXCEPT !.trDuration = trDuration, !.FrameAvg = FrameAvg, !.Earliness = Earliness]
             dropping == VQ!Dropped(m, at, WaitAvg)
             asap == [m EXCEPT !.Normal = 0, !.WaitAvg = VQ!Quot(m.WaitAvg * (VQ!AVGPERIOD - 1), VQ!AVGPERIOD),
                               !.FrameAvg = VQ!Average(trFrame, m.FrameAvg),
                               !.Late = trLate, !.Frame = trFrame, !.LastDraw = at,
                               !.Earliness = VQ!Lower(m.Earliness, trLate)]
             lateNow == [m EXCEPT !.Normal = m.Normal + 1, !.FrameAvg = vq_Duration, !.WaitAvg = WaitAvg,
                                  !.Late = trLate, !.Frame = trFrame, !.LastDraw = at]
             waits == [m EXCEPT !.Normal = m.Normal + 1, !.FrameAvg = vq_Duration, !.WaitAvg = WaitAvg,
                                !.Late = begins - start, !.Frame = begins - vq_q.LastDraw,
                                !.LastDraw = begins]
  <1>1. /\ f.at = at /\ f.trLate = trLate /\ f.begins = begins
        /\ f.decision = IF ~draws THEN "drop"
                        ELSE IF PlayASAP \/ trLate >= 0 THEN "draw" ELSE "wait"
        /\ f.members = IF ~draws THEN dropping
                       ELSE IF PlayASAP THEN asap ELSE IF trLate >= 0 THEN lateNow ELSE waits
    BY DEF VQ!Arrives
  <1>2. /\ vq_q \in VQMembers
        /\ vq_q.LastDraw \in Int /\ vq_q.RenderAvg \in Int /\ vq_q.FrameAvg \in Int
        /\ vq_q.trDuration \in Int
        /\ vq_q.WaitAvg \in Int /\ vq_q.Normal \in Int /\ vq_q.Earliness \in Int
        /\ vq_q.FramesDropped \in Int /\ vq_now \in Int /\ vq_next \in Int
        /\ vq_Duration \in Nat
    BY QualityAssumption DEF VQTypes, VQMembers, VQFields
  <1>3. /\ start \in Int /\ at \in Int /\ trLate \in Int /\ start = VQStart1(vq_next)
    BY <1>2 DEF VQStart1
  <1>4. draws \/ (at - vq_q.LastDraw <= VQ!UNITS /\ ~(vq_q.RenderAvg = 0 /\ vq_q.trDuration = 0))
    <2>1. draws \/ at - vq_q.LastDraw <= VQ!UNITS
      <3> HIDE DEF at, trLate
      <3> QED
        BY <1>2, <1>3 DEF VQ!UNITS
    <2>2. ASSUME vq_q.RenderAvg = 0, vq_q.trDuration = 0
          PROVE  draws
      <3>1. FrameAvg = vq_Duration /\ vq_Duration > 0
        <4>1. vq_Duration > 0 /\ vq_q.trDuration + vq_q.trDuration \div 32 = 0
          BY <2>2, QualityAssumption
        <4> QED
          BY <4>1
      <3>2. 3 * vq_q.RenderAvg <= FrameAvg
        BY <1>2, <2>2, <3>1
      <3> QED
        BY <3>2
    <2> QED
      BY <2>1, <2>2
  <1> HIDE DEF start, at, trLate, draws, PlayASAP
  <1>6. trDuration \in Int /\ FrameAvg \in Int
    BY <1>2
  <1>7. Earliness \in Int
    <2>1. VQ!Quot(vq_q.Earliness, 8) \in Int
      BY <1>2, VQQuot
    <2> QED
      BY <1>2, <1>3, <2>1
  <1>8. WaitAvg \in Int /\ trFrame \in Int
    <2> DEFINE l == IF trLate < 0 THEN -trLate ELSE 0
    <2>1. l \in Int
      BY <1>3
    <2> HIDE DEF l
    <2>2. VQ!Average(l, vq_q.WaitAvg) \in Int
      BY <1>2, <2>1, VQAverage
    <2>3. trFrame \in Int
      BY <1>2, <1>3 DEF VQ!Lower, VQ!UNITS
    <2> QED
      BY <2>2, <2>3 DEF l
  <1> HIDE DEF changed, trDuration, FrameAvg, JustDropped, Earliness, WaitAvg, trFrame
  <1>9. begins \in Int
    BY <1>2, <1>3, <1>7
  <1>10. /\ m \in VQMembers /\ VQSame(m, vq_q) /\ m.LastDraw = vq_q.LastDraw
         /\ m.WaitAvg \in Int /\ m.FrameAvg \in Int /\ m.Normal \in Int
         /\ m.Earliness \in Int
         /\ m.FramesDropped \in Int
    BY <1>2, <1>6, <1>7 DEF VQMembers, VQFields, VQSame
  <1> HIDE DEF m
  <1>11. /\ dropping \in VQMembers /\ VQSame(dropping, m)
         /\ dropping.LastDraw = m.LastDraw /\ dropping.Normal = -1
    <2>1. m.FramesDropped + 1 \in Int /\ -1 \in Int
      BY <1>10
    <2> QED
      BY <1>8, <1>10, <2>1 DEF VQ!Dropped, VQMembers, VQFields, VQSame
  <1>12. asap \in VQMembers /\ VQSame(asap, m) /\ asap.LastDraw = at
    <2>1. m.WaitAvg * (VQ!AVGPERIOD - 1) \in Int /\ VQ!AVGPERIOD \in Nat \ {0}
      BY <1>10 DEF VQ!AVGPERIOD
    <2>2. PICK a \in Int, b \in Int, c \in Int, d0 \in Int :
            asap = [m EXCEPT !.Normal = d0, !.WaitAvg = a, !.FrameAvg = b, !.Late = trLate,
                             !.Frame = trFrame, !.LastDraw = at, !.Earliness = c]
      <3>1. /\ VQ!Quot(m.WaitAvg * (VQ!AVGPERIOD - 1), VQ!AVGPERIOD) \in Int
            /\ VQ!Average(trFrame, m.FrameAvg) \in Int
            /\ VQ!Lower(m.Earliness, trLate) \in Int
        BY <1>3, <1>8, <1>10, <2>1, VQQuot, VQAverage DEF VQ!Lower
      <3>2. 0 \in Int
        OBVIOUS
      <3> QED
        BY <3>1, <3>2, Zenon
    <2> HIDE DEF asap
    <2>3. at \in Int /\ trLate \in Int /\ trFrame \in Int
      BY <1>3, <1>8
    <2>4. asap \in VQMembers /\ VQSame(asap, m) /\ asap.LastDraw = at
      <3>0. m \in VQMembers
        BY <1>10
      <3>1. asap \in VQMembers
        BY <3>0, <2>2, <2>3 DEF VQMembers
      <3>2. /\ asap.FramesDrawn = m.FramesDrawn /\ asap.TotAcc = m.TotAcc
            /\ asap.SumSqAcc = m.SumSqAcc /\ asap.SumFrameTime = m.SumFrameTime
            /\ asap.SumSqFrameTime = m.SumSqFrameTime /\ asap.LastDraw = at
        BY <1>10, <2>2, <2>3 DEF VQMembers, VQFields
      <3> QED
        BY <3>1, <3>2 DEF VQSame
    <2> QED
      BY <2>4
  <1>13. lateNow \in VQMembers /\ VQSame(lateNow, m) /\ lateNow.LastDraw = at
    <2>1. m.Normal + 1 \in Int
      BY <1>10
    <2>2. PICK a \in Int :
            lateNow = [m EXCEPT !.Normal = a, !.FrameAvg = vq_Duration, !.WaitAvg = WaitAvg,
                                !.Late = trLate, !.Frame = trFrame, !.LastDraw = at]
      BY <2>1
    <2> HIDE DEF lateNow
    <2>3. at \in Int /\ trLate \in Int /\ trFrame \in Int /\ WaitAvg \in Int
          /\ vq_Duration \in Int
      BY <1>2, <1>3, <1>8
    <2>4. lateNow \in VQMembers /\ VQSame(lateNow, m) /\ lateNow.LastDraw = at
      <3>1. lateNow \in VQMembers
        BY <1>10, <2>2, <2>3 DEF VQMembers
      <3>2. /\ lateNow.FramesDrawn = m.FramesDrawn /\ lateNow.TotAcc = m.TotAcc
            /\ lateNow.SumSqAcc = m.SumSqAcc /\ lateNow.SumFrameTime = m.SumFrameTime
            /\ lateNow.SumSqFrameTime = m.SumSqFrameTime /\ lateNow.LastDraw = at
        BY <1>10, <2>2, <2>3 DEF VQMembers, VQFields
      <3> QED
        BY <3>1, <3>2 DEF VQSame
    <2> QED
      BY <2>4
  <1>14. waits \in VQMembers /\ VQSame(waits, m) /\ waits.LastDraw = begins
    <2> HIDE DEF begins
    <2>1. m.Normal + 1 \in Int /\ begins - start \in Int /\ begins - vq_q.LastDraw \in Int
      BY <1>2, <1>3, <1>9, <1>10
    <2>2. PICK a \in Int, b \in Int, c \in Int :
            waits = [m EXCEPT !.Normal = a, !.FrameAvg = vq_Duration, !.WaitAvg = WaitAvg,
                              !.Late = b, !.Frame = c, !.LastDraw = begins]
      BY <2>1
    <2> HIDE DEF waits
    <2>3. WaitAvg \in Int /\ vq_Duration \in Int /\ begins \in Int
      BY <1>2, <1>8, <1>9
    <2>4. waits \in VQMembers /\ VQSame(waits, m) /\ waits.LastDraw = begins
      <3>1. waits \in VQMembers
        BY <1>10, <2>2, <2>3 DEF VQMembers
      <3>2. /\ waits.FramesDrawn = m.FramesDrawn /\ waits.TotAcc = m.TotAcc
            /\ waits.SumSqAcc = m.SumSqAcc /\ waits.SumFrameTime = m.SumFrameTime
            /\ waits.SumSqFrameTime = m.SumSqFrameTime /\ waits.LastDraw = begins
        BY <1>10, <2>2, <2>3 DEF VQMembers, VQFields
      <3> QED
        BY <3>1, <3>2 DEF VQSame
    <2> QED
      BY <2>4
  <1> HIDE DEF dropping, asap, lateNow, waits, begins
  <1>15. f.members \in VQMembers /\ VQSame(f.members, m)
    BY <1>1, <1>11, <1>12, <1>13, <1>14
  <1>16. VQSame(f.members, vq_q)
    BY <1>10, <1>15 DEF VQSame
  <1>17. f.at = vq_now + advance
    BY <1>1 DEF at
  <1>18. f.trLate = f.at - VQStart1(vq_next)
    BY <1>1, <1>3 DEF trLate
  <1>19. CASE ~draws
    BY <1>1, <1>4, <1>9, <1>10, <1>11, <1>15, <1>16, <1>17, <1>18, <1>19
  <1>20. CASE draws /\ (PlayASAP \/ trLate >= 0)
    BY <1>1, <1>9, <1>12, <1>13, <1>15, <1>16, <1>17, <1>18, <1>20
  <1>21. CASE draws /\ ~(PlayASAP \/ trLate >= 0)
    BY <1>1, <1>9, <1>14, <1>15, <1>16, <1>17, <1>18, <1>21
  <1> QED
    BY <1>19, <1>20, <1>21

(* The supplier is asked for between a half and twice what it sends.        *)
LEMMA VQSends ==
  ASSUME VQTypes, NEW l \in Int
  PROVE  VQ!SendQuality(l) \in VQShares
  <1>1. vq_q.FrameAvg \in Int /\ vq_q.WaitAvg \in Int
    BY DEF VQTypes, VQMembers, VQFields
  <1> DEFINE F == vq_q.FrameAvg
             W == vq_q.WaitAvg
             Q == VQ!Quot(F, F + 20 - W)
             M == VQ!Milliseconds(l)
  <1>2. ASSUME F >= 0, W > 20, ~(W >= F)
        PROVE  Q \in Nat \ {0}
    <2> DEFINE D == F + 20 - W
    <2>1. D \in Nat \ {0} /\ D <= F /\ F \in Nat
      BY <1>1, <1>2
    <2> HIDE DEF D, F
    <2>2. F \div D \in Nat \ {0}
      BY <2>1, VQOnce
    <2>3. VQ!Quot(F, D) \in Nat \ {0}
      BY <2>1, <2>2 DEF VQ!Quot
    <2> QED
      BY <2>3 DEF D
  <1>3. VQ!SendQuality(l) =
          IF F < 0 THEN 1000
          ELSE IF l > 0 THEN IF M > 500 THEN 500 ELSE 1000 - M
          ELSE IF W > 20 /\ l < -20
            THEN IF W >= F THEN 2000 ELSE VQ!Lower(2000, 1000 * Q)
          ELSE 1000
    BY DEF VQ!SendQuality
  <1>m. M \in Int /\ (l > 0 => M >= 0)
    <2>1. M \in Int
      BY VQQuot DEF VQ!Milliseconds
    <2>2. l > 0 => M = l \div 10
      BY DEF VQ!Milliseconds, VQ!Quot
    <2>3. l > 0 => l \div 10 \in Nat
      <3>1. l > 0 => l \in Nat
        OBVIOUS
      <3> QED
        BY <3>1, VQQuotient
    <2> HIDE DEF M
    <2> QED
      BY <2>1, <2>2, <2>3
  <1> HIDE DEF F, W, Q, M
  <1>4. F \in Int /\ W \in Int
    BY <1>1 DEF F, W
  <1>5. CASE F >= 0 /\ W > 20 /\ ~(W >= F)
    BY <1>2, <1>3, <1>4, <1>5, <1>m DEF VQ!Lower, VQShares
  <1>6. CASE ~(F >= 0 /\ W > 20 /\ ~(W >= F))
    BY <1>3, <1>4, <1>6, <1>m DEF VQShares
  <1> QED
    BY <1>5, <1>6

LEMMA VQStart == VQ!Init => VQInv
  <1> SUFFICES ASSUME VQ!Init PROVE VQInv
    OBVIOUS
  <1>1. vq_q \in VQMembers /\ vq_q.LastDraw = -1 /\ vq_q.RenderAvg = 0
        /\ vq_q.trDuration = 0
    BY DEF VQ!Init, VQ!ResetStreamingTimes, VQMembers, VQFields
  <1>2. VQTypes
    <2>1. /\ vq_now \in Int /\ vq_next \in Int /\ vq_shownAt \in Int /\ vq_throttle \in Int
          /\ vq_proportion \in VQShares
      BY DEF VQ!Init, VQShares
    <2>2. vq_dropped \in BOOLEAN
      BY Zenon DEF VQ!Init
    <2> QED
      BY <1>1, <2>1, <2>2, Zenon DEF VQTypes
  <1>3. VQSums(vq_q)
    BY VQFresh DEF VQ!Init
  <1>4. VQShown /\ VQFirst /\ ~vq_dropped
    BY <1>1 DEF VQ!Init, VQShown, VQFirst
  <1> QED
    BY <1>2, <1>3, <1>4 DEF VQInv

(* A frame is drawn.                                                       *)
LEMMA VQDraws ==
  ASSUME VQTypes, NEW m \in VQMembers, VQSums(m), NEW at \in Int, m.LastDraw <= at, VQ!Draw(m, at),
         UNCHANGED vq_throttle, vq_next' \in Int, vq_proportion' \in VQShares
  PROVE  VQInv'
  <1>1. PICK tr \in vq_DrawTimes :
          /\ vq_q' = VQ!Render(m, tr) /\ vq_now' = at + tr + 10 * (vq_throttle \div 10)
          /\ vq_shownAt' = at /\ vq_dropped' = FALSE /\ vq_waiting' = <<>>
    BY DEF VQ!Draw
  <1>2. tr \in Nat
    BY QualityAssumption
  <1>3. vq_q' \in VQMembers /\ VQSums(vq_q') /\ vq_q'.LastDraw = m.LastDraw
        /\ vq_q'.FramesDrawn > 0
    BY <1>1, <1>2, VQRender
  <1>4. VQTypes'
    <2>1. vq_throttle \in Int /\ vq_throttle \div 10 \in Int
      BY DEF VQTypes
    <2>2. vq_now' \in Int /\ vq_shownAt' \in Int /\ vq_throttle' \in Int
      BY <1>1, <1>2, <2>1
    <2>3. vq_dropped' \in BOOLEAN
      BY <1>1, Zenon
    <2> QED
      BY <1>3, <2>2, <2>3, Zenon DEF VQTypes
  <1>5. VQShown' /\ VQFirst' /\ ~vq_dropped'
    BY <1>1, <1>3 DEF VQShown, VQFirst
  <1> QED
    BY <1>3, <1>4, <1>5 DEF VQInv

LEMMA VQStep == VQInv /\ [VQ!Next]_(VQ!vars) => VQInv'
  <1> SUFFICES ASSUME VQInv, [VQ!Next]_(VQ!vars)
               PROVE  VQInv'
    OBVIOUS
  <1>0. VQTypes /\ VQSums(vq_q) /\ VQShown /\ VQFirst
        /\ (vq_dropped => vq_now - vq_shownAt <= VQ!UNITS)
    BY DEF VQInv
  <1>d. vq_Duration \in Nat
    BY QualityAssumption
  <1>1. CASE VQ!ShouldDrawSampleNow
    <2>1. PICK advance \in vq_Advances, handling \in BOOLEAN, discontinuity \in BOOLEAN :
            VQ!Decided(VQ!Arrives(advance, handling, discontinuity))
      BY <1>1, Zenon DEF VQ!ShouldDrawSampleNow
    <2> DEFINE f == VQ!Arrives(advance, handling, discontinuity)
    <2>a. VQ!Decided(f)
      BY <2>1, Zenon
    <2>4. /\ f.at = vq_now + advance /\ f.trLate = f.at - VQStart1(vq_next)
          /\ f.members \in VQMembers /\ VQSame(f.members, vq_q) /\ f.begins \in Int
          /\ f.decision \in {"draw", "wait", "drop"}
          /\ f.decision = "draw" => f.members.LastDraw = f.at
          /\ f.decision = "wait" => f.members.LastDraw = f.begins
          /\ f.decision = "drop" => /\ f.members.LastDraw = vq_q.LastDraw
                                   /\ f.at - vq_q.LastDraw <= VQ!UNITS
                                   /\ ~(vq_q.RenderAvg = 0 /\ vq_q.trDuration = 0)
      BY <1>0, QualityAssumption, VQArrives
    <2> HIDE DEF f
    <2>2. vq_proportion' = VQ!SendQuality(f.trLate)
      BY <2>a DEF VQ!Decided
    <2>3. /\ f.decision = "draw" => VQ!Draw(f.members, f.at)
          /\ f.decision = "wait" =>
               /\ vq_q' = f.members /\ vq_now' = f.at /\ vq_waiting' = <<f.begins>>
               /\ vq_dropped' = FALSE /\ UNCHANGED vq_shownAt
          /\ f.decision = "drop" =>
               /\ vq_q' = f.members /\ vq_now' = f.at /\ vq_dropped' = TRUE
               /\ UNCHANGED <<vq_shownAt, vq_waiting>>
      BY <2>a DEF VQ!Decided
    <2>5. /\ vq_waiting = <<>> /\ vq_q.LastDraw <= vq_shownAt
          /\ vq_next' = vq_next + vq_Duration
          /\ UNCHANGED vq_throttle /\ advance \in Nat
      BY <1>0, <1>1, QualityAssumption DEF VQ!ShouldDrawSampleNow, VQShown
    <2>6. vq_now \in Int /\ vq_next \in Int /\ vq_shownAt \in Int /\ f.at \in Int
          /\ f.trLate \in Int
      <3>1. vq_now \in Int /\ vq_next \in Int /\ vq_shownAt \in Int
        BY <1>0 DEF VQTypes
      <3>2. VQStart1(vq_next) \in Int
        BY <3>1 DEF VQStart1
      <3>3. f.at = vq_now + advance /\ f.trLate = f.at - VQStart1(vq_next)
        BY <2>4
      <3>4. f.at \in Int /\ f.trLate \in Int
        BY <2>5, <3>1, <3>2, <3>3
      <3> QED
        BY <3>1, <3>4
    <2>7. vq_proportion' \in VQShares /\ vq_next' \in Int
      <3>1. VQ!SendQuality(f.trLate) \in VQShares
        BY <1>0, <2>6, VQSends
      <3> QED
        BY <1>d, <2>2, <2>5, <2>6, <3>1
    <2>8. VQSums(f.members)
      BY <1>0, <2>4 DEF VQSums, VQSame
    <2>9. CASE f.decision = "draw"
      <3>1. VQ!Draw(f.members, f.at)
        BY <2>3, <2>9
      <3>2. f.members.LastDraw <= f.at
        BY <2>4, <2>6, <2>9
      <3> QED
        BY <1>0, <2>4, <2>5, <2>6, <2>7, <2>8, <3>1, <3>2, VQDraws
    <2>10. CASE f.decision = "wait"
      <3>1. /\ vq_q' = f.members /\ vq_now' = f.at /\ vq_waiting' = <<f.begins>>
            /\ vq_dropped' = FALSE /\ UNCHANGED vq_shownAt
        BY <2>3, <2>10
      <3>3. VQTypes'
        BY <1>0, <2>4, <2>5, <2>6, <2>7, <3>1 DEF VQTypes
      <3>4. VQSums(vq_q')
        BY <2>8, <3>1
      <3>5. VQShown' /\ VQFirst' /\ ~vq_dropped'
        BY <2>4, <2>10, <3>1 DEF VQShown, VQFirst
      <3> QED
        BY <3>3, <3>4, <3>5 DEF VQInv
    <2>11. CASE f.decision = "drop"
      <3>1. /\ vq_q' = f.members /\ vq_now' = f.at /\ vq_dropped' = TRUE
            /\ UNCHANGED <<vq_shownAt, vq_waiting>>
        BY <2>3, <2>11
      <3>2. VQTypes'
        BY <1>0, <2>4, <2>5, <2>6, <2>7, <3>1 DEF VQTypes
      <3>3. VQSums(vq_q')
        BY <2>8, <3>1
      <3>4. /\ vq_q'.LastDraw = vq_q.LastDraw /\ f.at - vq_q.LastDraw <= 10000
            /\ vq_q.LastDraw \in Int
        BY <1>0, <2>4, <2>11, <3>1 DEF VQ!UNITS, VQTypes, VQMembers, VQFields
      <3>5. VQShown'
        BY <2>5, <3>1, <3>4 DEF VQShown
      <3>6. vq_now' - vq_shownAt' <= 10000
        BY <2>5, <2>6, <3>1, <3>4
      <3>7. vq_q'.FramesDrawn > 0
        <4>1. vq_q.FramesDrawn > 0
          BY <1>0, <2>4, <2>5, <2>11 DEF VQFirst
        <4> QED
          BY <2>4, <3>1, <4>1 DEF VQSame
      <3> QED
        BY <3>2, <3>3, <3>5, <3>6, <3>7 DEF VQInv, VQFirst, VQ!UNITS
    <2> QED
      BY <2>4, <2>9, <2>10, <2>11
  <1>2. CASE VQ!DrawWaiting
    <2> DEFINE at == IF vq_waiting[1] > vq_now THEN vq_waiting[1] ELSE vq_now
    <2>1. /\ vq_waiting # <<>> /\ VQ!Draw(vq_q, at)
          /\ UNCHANGED <<vq_next, vq_throttle, vq_proportion>>
      BY <1>2 DEF VQ!DrawWaiting
    <2>2. vq_waiting[1] \in Int /\ vq_q.LastDraw = vq_waiting[1] /\ vq_now \in Int
      BY <1>0, <2>1 DEF VQShown, VQTypes
    <2>3. at \in Int /\ vq_q.LastDraw <= at
      BY <2>2
    <2> HIDE DEF at
    <2>4. vq_q \in VQMembers /\ vq_next' \in Int /\ vq_proportion' \in VQShares
      BY <1>0, <2>1 DEF VQTypes
    <2> QED
      BY <1>0, <2>1, <2>3, <2>4, VQDraws
  <1>3. CASE VQ!Notify
    <2>1. PICK p \in vq_Proportions : vq_throttle' = IF p >= 1000 THEN 0 ELSE -330 + 388880 \div (p + 167)
      BY <1>3 DEF VQ!Notify
    <2>2. p + 167 \in Nat \ {0} /\ 388880 \in Nat
      BY QualityAssumption
    <2>3. 388880 \div (p + 167) \in Nat
      BY <2>2, VQQuotient
    <2>4. vq_throttle' \in Int
      BY <2>1, <2>3
    <2>5. UNCHANGED <<vq_now, vq_next, vq_q, vq_waiting, vq_proportion, vq_shownAt,
                      vq_dropped>>
      BY <1>3 DEF VQ!Notify
    <2>6. VQTypes'
      BY <1>0, <2>4, <2>5 DEF VQTypes
    <2>7. VQSums(vq_q') /\ VQShown' /\ VQFirst'
          /\ (vq_dropped' => vq_now' - vq_shownAt' <= VQ!UNITS)
      BY <1>0, <2>5 DEF VQShown, VQFirst
    <2> QED
      BY <2>6, <2>7 DEF VQInv
  <1>4. CASE VQ!OnStartStreaming
    <2>1. /\ vq_now' = 0 /\ vq_next' = 0 /\ vq_q' = VQ!ResetStreamingTimes
          /\ vq_waiting' = <<>>
          /\ vq_shownAt' = -1 /\ vq_dropped' = FALSE /\ vq_proportion' = 1000
          /\ vq_throttle' = 0
      BY <1>4 DEF VQ!OnStartStreaming
    <2>2. vq_q' \in VQMembers /\ vq_q'.LastDraw = -1 /\ vq_q'.RenderAvg = 0
          /\ vq_q'.trDuration = 0
      BY <2>1 DEF VQ!ResetStreamingTimes, VQMembers, VQFields
    <2>3. VQTypes'
      <3>1. vq_now' \in Int /\ vq_next' \in Int /\ vq_shownAt' \in Int
            /\ vq_throttle' \in Int
        BY <2>1
      <3>2. vq_dropped' \in BOOLEAN
        BY <2>1, Zenon
      <3>3. vq_proportion' \in VQShares
        BY <2>1 DEF VQShares
      <3> QED
        BY <2>2, <3>1, <3>2, <3>3, Zenon DEF VQTypes
    <2>4. VQSums(vq_q')
      BY <2>1, VQFresh
    <2>5. VQShown' /\ VQFirst' /\ ~vq_dropped'
      BY <2>1, <2>2 DEF VQShown, VQFirst
    <2> QED
      BY <2>3, <2>4, <2>5 DEF VQInv
  <1>5. CASE UNCHANGED VQ!vars
    <2>1. UNCHANGED <<vq_now, vq_next, vq_q, vq_waiting, vq_throttle, vq_proportion,
                      vq_shownAt, vq_dropped>>
      BY <1>5 DEF VQ!vars
    <2>2. VQTypes'
      BY <1>0, <2>1 DEF VQTypes
    <2>3. VQSums(vq_q') /\ VQShown' /\ VQFirst'
          /\ (vq_dropped' => vq_now' - vq_shownAt' <= VQ!UNITS)
      BY <1>0, <2>1 DEF VQShown, VQFirst
    <2> QED
      BY <2>2, <2>3 DEF VQInv
  <1> QED
    BY <1>1, <1>2, <1>3, <1>4, <1>5 DEF VQ!Next

LEMMA VQSafe == VQInv => VQ!NeverFrozen /\ VQ!FiguresReal
  <1> SUFFICES ASSUME VQInv PROVE VQ!NeverFrozen /\ VQ!FiguresReal
    OBVIOUS
  <1>1. VQTypes /\ VQSums(vq_q) /\ VQFirst
        /\ (vq_dropped => vq_now - vq_shownAt <= VQ!UNITS)
    BY DEF VQInv
  <1>2. VQ!NeverFrozen
    BY <1>1 DEF VQFirst, VQ!NeverFrozen
  <1> DEFINE n == vq_q.FramesDrawn
  <1>3. /\ n \in Nat /\ VQSpread(VQBeyond(n, 2), vq_q.SumSqAcc, vq_q.TotAcc)
        /\ VQSpread(VQBeyond(n, 3), vq_q.SumSqFrameTime, vq_q.SumFrameTime)
    BY <1>1 DEF VQSums
  <1> HIDE DEF n
  <1>4. /\ n - 1 \in Int /\ n - 2 \in Int
        /\ n - 1 > 1 => n - 1 >= VQBeyond(n, 2)
        /\ n - 2 > 1 => n - 2 >= VQBeyond(n, 3)
    BY <1>3 DEF VQBeyond
  <1>5. /\ VQ!Variance(n - 1, vq_q.SumSqAcc, vq_q.TotAcc) >= 0
        /\ VQ!Variance(n - 2, vq_q.SumSqFrameTime, vq_q.SumFrameTime) >= 0
    BY <1>3, <1>4, VQVariance
  <1>6. vq_proportion \in VQShares
    BY <1>1 DEF VQTypes
  <1> QED
    BY <1>2, <1>5, <1>6 DEF VQ!FiguresReal, n, VQShares

-----------------------------------------------------------------------------
(***************************************************************************)
(* Quality of a decoder.  While the picture has a hole the decoder is skipping*)
(* and has awaited what is missing of Wait frames (VTHole, VTAwaits).      *)
(***************************************************************************)

VTEstimates == [late : Int, period : 0 .. vt_PeriodMax, since : 0 .. vt_PeriodMax, skipping : BOOLEAN]

VTTypes ==
  /\ vt_qm \in VTEstimates /\ -2 * vt_Frame <= vt_qm.late /\ vt_qm.late <= vt_Silly + 1
  /\ vt_waitForKey \in -1 .. vt_Wait /\ vt_awaited \in 0 .. vt_Wait
  /\ vt_skipped \in BOOLEAN /\ vt_quality \in BOOLEAN /\ vt_hole \in BOOLEAN

\* While the decoder misses a frame it is skipping, and the frames awaited and those
\* still to be awaited make up Wait.
VTHole == vt_hole => vt_qm.skipping
VTAwaits == vt_waitForKey >= 0 => vt_awaited + vt_waitForKey >= vt_Wait

VTInv == VTTypes /\ VTHole /\ VTAwaits /\ VT!WholeImages

LEMMA VTStart == VT!Init => VTInv
  <1> SUFFICES ASSUME VT!Init PROVE VTInv
    OBVIOUS
  <1> USE DecoderAssumption DEF VT!Init
  <1>1. vt_qm \in VTEstimates /\ -2 * vt_Frame <= vt_qm.late /\ vt_qm.late <= vt_Silly + 1
    BY DEF VTEstimates, VT!Fresh
  <1>3. vt_waitForKey \in -1 .. vt_Wait /\ vt_awaited \in 0 .. vt_Wait
    OBVIOUS
  <1>4. VTTypes
    BY <1>1, <1>3 DEF VTTypes
  <1>2. VTHole /\ VTAwaits /\ VT!WholeImages
    BY DEF VTHole, VTAwaits, VT!WholeImages, VT!NoFrame
  <1> QED
    BY <1>4, <1>2 DEF VTInv

(* What ShouldSkipFrame leaves, and that it goes on skipping up to a key    *)
(* frame.                                                                  *)
LEMMA VTSkips ==
  ASSUME NEW e \in VTEstimates, e.since < vt_PeriodMax, NEW key \in BOOLEAN, NEW slow \in BOOLEAN
  PROVE  /\ VT!ShouldSkipFrame(e, key, slow) \in VTEstimates
         /\ VT!ShouldSkipFrame(e, key, slow).late \in {e.late, e.late - vt_Frame}
         /\ ~key /\ e.skipping => VT!ShouldSkipFrame(e, key, slow).skipping
  <1>0. /\ e.late \in Int /\ e.period \in 0 .. vt_PeriodMax /\ e.since \in 0 .. vt_PeriodMax
        /\ e.skipping \in BOOLEAN
    BY DEF VTEstimates
  <1>1. PICK f \in VTEstimates : /\ f = VT!Seen(e, key) /\ f.since < vt_PeriodMax /\ f.late = e.late
                                 /\ ~key => f.skipping = e.skipping
    <2>1. CASE key
      <3> DEFINE p == IF e.period < e.since THEN e.since ELSE e.period
      <3>1. p \in 0 .. vt_PeriodMax
        BY <1>0
      <3> HIDE DEF p
      <3>2. VT!Seen(e, key) = [e EXCEPT !.period = p, !.since = 0, !.skipping = FALSE]
        BY <2>1 DEF VT!Seen, p
      <3>3. 0 \in 0 .. vt_PeriodMax /\ FALSE \in BOOLEAN /\ 0 < vt_PeriodMax
        BY <1>0, DecoderAssumption
      <3>4. /\ [e EXCEPT !.period = p, !.since = 0, !.skipping = FALSE] \in VTEstimates
            /\ [e EXCEPT !.period = p, !.since = 0, !.skipping = FALSE].since = 0
            /\ [e EXCEPT !.period = p, !.since = 0, !.skipping = FALSE].late = e.late
        BY <3>1, <3>3 DEF VTEstimates
      <3> QED
        BY <2>1, <3>2, <3>3, <3>4
    <2>2. CASE ~key
      <3> DEFINE p == IF e.since > e.period /\ e.period > 0 THEN e.since ELSE e.period
      <3>1. p \in 0 .. vt_PeriodMax
        BY <1>0
      <3> HIDE DEF p
      <3>2. VT!Seen(e, key) = [e EXCEPT !.period = p]
        BY <2>2 DEF VT!Seen, p
      <3>3. /\ VT!Seen(e, key) \in VTEstimates /\ VT!Seen(e, key).since = e.since
            /\ VT!Seen(e, key).late = e.late /\ VT!Seen(e, key).skipping = e.skipping
        BY <3>1, <3>2 DEF VTEstimates
      <3> QED
        BY <3>3
    <2> QED
      BY <2>1, <2>2
  <1>2. ASSUME NEW skip \in BOOLEAN
        PROVE  /\ VT!Counted(f, skip) \in VTEstimates /\ VT!Counted(f, skip).skipping = skip
               /\ VT!Counted(f, skip).late \in {e.late, e.late - vt_Frame}
    <2>1. f.since + 1 \in 0 .. vt_PeriodMax /\ f.late - vt_Frame \in Int /\ f.late \in Int
      BY <1>1, DecoderAssumption DEF VTEstimates
    <2> DEFINE l == IF skip THEN f.late - vt_Frame ELSE f.late
    <2>2. VT!Counted(f, skip) = [f EXCEPT !.since = f.since + 1, !.skipping = skip, !.late = l]
      BY DEF VT!Counted
    <2>3. l \in Int /\ l \in {e.late, e.late - vt_Frame}
      BY <2>1, <1>1
    <2> HIDE DEF l
    <2>4. [f EXCEPT !.since = f.since + 1, !.skipping = skip, !.late = l] \in VTEstimates
      BY <2>1, <2>3 DEF VTEstimates
    <2> QED
      BY <2>2, <2>3, <2>4 DEF VTEstimates
  <1>3. PICK skip \in BOOLEAN : /\ VT!ShouldSkipFrame(e, key, slow) = VT!Counted(f, skip)
                                /\ f.skipping => skip
    <2>1. CASE f.skipping \/ VT!Worth(f, slow)
      <3>1. (f.skipping \/ VT!Worth(f, slow)) = TRUE
        BY <2>1
      <3> QED
        BY <1>1, <3>1 DEF VT!ShouldSkipFrame
    <2>2. CASE ~(f.skipping \/ VT!Worth(f, slow))
      <3>1. (f.skipping \/ VT!Worth(f, slow)) = FALSE
        BY <2>2
      <3> QED
        BY <1>1, <2>2, <3>1 DEF VT!ShouldSkipFrame
    <2> QED
      BY <2>1, <2>2
  <1> QED
    BY <1>1, <1>2, <1>3

(* A frame that is decoded, by estimates under which no frame with a time   *)
(* stamp comes after a hole.                                               *)
LEMMA VTDecodes ==
  ASSUME VTInv, NEW e \in VTEstimates, -2 * vt_Frame <= e.late, e.late <= vt_Silly + 1,
         NEW frame \in {"key", "delta"}, NEW timed \in BOOLEAN,
         NEW change \in {"none", "discontinuity", "type"},
         NEW result \in {"image", "nothing", "error"},
         VT!Decode(e, frame, timed, change, result),
         frame = "delta" /\ vt_hole => e.skipping /\ ~timed
  PROVE  VTInv'
  <1>0. VTTypes /\ VTAwaits
    BY DEF VTInv
  <1> DEFINE start == IF change = "none" THEN vt_waitForKey ELSE vt_Wait
             since == IF change = "none" THEN vt_awaited ELSE 0
             n == VT!WaitForKey(start, frame = "key")
             drop == result = "nothing" \/ (result = "image" /\ n # 0)
  <1>1. /\ vt_qm' = IF change = "type" THEN VT!Fresh ELSE e
        /\ vt_waitForKey' = n
        /\ vt_skipped' = drop /\ vt_quality' = (drop \/ (vt_quality /\ change # "type"))
        /\ vt_hole' = (~(frame = "key") /\ vt_hole /\ change # "type")
        /\ vt_awaited' = (IF frame = "key" \/ since = vt_Wait THEN vt_Wait ELSE since + 1)
        /\ vt_last' = [frame |-> frame, timed |-> timed,
                       fate |-> IF drop THEN "dropped"
                                ELSE IF result = "image" THEN "delivered" ELSE "failed"]
    BY DEF VT!Decode
  <1>2. /\ start \in -1 .. vt_Wait /\ since \in 0 .. vt_Wait
        /\ start >= 0 => since + start >= vt_Wait
    BY <1>0, DecoderAssumption DEF VTTypes, VTAwaits
  <1>3. n = IF start \in {0, 1} \/ frame = "key" THEN 0 ELSE IF start > 1 THEN start - 1 ELSE start
    BY DEF VT!WaitForKey
  <1>4. drop \in BOOLEAN
    OBVIOUS
  <1> HIDE DEF start, since, n, drop
  <1>5. VTAwaits'
    BY <1>1, <1>2, <1>3, DecoderAssumption DEF VTAwaits
  <1>6. vt_waitForKey' \in -1 .. vt_Wait /\ vt_awaited' \in 0 .. vt_Wait
    BY <1>1, <1>2, <1>3, DecoderAssumption
  <1>7. vt_qm' \in VTEstimates /\ -2 * vt_Frame <= vt_qm'.late
        /\ vt_qm'.late <= vt_Silly + 1
    BY <1>1, DecoderAssumption DEF VTEstimates, VT!Fresh
  <1>8. vt_skipped' \in BOOLEAN /\ vt_quality' \in BOOLEAN /\ vt_hole' \in BOOLEAN
    BY <1>0, <1>1, <1>4 DEF VTTypes
  <1>9. VTHole'
    BY <1>1 DEF VTHole
  <1>10. ASSUME vt_last'.fate = "delivered", vt_last'.frame = "delta"
         PROVE  (vt_hole' => ~vt_last'.timed) /\ vt_awaited' = vt_Wait
    <2>1. ~drop /\ result = "image" /\ frame = "delta" /\ vt_last'.timed = timed
      BY <1>1, <1>10
    <2>2. n = 0
      BY <2>1 DEF drop
    <2>3. vt_awaited' = vt_Wait
      BY <1>1, <1>2, <1>3, <2>1, <2>2, DecoderAssumption
    <2>4. vt_hole' => ~timed
      BY <1>1, <2>1
    <2> QED
      BY <2>1, <2>3, <2>4
  <1> QED
    BY <1>5, <1>6, <1>7, <1>8, <1>9, <1>10 DEF VTInv, VTTypes, VT!WholeImages

LEMMA VTStep == VTInv /\ [VT!Next]_(VT!vars) => VTInv'
  <1> SUFFICES ASSUME VTInv, [VT!Next]_(VT!vars)
               PROVE  VTInv'
    OBVIOUS
  <1>0. VTTypes /\ VTHole /\ VTAwaits /\ VT!WholeImages
    BY DEF VTInv
  <1>1. CASE VT!StartStreaming
    <2>1. vt_qm' \in VTEstimates /\ -2 * vt_Frame <= vt_qm'.late
          /\ vt_qm'.late <= vt_Silly + 1
      BY <1>1, DecoderAssumption DEF VT!StartStreaming, VTEstimates, VT!Fresh
    <2> QED
      BY <1>0, <1>1, <2>1
         DEF VT!StartStreaming, VTInv, VTTypes, VTHole, VTAwaits, VT!WholeImages,
             VT!NoFrame
  <1>2. CASE VT!AlterQuality
    <2>1. PICK l \in Int : /\ -2 * vt_Frame <= l /\ l <= vt_Silly + 1
                           /\ vt_qm' = [vt_qm EXCEPT !.late = l]
      <3>1. PICK q \in {0, vt_Frame + 1, vt_Silly + 1} :
              vt_qm' = [vt_qm EXCEPT !.late = IF vt_qm.late > vt_Silly THEN vt_Silly ELSE q]
        BY <1>2 DEF VT!AlterQuality
      <3> DEFINE l == IF vt_qm.late > vt_Silly THEN vt_Silly ELSE q
      <3>2. l \in Int /\ -2 * vt_Frame <= l /\ l <= vt_Silly + 1
        BY DecoderAssumption
      <3> QED
        BY <3>1, <3>2
    <2>2. /\ vt_qm' \in VTEstimates /\ vt_qm'.late = l /\ vt_qm'.skipping = vt_qm.skipping
      BY <1>0, <2>1 DEF VTTypes, VTEstimates
    <2> QED
      BY <1>0, <1>2, <2>1, <2>2
         DEF VT!AlterQuality, VTInv, VTTypes, VTHole, VTAwaits, VT!WholeImages
  <1>3. CASE VT!Receive
    <2>1. vt_qm.since < vt_PeriodMax /\ vt_qm.late > -vt_Frame
      BY <1>3 DEF VT!Receive
    <2>2. PICK frame \in {"key", "delta"}, timed \in BOOLEAN, slow \in BOOLEAN :
            LET e == IF timed THEN VT!ShouldSkipFrame(vt_qm, frame = "key", slow) ELSE vt_qm
            IN IF timed /\ e.skipping
                 THEN VT!Skip(e, frame)
                 ELSE \/ VT!Refuse(e)
                      \/ \E change \in {"none", "discontinuity", "type"},
                            result \in {"image", "nothing", "error"} :
                           VT!Decode(e, frame, timed, change, result)
      BY <1>3 DEF VT!Receive
    <2> DEFINE key == frame = "key"
               e == IF timed THEN VT!ShouldSkipFrame(vt_qm, key, slow) ELSE vt_qm
    <2>3. key \in BOOLEAN
      OBVIOUS
    <2>4. /\ e \in VTEstimates /\ -2 * vt_Frame <= e.late /\ e.late <= vt_Silly + 1
          /\ frame = "delta" /\ vt_qm.skipping => e.skipping
      <3>1. CASE ~timed
        BY <1>0, <3>1 DEF VTTypes
      <3>2. CASE timed
        <4>1. vt_qm \in VTEstimates
          BY <1>0 DEF VTTypes
        <4> DEFINE f == VT!ShouldSkipFrame(vt_qm, key, slow)
        <4>2. /\ f \in VTEstimates /\ f.late \in {vt_qm.late, vt_qm.late - vt_Frame}
              /\ ~key /\ vt_qm.skipping => f.skipping
          BY <2>1, <2>3, <4>1, VTSkips
        <4>3. e = f /\ (frame = "delta" => ~key)
          BY <3>2
        <4> HIDE DEF f, e, key
        <4>4. vt_qm.late \in Int
          BY <4>1 DEF VTEstimates
        <4> QED
          BY <1>0, <2>1, <4>2, <4>3, <4>4, DecoderAssumption DEF VTTypes
      <3> QED
        BY <3>1, <3>2
    <2>5. \/ timed /\ e.skipping /\ VT!Skip(e, frame)
          \/ ~(timed /\ e.skipping) /\ VT!Refuse(e)
          \/ /\ ~(timed /\ e.skipping)
             /\ \E change \in {"none", "discontinuity", "type"},
                  result \in {"image", "nothing", "error"} :
                    VT!Decode(e, frame, timed, change, result)
      BY <2>2
    <2> HIDE DEF e
    <2>6. CASE timed /\ e.skipping /\ VT!Skip(e, frame)
      BY <1>0, <2>4, <2>6 DEF VT!Skip, VTInv, VTTypes, VTHole, VTAwaits, VT!WholeImages
    <2>7. CASE VT!Refuse(e)
      BY <1>0, <2>4, <2>7
         DEF VT!Refuse, VTInv, VTTypes, VTHole, VTAwaits, VT!WholeImages, VT!NoFrame
    <2>8. ASSUME ~(timed /\ e.skipping),
                 NEW change \in {"none", "discontinuity", "type"},
                 NEW result \in {"image", "nothing", "error"},
                 VT!Decode(e, frame, timed, change, result)
          PROVE  VTInv'
      <3>1. frame = "delta" /\ vt_hole => e.skipping /\ ~timed
        BY <1>0, <2>4, <2>8 DEF VTHole
      <3> QED
        BY <2>4, <2>8, <3>1, VTDecodes
    <2> QED
      BY <2>5, <2>6, <2>7, <2>8
  <1>4. CASE UNCHANGED VT!vars
    BY <1>0, <1>4 DEF VT!vars, VTInv, VTTypes, VTHole, VTAwaits, VT!WholeImages
  <1> QED
    BY <1>1, <1>2, <1>3, <1>4 DEF VT!Next

LEMMA VTSafe == VTInv => VT!TypeOK /\ VT!WholeImages
  <1> SUFFICES ASSUME VTInv PROVE VT!TypeOK
    BY DEF VTInv
  <1>1. VTTypes
    BY DEF VTInv
  <1>2. /\ vt_qm.late \in Int /\ vt_qm.period \in 0 .. vt_PeriodMax
        /\ vt_qm.since \in 0 .. vt_PeriodMax
        /\ vt_qm.skipping \in BOOLEAN
    BY <1>1 DEF VTTypes, VTEstimates
  <1> QED
    BY <1>1, <1>2, DecoderAssumption DEF VTTypes, VT!TypeOK

-----------------------------------------------------------------------------
(***************************************************************************)
(* A filter in place: what it copies follows from the allocators of its pins*)
(* once no pin is about to be connected anew (TIPins).                     *)
(***************************************************************************)

TIChoices == [in : TI!Allocators, out : TI!Allocators, ro : BOOLEAN, told : TI!Allocators, ok : BOOLEAN]

TITypes ==
  /\ ti_modifies \in BOOLEAN /\ ti_in \in BOOLEAN /\ ti_out \in BOOLEAN
  /\ ti_readOnly \in BOOLEAN
  /\ ti_upReadOnly \in BOOLEAN /\ ti_offers \in BOOLEAN
  /\ ti_pendingIn \in BOOLEAN /\ ti_pendingOut \in BOOLEAN
  /\ ti_inAlloc \in TI!Allocators /\ ti_outAlloc \in TI!Allocators
  /\ ti_told \in TI!Allocators

\* A connected pin has an allocator, and once the input has been connected to what
\* the output is, the filter copies if it must.
TIPins ==
  /\ ti_in => ti_inAlloc # "none"
  /\ ti_out => ti_outAlloc # "none"
  /\ ti_in /\ ti_out /\ ~ti_pendingIn =>
          ti_told = ti_outAlloc /\ (ti_inAlloc # ti_outAlloc <=> ti_modifies /\ ti_readOnly)

TIInv == TITypes /\ TIPins

\* What an outcome of the input's negotiation is.
TIGood(t) ==
  /\ t \in TIChoices
  /\ ti_out => t.out # "none"
  /\ t.ok => /\ t.in # "none"
             /\ ti_out => t.told = t.out /\ (t.in # t.out <=> ti_modifies /\ t.ro)

LEMMA TIStart == TI!Init => TIInv
  BY DEF TI!Init, TIInv, TITypes, TIPins, TI!Allocators

(* An outcome of NotifyAllocator.                                           *)
LEMMA TINotify ==
  ASSUME TITypes, NEW c \in TIChoices, ti_out => c.out # "none",
         NEW a \in TI!Allocators \ {"none"}, NEW r \in BOOLEAN, NEW t \in TI!NotifyAllocator(c, a, r)
  PROVE  TIGood(t)
  <1> DEFINE d == [c EXCEPT !.ro = r]
             other == IF c.out # "none" THEN c.out ELSE IF ti_offers THEN "down" ELSE "own"
             e == [d EXCEPT !.out = other]
  <1>1. /\ d = [in |-> c.in, out |-> c.out, ro |-> r, told |-> c.told, ok |-> c.ok]
        /\ c.in \in TI!Allocators /\ c.out \in TI!Allocators /\ c.told \in TI!Allocators
        /\ c.ok \in BOOLEAN
    BY DEF TIChoices
  <1>2. other \in TI!Allocators \ {"none"}
    BY <1>1 DEF TI!Allocators
  <1> HIDE DEF other, d
  <1>3. e = [in |-> c.in, out |-> other, ro |-> r, told |-> c.told, ok |-> c.ok]
    BY <1>1
  <1> USE DEF other, d
  <1>4. \/ ~ti_out /\ t = [d EXCEPT !.in = a, !.ok = TRUE]
        \/ ti_out /\ r /\ ti_modifies /\ t = TI!Refused(e)
        \/ ti_out /\ r /\ ti_modifies /\ a # other /\ t = [e EXCEPT !.in = a, !.told = other, !.ok = TRUE]
        \/ ti_out /\ ~(r /\ ti_modifies) /\ t = TI!Refused(d)
        \/ ti_out /\ ~(r /\ ti_modifies) /\ t = [d EXCEPT !.in = a, !.out = a, !.told = a, !.ok = TRUE]
    BY DEF TI!NotifyAllocator
  <1> HIDE DEF d, e, other
  <1>5. CASE ~ti_out /\ t = [d EXCEPT !.in = a, !.ok = TRUE]
    <2>1. t = [in |-> a, out |-> c.out, ro |-> r, told |-> c.told, ok |-> TRUE]
      BY <1>1, <1>5
    <2> QED
      BY <1>1, <1>5, <2>1 DEF TIGood, TIChoices
  <1>6. CASE ti_out /\ r /\ ti_modifies /\ t = TI!Refused(e)
    <2>1. t = [in |-> c.in, out |-> other, ro |-> r, told |-> c.told, ok |-> FALSE]
      BY <1>3, <1>6 DEF TI!Refused
    <2> QED
      BY <1>1, <1>2, <2>1 DEF TIGood, TIChoices
  <1>7. CASE ti_out /\ r /\ ti_modifies /\ a # other
             /\ t = [e EXCEPT !.in = a, !.told = other, !.ok = TRUE]
    <2>1. t = [in |-> a, out |-> other, ro |-> r, told |-> other, ok |-> TRUE]
      BY <1>3, <1>7
    <2>2. t \in TIChoices
      BY <1>2, <2>1 DEF TIChoices
    <2>3. t.in = a /\ t.out = other /\ t.told = other /\ t.ro = r
      BY <2>1
    <2> QED
      BY <1>2, <1>7, <2>2, <2>3 DEF TIGood
  <1>8. CASE ti_out /\ ~(r /\ ti_modifies) /\ t = TI!Refused(d)
    <2>1. t = [in |-> c.in, out |-> c.out, ro |-> r, told |-> c.told, ok |-> FALSE]
      BY <1>1, <1>8 DEF TI!Refused
    <2> QED
      BY <1>1, <2>1 DEF TIGood, TIChoices
  <1>9. CASE ti_out /\ ~(r /\ ti_modifies)
             /\ t = [d EXCEPT !.in = a, !.out = a, !.told = a, !.ok = TRUE]
    <2>1. t = [in |-> a, out |-> a, ro |-> r, told |-> a, ok |-> TRUE]
      BY <1>1, <1>9
    <2>2. t \in TIChoices
      BY <2>1 DEF TIChoices
    <2>3. t.in = a /\ t.out = a /\ t.told = a /\ t.ro = r
      BY <2>1
    <2>4. ~(ti_modifies /\ t.ro)
      BY <1>9, <2>3
    <2> QED
      BY <2>2, <2>3, <2>4 DEF TIGood
  <1> QED
    BY <1>4, <1>5, <1>6, <1>7, <1>8, <1>9

LEMMA TIDecide ==
  ASSUME TITypes, NEW c \in TIChoices, ti_out => c.out # "none", NEW r \in BOOLEAN,
         NEW t \in TI!DecideUpstream(c, r)
  PROVE  TIGood(t)
  <1> DEFINE tried == IF TI!CanOffer
                        THEN UNION {TI!NotifyAllocator(TI!WithOffer(c), TI!TheOffer, ro) : ro \in BOOLEAN}
                        ELSE {}
             left == {c} \cup {x \in tried : ~x.ok}
  <1>1. TI!DecideUpstream(c, r) = {x \in tried : x.ok} \cup UNION {TI!NotifyAllocator(l, "up", r) : l \in left}
    BY DEF TI!DecideUpstream
  <1>2. /\ TI!WithOffer(c) \in TIChoices /\ (ti_out => TI!WithOffer(c).out # "none")
        /\ TI!TheOffer \in TI!Allocators \ {"none"} /\ "up" \in TI!Allocators \ {"none"}
    <2>1. CASE ti_out
      BY <2>1 DEF TI!WithOffer, TI!TheOffer, TIChoices, TI!Allocators
    <2>2. CASE ~ti_out
      BY <2>2 DEF TI!WithOffer, TI!TheOffer, TIChoices, TI!Allocators
    <2> QED
      BY <2>1, <2>2
  <1>3. ASSUME NEW x \in tried PROVE TIGood(x)
    <2>1. PICK ro \in BOOLEAN : x \in TI!NotifyAllocator(TI!WithOffer(c), TI!TheOffer, ro)
      OBVIOUS
    <2> QED
      BY <1>2, <2>1, TINotify
  <1>4. ASSUME NEW l \in left PROVE l \in TIChoices /\ (ti_out => l.out # "none")
    BY <1>3 DEF TIGood
  <1> HIDE DEF tried, left
  <1>5. CASE t \in tried
    BY <1>3, <1>5
  <1>6. CASE t \notin tried
    <2>1. PICK l \in left : t \in TI!NotifyAllocator(l, "up", r)
      BY <1>1, <1>6
    <2> QED
      BY <1>2, <1>4, <2>1, TINotify
  <1> QED
    BY <1>5, <1>6

(* The input pin is connected, or left without an allocator.                *)
LEMMA TIConnects ==
  ASSUME TITypes, NEW c \in TIChoices, ti_out => c.out # "none",
         NEW r \in BOOLEAN, NEW differs \in BOOLEAN, TI!InputConnects(c, r, differs),
         UNCHANGED <<ti_modifies, ti_out, ti_offers>>, ti_upReadOnly' \in BOOLEAN
  PROVE  TIInv'
  <1>1. PICK d \in TI!DecideUpstream(c, r) :
          /\ ti_in' = d.ok
          /\ TI!Becomes(IF d.ok THEN d ELSE [d EXCEPT !.in = "none"])
          /\ ti_pendingIn' = FALSE
          /\ ti_pendingOut' = (ti_pendingOut \/ (ti_out /\ differs))
    BY DEF TI!InputConnects
  <1>2. TIGood(d)
    BY TIDecide
  <1>3. /\ d.in \in TI!Allocators /\ d.out \in TI!Allocators /\ d.told \in TI!Allocators
        /\ d.ro \in BOOLEAN /\ d.ok \in BOOLEAN /\ d \in TIChoices
    BY <1>2 DEF TIGood, TIChoices
  <1>4. /\ ti_inAlloc' = IF d.ok THEN d.in ELSE "none"
        /\ ti_outAlloc' = d.out /\ ti_readOnly' = d.ro /\ ti_told' = d.told
    <2>1. CASE d.ok
      BY <1>1, <2>1 DEF TI!Becomes
    <2>2. CASE ~d.ok
      BY <1>1, <1>3, <2>2 DEF TI!Becomes, TIChoices
    <2> QED
      BY <2>1, <2>2
  <1>5. ti_inAlloc' \in TI!Allocators
    BY <1>3, <1>4 DEF TI!Allocators
  <1>6. ti_pendingOut' \in BOOLEAN
    BY <1>1 DEF TITypes
  <1>7. TITypes'
    BY <1>1, <1>3, <1>4, <1>5, <1>6 DEF TITypes
  <1>8. TIPins'
    BY <1>1, <1>2, <1>3, <1>4 DEF TIGood, TIPins
  <1> QED
    BY <1>7, <1>8 DEF TIInv

LEMMA TIStep == TIInv /\ [TI!Next]_(TI!vars) => TIInv'
  <1> SUFFICES ASSUME TIInv, [TI!Next]_(TI!vars)
               PROVE  TIInv'
    OBVIOUS
  <1>0. TITypes /\ TIPins
    BY DEF TIInv
  <1>c. /\ TI!Choice \in TIChoices /\ (ti_out => TI!Choice.out # "none")
        /\ [TI!Choice EXCEPT !.in = "none"] \in TIChoices
        /\ (ti_out => [TI!Choice EXCEPT !.in = "none"].out # "none")
    BY <1>0 DEF TITypes, TIPins, TI!Choice, TIChoices, TI!Allocators
  <1>1. CASE TI!ConnectIn
    <2>1. PICK ro \in BOOLEAN, differs \in BOOLEAN :
            ti_upReadOnly' = ro /\ TI!InputConnects(TI!Choice, ro, differs)
      BY <1>1 DEF TI!ConnectIn
    <2> QED
      BY <1>0, <1>1, <1>c, <2>1, TIConnects DEF TI!ConnectIn
  <1>2. CASE TI!ReconnectIn
    <2>1. /\ TI!InputConnects([TI!Choice EXCEPT !.in = "none"], ti_upReadOnly, FALSE)
          /\ ti_upReadOnly \in BOOLEAN /\ ti_upReadOnly' \in BOOLEAN /\ FALSE \in BOOLEAN
          /\ UNCHANGED <<ti_modifies, ti_out, ti_offers>>
      BY <1>0, <1>2 DEF TI!ReconnectIn, TITypes
    <2> QED
      BY <1>0, <1>c, <2>1, TIConnects
  <1>3. ASSUME NEW has \in BOOLEAN, TI!OutputConnects(has), UNCHANGED <<ti_modifies, ti_in,
                                                                        ti_upReadOnly>>,
               ti_offers' \in BOOLEAN
        PROVE  TIInv'
    <2>1. /\ ti_outAlloc' \in {"own", "none", "down"} /\ ti_told' = ti_outAlloc'
          /\ ti_pendingOut' = FALSE /\ UNCHANGED <<ti_inAlloc, ti_readOnly>>
      BY <1>3 DEF TI!OutputConnects
    <2>2. ti_out' \in BOOLEAN /\ (ti_out' <=> ti_outAlloc' # "none")
      BY <1>3 DEF TI!OutputConnects
    <2>3. ti_pendingIn' \in BOOLEAN /\ (ti_out' /\ ti_in => ti_pendingIn')
      BY <1>0, <1>3, <2>2 DEF TI!OutputConnects, TITypes
    <2>4. ti_outAlloc' \in TI!Allocators /\ ti_told' \in TI!Allocators
      BY <2>1 DEF TI!Allocators
    <2>5. TITypes'
      BY <1>0, <1>3, <2>1, <2>2, <2>3, <2>4 DEF TITypes
    <2>6. TIPins'
      BY <1>0, <1>3, <2>1, <2>2, <2>3 DEF TIPins
    <2> QED
      BY <2>5, <2>6 DEF TIInv
  <1>4. CASE TI!ConnectOut
    BY <1>3, <1>4 DEF TI!ConnectOut
  <1>5. CASE TI!ReconnectOut
    <2>1. TI!OutputConnects(ti_offers)
          /\ UNCHANGED <<ti_modifies, ti_in, ti_upReadOnly, ti_offers>>
      BY <1>5 DEF TI!ReconnectOut
    <2> QED
      BY <1>0, <1>3, <2>1 DEF TITypes
  <1>6. CASE TI!DisconnectIn
    BY <1>0, <1>6 DEF TI!DisconnectIn, TIInv, TITypes, TIPins, TI!Allocators
  <1>7. CASE TI!DisconnectOut
    BY <1>0, <1>7 DEF TI!DisconnectOut, TIInv, TITypes, TIPins, TI!Allocators
  <1>8. CASE UNCHANGED TI!vars
    BY <1>0, <1>8 DEF TI!vars, TI!choice, TI!pending, TIInv, TITypes, TIPins
  <1> QED
    BY <1>1, <1>2, <1>4, <1>5, <1>6, <1>7, <1>8 DEF TI!Next

LEMMA TISafe == TIInv => TI!TypeOK /\ TI!CopiesWhenItMust
  <1>1. TIInv => TI!TypeOK
    BY DEF TIInv, TITypes, TI!TypeOK
  <1>2. TIInv => TI!CopiesWhenItMust
    BY DEF TIInv, TIPins, TI!CopiesWhenItMust, TI!AtRest, TI!UsingDifferentAllocators
  <1> QED
    BY <1>1, <1>2

-----------------------------------------------------------------------------
(***************************************************************************)
(* Deferred commands.  Each list is in the order of its commands' times, each*)
(* command once and in the list of its kind (CQOrdered), as long as no deleted*)
(* command has been used.                                                  *)
(***************************************************************************)

LEMMA CQAssumption ==
  cq_MaxTime \in Nat /\ cq_Offset \in Nat /\ CQ!NULL \notin cq_Cmds
  BY CommandAssumption DEF CQ!NULL

CQCommands == [time : Nat, stream : BOOLEAN, queue : BOOLEAN, refs : Int]

CQTypes ==
  /\ cq_now \in Nat
  /\ cq_cmd \in [cq_Cmds -> CQCommands]
  /\ cq_user \in [cq_Cmds -> {"none", "new", "held", "postponing", "done"}]
  /\ cq_lists \in [BOOLEAN -> Seq(cq_Cmds)]
  /\ cq_taken \in cq_Cmds \cup {CQ!NULL}
  /\ cq_pc \in {"look", "block", "wait", "got", "invoking"}
  /\ cq_taken = CQ!NULL <=> cq_pc \notin {"got", "invoking"}

\* A list has the commands of its kind, each once, in the order of their times.
CQOrdered(ls, cs) ==
  \A s \in BOOLEAN : \A i, j \in 1 .. Len(ls[s]) :
    /\ cs[ls[s][i]].stream = s
    /\ i < j => cs[ls[s][i]].time <= cs[ls[s][j]].time
    /\ ls[s][i] = ls[s][j] => i = j

\* A command that its user has in hand is in no list.
CQAway == \A c \in cq_Cmds : cq_user[c] \in {"none", "postponing"} => ~CQ!Queued(c)

\* Where a deleted command has been used the model stops, and so do the promises.
CQInv == CQTypes /\ (CQ!Works => CQOrdered(cq_lists, cq_cmd) /\ CQAway)

(* A set of naturals that is not empty has a least element.                 *)
LEMMA CQLeast ==
  ASSUME NEW n \in Nat, NEW T \in SUBSET (1 .. n), T # {}
  PROVE  \E i \in T : \A j \in T : i <= j
  <1> DEFINE R == OpToRel(<, Nat)
  <1>1. IsWellFoundedOn(R, Nat)
    BY NatLessThanWellFounded
  <1>2. T \subseteq Nat
    OBVIOUS
  <1>3. PICK i \in T : \A j \in T : ~ (<<j, i>> \in R)
    <2> HIDE DEF R
    <2> QED
      BY <1>1, <1>2, WFMin
  <1>4. ASSUME NEW j \in T, j < i PROVE FALSE
    <2>1. <<j, i>> \in R
      BY <1>2, <1>4 DEF OpToRel
    <2> QED
      BY <1>3, <2>1
  <1> QED
    BY <1>2, <1>4

LEMMA CQStart == CQ!Init => CQInv
  <1> SUFFICES ASSUME CQ!Init PROVE CQInv
    OBVIOUS
  <1>1. CQTypes
    <2>1. /\ cq_now \in Nat /\ cq_taken = CQ!NULL /\ cq_pc = "look"
          /\ cq_lists \in [BOOLEAN -> Seq(cq_Cmds)]
          /\ cq_user \in [cq_Cmds -> {"none", "new", "held", "postponing", "done"}]
      BY DEF CQ!Init
    <2>2. cq_cmd \in [cq_Cmds -> CQCommands]
      BY DEF CQ!Init, CQ!NotMade, CQCommands
    <2> QED
      BY <2>1, <2>2 DEF CQTypes
  <1>2. \A s \in BOOLEAN : Len(cq_lists[s]) = 0
    BY DEF CQ!Init
  <1>3. CQOrdered(cq_lists, cq_cmd) /\ CQAway
    BY <1>2 DEF CQOrdered, CQAway, CQ!Queued
  <1> QED
    BY <1>1, <1>3 DEF CQInv

(* A command goes in behind those of its time.                              *)
LEMMA CQInserted ==
  ASSUME NEW s \in Seq(cq_Cmds), NEW cs \in [cq_Cmds -> CQCommands], NEW c \in cq_Cmds,
         \A i, j \in 1 .. Len(s) : /\ i < j => cs[s[i]].time <= cs[s[j]].time
                                   /\ s[i] = s[j] => i = j,
         \A i \in 1 .. Len(s) : s[i] # c,
         NEW t, t = CQ!Inserted(s, cs, c)
  PROVE  /\ t \in Seq(cq_Cmds)
         /\ \A i \in 1 .. Len(t) : t[i] = c \/ \E j \in 1 .. Len(s) : t[i] = s[j]
         /\ \A i, j \in 1 .. Len(t) : /\ i < j => cs[t[i]].time <= cs[t[j]].time
                                      /\ t[i] = t[j] => i = j
  <1>0. \A d \in cq_Cmds : cs[d].time \in Nat
    BY DEF CQCommands
  <1> DEFINE later == {i \in 1 .. Len(s) : cs[s[i]].time > cs[c].time}
             at == IF later = {} THEN Len(s) + 1 ELSE CHOOSE i \in later : \A j \in later : i <= j
             u == [i \in 1 .. (Len(s) + 1) |->
                     IF i < at THEN s[i] ELSE IF i = at THEN c ELSE s[i - 1]]
  <1>a. /\ later \subseteq 1 .. Len(s)
        /\ \A i \in 1 .. Len(s) : i \in later <=> cs[s[i]].time > cs[c].time
    OBVIOUS
  <1>b. /\ later = {} => at = Len(s) + 1
        /\ later # {} => at = CHOOSE i \in later : \A j \in later : i <= j
    OBVIOUS
  <1>c. \A i \in 1 .. Len(s) : cs[s[i]].time \in Nat /\ cs[c].time \in Nat
    BY <1>0
  <1>2. t = u
    BY DEF CQ!Inserted
  <1> HIDE DEF later, at
  <1>d. later # {} => at \in later /\ \A j \in later : at <= j
    <2> SUFFICES ASSUME later # {} PROVE at \in later /\ \A j \in later : at <= j
      OBVIOUS
    <2>1. Len(s) \in Nat
      OBVIOUS
    <2>2. \E i \in later : \A j \in later : i <= j
      BY <1>a, <2>1, CQLeast
    <2> QED
      BY <1>b, <2>2
  <1>1. at \in 1 .. (Len(s) + 1) /\ (\A i \in 1 .. Len(s) : i < at => cs[s[i]].time <= cs[c].time)
        /\ (at <= Len(s) => cs[s[at]].time > cs[c].time)
    <2>1. CASE later = {}
      BY <1>a, <1>b, <1>c, <2>1
    <2>2. CASE later # {}
      <3>1. at \in 1 .. Len(s) /\ at \in later
        BY <1>a, <1>d, <2>2
      <3>2. cs[s[at]].time > cs[c].time
        BY <1>a, <3>1
      <3>3. ASSUME NEW i \in 1 .. Len(s), i < at PROVE cs[s[i]].time <= cs[c].time
        <4>1. i \notin later
          BY <1>d, <2>2, <3>1, <3>3
        <4> QED
          BY <1>a, <1>c, <4>1
      <3> QED
        BY <3>1, <3>2, <3>3
    <2> QED
      BY <2>1, <2>2
  <1>3. t \in Seq(cq_Cmds) /\ Len(t) = Len(s) + 1
    BY <1>1, <1>2
  <1>4. \A i \in 1 .. Len(t) : /\ i < at => i \in 1 .. Len(s) /\ t[i] = s[i]
                               /\ i = at => t[i] = c
                               /\ i > at => i - 1 \in 1 .. Len(s) /\ t[i] = s[i - 1]
    BY <1>1, <1>2, <1>3
  <1> HIDE DEF u
  <1>5. ASSUME NEW i \in 1 .. Len(t) PROVE t[i] = c \/ \E j \in 1 .. Len(s) : t[i] = s[j]
    <2>1. i < at \/ i = at \/ i > at
      BY <1>1, <1>3
    <2> QED
      BY <1>4, <2>1
  <1> DEFINE T == [k \in 1 .. Len(s) |-> cs[s[k]].time]
  <1>e. /\ \A k \in 1 .. Len(s) : T[k] \in Nat
        /\ cs[c].time \in Nat
        /\ \A j, k \in 1 .. Len(s) : j <= k => T[j] <= T[k]
    <2>1. ASSUME NEW j \in 1 .. Len(s), NEW k \in 1 .. Len(s), j <= k PROVE T[j] <= T[k]
      <3>1. CASE j = k
        BY <1>c, <3>1
      <3>2. CASE j < k
        BY <3>2
      <3> QED
        BY <2>1, <3>1, <3>2
    <2>2. \A k \in 1 .. Len(s) : T[k] \in Nat
      BY <1>c
    <2> HIDE DEF T
    <2> QED
      BY <1>0, <2>1, <2>2
  <1>f. /\ \A k \in 1 .. Len(s) : k < at => T[k] <= cs[c].time
        /\ \A k \in 1 .. Len(s) : k >= at => T[k] > cs[c].time
    BY <1>1, <1>e
  <1>g. \A i \in 1 .. Len(t) : /\ i < at => cs[t[i]].time = T[i]
                               /\ i = at => cs[t[i]].time = cs[c].time
                               /\ i > at => cs[t[i]].time = T[i - 1]
    BY <1>4
  <1> HIDE DEF T
  <1>6. ASSUME NEW i \in 1 .. Len(t), NEW j \in 1 .. Len(t), i < j
        PROVE  cs[t[i]].time <= cs[t[j]].time
    <2>1. CASE j < at
      <3>1. i < at /\ i \in 1 .. Len(s) /\ j \in 1 .. Len(s)
        BY <1>1, <1>3, <1>4, <1>6, <2>1
      <3>2. T[i] <= T[j]
        BY <1>e, <1>6, <3>1
      <3> QED
        BY <1>g, <2>1, <3>1, <3>2
    <2>2. CASE j = at
      BY <1>1, <1>3, <1>4, <1>6, <1>f, <1>g, <2>2
    <2>3. CASE j > at
      <3>1. j - 1 \in 1 .. Len(s) /\ cs[t[j]].time = T[j - 1]
        BY <1>4, <1>g, <2>3
      <3>2. CASE i < at
        BY <1>1, <1>3, <1>4, <1>6, <1>e, <1>g, <3>1, <3>2
      <3>3. CASE i = at
        BY <1>1, <1>3, <1>4, <1>6, <1>e, <1>f, <1>g, <3>1, <3>3
      <3>4. CASE i > at
        <4>1. i - 1 \in 1 .. Len(s) /\ cs[t[i]].time = T[i - 1]
          BY <1>4, <1>g, <3>4
        <4>2. i - 1 <= j - 1
          BY <1>3, <1>6
        <4> QED
          BY <1>e, <3>1, <4>1, <4>2
      <3> QED
        BY <1>1, <1>3, <3>2, <3>3, <3>4
    <2> QED
      BY <1>1, <1>3, <2>1, <2>2, <2>3
  <1>7. ASSUME NEW i \in 1 .. Len(t), NEW j \in 1 .. Len(t), t[i] = t[j]
        PROVE  i = j
    <2>1. CASE i = at
      <3>1. j < at \/ j = at \/ j > at
        BY <1>1, <1>3
      <3> QED
        BY <1>4, <1>7, <2>1, <3>1
    <2>3. CASE j = at
      <3>1. i < at \/ i = at \/ i > at
        BY <1>1, <1>3
      <3> QED
        BY <1>4, <1>7, <2>3, <3>1
    <2>2. CASE i # at /\ j # at
      <3> DEFINE I == IF i < at THEN i ELSE i - 1
                 J == IF j < at THEN j ELSE j - 1
      <3>1. I \in 1 .. Len(s) /\ J \in 1 .. Len(s) /\ t[i] = s[I] /\ t[j] = s[J]
        BY <1>1, <1>3, <1>4, <2>2
      <3>2. I = J => i = j
        BY <1>1, <1>3, <2>2
      <3> HIDE DEF I, J
      <3> QED
        BY <1>7, <3>1, <3>2
    <2> QED
      BY <2>1, <2>2, <2>3
  <1> QED
    BY <1>2, <1>3, <1>5, <1>6, <1>7

(* What is left when a command is taken off its list.                       *)
LEMMA CQTakenOff ==
  ASSUME NEW s \in Seq(cq_Cmds), NEW cs \in [cq_Cmds -> CQCommands], NEW c \in cq_Cmds,
         \A i, j \in 1 .. Len(s) : /\ i < j => cs[s[i]].time <= cs[s[j]].time
                                   /\ s[i] = s[j] => i = j,
         \E i \in 1 .. Len(s) : s[i] = c,
         NEW t, t = CQ!TakenOff(s, c)
  PROVE  /\ t \in Seq(cq_Cmds)
         /\ \A i \in 1 .. Len(t) : t[i] # c /\ \E j \in 1 .. Len(s) : t[i] = s[j]
         /\ \A i, j \in 1 .. Len(t) : /\ i < j => cs[t[i]].time <= cs[t[j]].time
                                      /\ t[i] = t[j] => i = j
  <1>0. \A d \in cq_Cmds : cs[d].time \in Nat
    BY DEF CQCommands
  <1> DEFINE at == CHOOSE i \in 1 .. Len(s) : s[i] = c
             u == [i \in 1 .. (Len(s) - 1) |-> IF i < at THEN s[i] ELSE s[i + 1]]
             from == [i \in 1 .. Len(s) |-> IF i < at THEN i ELSE i + 1]
             n == Len(s)
  <1>1. t = u
    BY DEF CQ!TakenOff
  <1>2. at \in 1 .. n /\ s[at] = c
    OBVIOUS
  <1>a. n \in Nat
    OBVIOUS
  <1> HIDE DEF at
  <1>3. \A i \in 1 .. (n - 1) : from[i] \in 1 .. n /\ from[i] # at /\ t[i] = s[from[i]]
    BY <1>1, <1>2, <1>a
  <1>b. \A i, j \in 1 .. (n - 1) : /\ i < j => from[i] < from[j]
                                   /\ from[i] = from[j] => i = j
    BY <1>2, <1>a
  <1>4. t \in Seq(cq_Cmds) /\ Len(t) = n - 1
    BY <1>1, <1>2, <1>a
  <1> HIDE DEF u, from
  <1>5. \A i \in 1 .. Len(t) : t[i] # c /\ \E j \in 1 .. Len(s) : t[i] = s[j]
    BY <1>2, <1>3, <1>4
  <1>6. ASSUME NEW i \in 1 .. Len(t), NEW j \in 1 .. Len(t)
        PROVE  /\ i < j => cs[t[i]].time <= cs[t[j]].time
               /\ t[i] = t[j] => i = j
    <2>3. i \in 1 .. (n - 1) /\ j \in 1 .. (n - 1)
      BY <1>4
    <2>1. /\ from[i] \in 1 .. Len(s) /\ from[j] \in 1 .. Len(s)
          /\ t[i] = s[from[i]] /\ t[j] = s[from[j]]
      BY <1>3, <2>3
    <2>4. (i < j => from[i] < from[j]) /\ (from[i] = from[j] => i = j)
      BY <1>3, <1>b, <2>3, <1>a
    <2>2. cs[s[from[i]]].time \in Nat /\ cs[s[from[j]]].time \in Nat
      BY <1>0, <2>1
    <2> HIDE DEF n
    <2> QED
      BY <2>1, <2>2, <2>4
  <1> HIDE DEF n
  <1> QED
    BY <1>1, <1>4, <1>5, <1>6

(* A command that is in a list once is no longer in it.                     *)
LEMMA CQTakenOnce ==
  ASSUME NEW s \in Seq(cq_Cmds), NEW c \in cq_Cmds,
         \A i, j \in 1 .. Len(s) : s[i] = s[j] => i = j,
         \E i \in 1 .. Len(s) : s[i] = c
  PROVE  \A i, j \in 1 .. Len(CQ!TakenOff(s, c)) : CQ!TakenOff(s, c)[i] = CQ!TakenOff(s, c)[j] => i = j
  <1> DEFINE at == CHOOSE i \in 1 .. Len(s) : s[i] = c
             t == CQ!TakenOff(s, c)
             n == Len(s)
  <1>1. t = [i \in 1 .. (n - 1) |-> IF i < at THEN s[i] ELSE s[i + 1]]
    BY DEF CQ!TakenOff
  <1>2. at \in 1 .. n /\ n \in Nat
    OBVIOUS
  <1> HIDE DEF at, t
  <1>3. Len(t) = n - 1
    BY <1>1, <1>2
  <1>4. ASSUME NEW i \in 1 .. (n - 1), NEW j \in 1 .. (n - 1), t[i] = t[j] PROVE i = j
    <2>1. /\ i \in 1 .. n /\ i + 1 \in 1 .. n /\ t[i] = IF i < at THEN s[i] ELSE s[i + 1]
          /\ j \in 1 .. n /\ j + 1 \in 1 .. n /\ t[j] = IF j < at THEN s[j] ELSE s[j + 1]
      BY <1>1, <1>2
    <2>2. CASE i < at /\ j < at
      BY <1>4, <2>1, <2>2
    <2>3. CASE i < at /\ ~(j < at)
      <3>1. i = j + 1
        BY <1>4, <2>1, <2>3
      <3> QED
        BY <1>2, <2>3, <3>1
    <2>4. CASE ~(i < at) /\ j < at
      <3>1. i + 1 = j
        BY <1>4, <2>1, <2>4
      <3> QED
        BY <1>2, <2>4, <3>1
    <2>5. CASE ~(i < at) /\ ~(j < at)
      <3>1. i + 1 = j + 1
        BY <1>4, <2>1, <2>5
      <3> QED
        BY <3>1
    <2> QED
      BY <2>2, <2>3, <2>4, <2>5
  <1>5. \A i, j \in 1 .. Len(t) : t[i] = t[j] => i = j
    BY <1>3, <1>4
  <1> QED
    BY <1>5 DEF t

(* The order of the lists is about the commands in them.                    *)
LEMMA CQKept ==
  ASSUME NEW ls \in [BOOLEAN -> Seq(cq_Cmds)], NEW cs, NEW new, CQOrdered(ls, cs),
         \A s \in BOOLEAN : \A i \in 1 .. Len(ls[s]) :
           new[ls[s][i]].stream = cs[ls[s][i]].stream
           /\ new[ls[s][i]].time = cs[ls[s][i]].time
  PROVE  CQOrdered(ls, new)
  BY DEF CQOrdered

LEMMA CQReleased ==
  ASSUME NEW r \in CQCommands, NEW n \in Nat
  PROVE  /\ CQ!Released(r, n) \in CQCommands
         /\ CQ!Released(r, n).refs > 0 => CQ!Released(r, n).stream = r.stream /\ CQ!Released(r, n).time = r.time
  <1>1. CQ!NotMade \in CQCommands /\ CQ!NotMade.refs = 0
    BY DEF CQ!NotMade, CQCommands
  <1>2. /\ [r EXCEPT !.refs = @ - n] \in CQCommands
        /\ [r EXCEPT !.refs = @ - n].stream = r.stream
        /\ [r EXCEPT !.refs = @ - n].time = r.time
    BY DEF CQCommands
  <1> QED
    BY <1>1, <1>2 DEF CQ!Released

(* A method that leaves the lists alone.                                    *)
LEMMA CQStays ==
  ASSUME CQTypes, CQ!Works, CQInv, cq_lists' = cq_lists, cq_cmd' \in [cq_Cmds -> CQCommands],
         \A c \in cq_Cmds : cq_cmd'[c].refs > 0 => cq_cmd'[c].stream = cq_cmd[c].stream /\ cq_cmd'[c].time = cq_cmd[c].time,
         \A c \in cq_Cmds : cq_user'[c] \in {"none", "postponing"} => cq_user[c] \in {"none", "postponing"}
  PROVE  CQ!Works' => CQOrdered(cq_lists, cq_cmd)' /\ CQAway'
  <1> SUFFICES ASSUME CQ!Works' PROVE CQOrdered(cq_lists', cq_cmd') /\ CQAway'
    OBVIOUS
  <1>1. cq_lists \in [BOOLEAN -> Seq(cq_Cmds)] /\ CQOrdered(cq_lists, cq_cmd) /\ CQAway
    BY DEF CQTypes, CQInv
  <1>2. \A c \in cq_Cmds : CQ!Queued(c)' <=> CQ!Queued(c)
    BY DEF CQ!Queued
  <1>3. CQAway'
    BY <1>1, <1>2 DEF CQAway
  <1>4. ASSUME NEW s \in BOOLEAN, NEW i \in 1 .. Len(cq_lists[s])
        PROVE  cq_cmd'[cq_lists[s][i]].stream = cq_cmd[cq_lists[s][i]].stream
               /\ cq_cmd'[cq_lists[s][i]].time = cq_cmd[cq_lists[s][i]].time
    <2>1. cq_lists[s][i] \in cq_Cmds
      BY <1>1
    <2>2. CQ!Queued(cq_lists[s][i])'
      BY DEF CQ!Queued
    <2>3. cq_cmd'[cq_lists[s][i]].refs > 0
      BY <2>1, <2>2 DEF CQ!Works, CQ!Held, CQ!Alive
    <2> QED
      BY <2>1, <2>3
  <1>5. CQOrdered(cq_lists, cq_cmd')
    BY <1>1, <1>4, CQKept
  <1> QED
    BY <1>3, <1>5

(* Insert of a command that is in no list.                                  *)
LEMMA CQInsert ==
  ASSUME NEW cs \in [cq_Cmds -> CQCommands], NEW c \in cq_Cmds, CQTypes, CQOrdered(cq_lists, cs), ~CQ!Queued(c),
         CQ!Insert(cs, c)
  PROVE  /\ cq_lists' \in [BOOLEAN -> Seq(cq_Cmds)] /\ cq_cmd' \in [cq_Cmds -> CQCommands]
         /\ CQOrdered(cq_lists', cq_cmd')
         /\ \A d \in cq_Cmds : CQ!Queued(d)' => d = c \/ CQ!Queued(d)
  <1> DEFINE k == cs[c].stream
             l == cq_lists[k]
             t == cq_lists'[k]
  <1>1. cq_lists \in [BOOLEAN -> Seq(cq_Cmds)] /\ k \in BOOLEAN
        /\ cq_lists' = [cq_lists EXCEPT ![k] = CQ!Inserted(l, cs, c)]
        /\ t = CQ!Inserted(l, cs, c)
    BY DEF CQTypes, CQCommands, CQ!Insert
  <1>2. l \in Seq(cq_Cmds) /\ \A d \in cq_Cmds : cs[d].time \in Nat
    BY <1>1 DEF CQCommands
  <1>3. \A i, j \in 1 .. Len(l) : /\ i < j => cs[l[i]].time <= cs[l[j]].time
                                  /\ l[i] = l[j] => i = j
    BY <1>1 DEF CQOrdered
  <1>4. \A i \in 1 .. Len(l) : l[i] # c
    BY <1>1 DEF CQ!Queued
  <1>5. /\ t \in Seq(cq_Cmds)
        /\ \A i \in 1 .. Len(t) : t[i] = c \/ \E j \in 1 .. Len(l) : t[i] = l[j]
        /\ \A i, j \in 1 .. Len(t) : /\ i < j => cs[t[i]].time <= cs[t[j]].time
                                     /\ t[i] = t[j] => i = j
    <2> HIDE DEF l, t
    <2>1. l \in Seq(cq_Cmds)
      BY <1>2
    <2> QED
      <3>1. t = CQ!Inserted(l, cs, c)
        BY <1>1
      <3> QED
        BY <2>1, <1>3, <1>4, <3>1, CQInserted
  <1> HIDE DEF t
  <1>6. cq_lists' \in [BOOLEAN -> Seq(cq_Cmds)] /\ cq_lists'[k] = t /\ \A s \in BOOLEAN : s # k => cq_lists'[s] = cq_lists[s]
    BY <1>1, <1>5
  <1>7. /\ cq_cmd' \in [cq_Cmds -> CQCommands]
        /\ \A d \in cq_Cmds : cq_cmd'[d].stream = cs[d].stream /\ cq_cmd'[d].time = cs[d].time
    <2>1. cq_cmd' = [cs EXCEPT ![c] = [cs[c] EXCEPT !.refs = @ + 1]]
      BY DEF CQ!Insert
    <2>2. /\ [cs[c] EXCEPT !.refs = @ + 1] \in CQCommands
          /\ [cs[c] EXCEPT !.refs = @ + 1].stream = cs[c].stream
          /\ [cs[c] EXCEPT !.refs = @ + 1].time = cs[c].time
      BY DEF CQCommands
    <2> QED
      BY <2>1, <2>2
  <1>8. \A d \in cq_Cmds : CQ!Queued(d)' => d = c \/ CQ!Queued(d)
    <2> SUFFICES ASSUME NEW d \in cq_Cmds, NEW s \in BOOLEAN, NEW i \in 1 .. Len(cq_lists'[s]), cq_lists'[s][i] = d
                 PROVE  d = c \/ CQ!Queued(d)
      BY DEF CQ!Queued
    <2>1. CASE s # k
      BY <1>6, <2>1 DEF CQ!Queued
    <2>2. CASE s = k
      <3>1. t[i] = c \/ \E q \in 1 .. Len(l) : t[i] = l[q]
        BY <1>5, <1>6, <2>2
      <3> QED
        BY <1>1, <1>6, <2>2, <3>1 DEF CQ!Queued
    <2> QED
      BY <2>1, <2>2
  <1>9. CQOrdered(cq_lists', cs)
    <2> SUFFICES ASSUME NEW s \in BOOLEAN, NEW i \in 1 .. Len(cq_lists'[s]), NEW j \in 1 .. Len(cq_lists'[s])
                 PROVE  /\ cs[cq_lists'[s][i]].stream = s
                        /\ i < j => cs[cq_lists'[s][i]].time <= cs[cq_lists'[s][j]].time
                        /\ cq_lists'[s][i] = cq_lists'[s][j] => i = j
      BY DEF CQOrdered
    <2>1. CASE s # k
      BY <1>6, <2>1 DEF CQOrdered
    <2>2. CASE s = k
      <3>1. cs[cq_lists'[s][i]].stream = s
        <4>1. t[i] = c \/ \E q \in 1 .. Len(l) : t[i] = l[q]
          BY <1>5, <1>6, <2>2
        <4>2. \A q \in 1 .. Len(l) : cs[l[q]].stream = k
          BY <1>1 DEF CQOrdered
        <4> QED
          BY <1>6, <2>2, <4>1, <4>2
      <3> HIDE DEF k
      <3> QED
        BY <1>5, <1>6, <2>2, <3>1
    <2> QED
      BY <2>1, <2>2
  <1>10. CQOrdered(cq_lists', cq_cmd')
    <2>1. \A s \in BOOLEAN : \A i \in 1 .. Len(cq_lists'[s]) : cq_lists'[s][i] \in cq_Cmds
      BY <1>6
    <2> QED
      BY <1>6, <1>7, <1>9, <2>1, CQKept
  <1> QED
    BY <1>6, <1>7, <1>8, <1>10

(* Remove of a command that is in its list; what is known of the new state is *)
(* known as long as no command that is used has been deleted.                 *)
LEMMA CQRemove ==
  ASSUME NEW cs \in [cq_Cmds -> CQCommands], NEW c \in cq_Cmds, NEW drop \in Nat,
         CQTypes, CQOrdered(cq_lists, cq_cmd), CQ!Queued(c), CQ!RemoveCmd(c, drop, cs),
         \A d \in cq_Cmds : d # c => cs[d] = cq_cmd[d], cs[c].stream = cq_cmd[c].stream
  PROVE  /\ cq_lists' \in [BOOLEAN -> Seq(cq_Cmds)] /\ cq_cmd' \in [cq_Cmds -> CQCommands]
         /\ CQOrdered(cq_lists', cq_cmd')
         /\ \A d \in cq_Cmds : CQ!Queued(d)' => d # c /\ CQ!Queued(d)
  <1> DEFINE k == cs[c].stream
             l == cq_lists[k]
             t == cq_lists'[k]
  <1>1. cq_lists \in [BOOLEAN -> Seq(cq_Cmds)] /\ k \in BOOLEAN
        /\ cq_lists' = [cq_lists EXCEPT ![k] = CQ!TakenOff(l, c)]
        /\ t = CQ!TakenOff(l, c) /\ cq_cmd \in [cq_Cmds -> CQCommands]
    BY DEF CQTypes, CQCommands, CQ!RemoveCmd
  <1>2. l \in Seq(cq_Cmds)
    BY <1>1
  <1>3. \A i, j \in 1 .. Len(l) : /\ i < j => cq_cmd[l[i]].time <= cq_cmd[l[j]].time
                                  /\ l[i] = l[j] => i = j
    BY <1>1 DEF CQOrdered
  <1>4. /\ \E i \in 1 .. Len(l) : l[i] = c
        /\ \A s \in BOOLEAN : s # k => \A i \in 1 .. Len(cq_lists[s]) : cq_lists[s][i] # c
    <2>1. \A s \in BOOLEAN : \A i \in 1 .. Len(cq_lists[s]) : cq_lists[s][i] = c => s = k
      BY DEF CQOrdered
    <2>2. PICK s \in BOOLEAN : \E i \in 1 .. Len(cq_lists[s]) : cq_lists[s][i] = c
      BY DEF CQ!Queued
    <2> QED
      BY <2>1, <2>2
  <1>5. /\ t \in Seq(cq_Cmds)
        /\ \A i \in 1 .. Len(t) : t[i] # c /\ \E j \in 1 .. Len(l) : t[i] = l[j]
        /\ \A i, j \in 1 .. Len(t) : /\ i < j => cq_cmd[t[i]].time <= cq_cmd[t[j]].time
                                     /\ t[i] = t[j] => i = j
    <2> HIDE DEF l, t
    <2>1. t = CQ!TakenOff(l, c)
      BY <1>1
    <2>2. \E i \in 1 .. Len(l) : l[i] = c
      BY <1>4
    <2>3. cq_cmd \in [cq_Cmds -> CQCommands]
      BY <1>1
    <2>4. /\ CQ!TakenOff(l, c) \in Seq(cq_Cmds)
          /\ \A i \in 1 .. Len(CQ!TakenOff(l, c)) : /\ CQ!TakenOff(l, c)[i] # c
                                                  /\ \E j \in 1 .. Len(l) : CQ!TakenOff(l, c)[i] = l[j]
      BY <1>2, <1>3, <2>2, <2>3, CQTakenOff
    <2>5. \A i, j \in 1 .. Len(CQ!TakenOff(l, c)) : CQ!TakenOff(l, c)[i] = CQ!TakenOff(l, c)[j] => i = j
      <3>1. \A i, j \in 1 .. Len(l) : l[i] = l[j] => i = j
        BY <1>3
      <3> QED
        BY <1>2, <2>2, <3>1, CQTakenOnce
    <2>6. \A i, j \in 1 .. Len(CQ!TakenOff(l, c)) :
            i < j => cq_cmd[CQ!TakenOff(l, c)[i]].time <= cq_cmd[CQ!TakenOff(l, c)[j]].time
      BY <1>2, <1>3, <2>2, <2>3, CQTakenOff
    <2> QED
      BY <2>1, <2>4, <2>5, <2>6
  <1> HIDE DEF t
  <1>6. cq_lists' \in [BOOLEAN -> Seq(cq_Cmds)] /\ cq_lists'[k] = t /\ \A s \in BOOLEAN : s # k => cq_lists'[s] = cq_lists[s]
    BY <1>1, <1>5
  <1>7. cq_cmd' \in [cq_Cmds -> CQCommands] /\ \A d \in cq_Cmds : d # c => cq_cmd'[d] = cq_cmd[d]
    <2>1. cq_cmd' = [cs EXCEPT ![c] = CQ!Released(cs[c], 1 + drop)]
      BY DEF CQ!RemoveCmd
    <2>2. CQ!Released(cs[c], 1 + drop) \in CQCommands
      BY CQReleased
    <2> QED
      BY <2>1, <2>2
  <1>8. \A s \in BOOLEAN : \A i \in 1 .. Len(cq_lists'[s]) :
          cq_lists'[s][i] # c
          /\ \E j \in 1 .. Len(cq_lists[s]) : cq_lists'[s][i] = cq_lists[s][j]
    <2> SUFFICES ASSUME NEW s \in BOOLEAN, NEW i \in 1 .. Len(cq_lists'[s])
                 PROVE  cq_lists'[s][i] # c
                        /\ \E j \in 1 .. Len(cq_lists[s]) : cq_lists'[s][i] = cq_lists[s][j]
      OBVIOUS
    <2>1. CASE s # k
      BY <1>4, <1>6, <2>1
    <2>2. CASE s = k
      BY <1>5, <1>6, <2>2
    <2> QED
      BY <2>1, <2>2
  <1>9. CQOrdered(cq_lists', cq_cmd)
    <2> SUFFICES ASSUME NEW s \in BOOLEAN, NEW i \in 1 .. Len(cq_lists'[s]), NEW j \in 1 .. Len(cq_lists'[s])
                 PROVE  /\ cq_cmd[cq_lists'[s][i]].stream = s
                        /\ i < j => cq_cmd[cq_lists'[s][i]].time <= cq_cmd[cq_lists'[s][j]].time
                        /\ cq_lists'[s][i] = cq_lists'[s][j] => i = j
      BY DEF CQOrdered
    <2>1. cq_cmd[cq_lists'[s][i]].stream = s
      BY <1>8 DEF CQOrdered
    <2>2. CASE s # k
      BY <1>6, <2>1, <2>2 DEF CQOrdered
    <2>3. CASE s = k
      <3> HIDE DEF k
      <3> QED
        BY <1>5, <1>6, <2>1, <2>3
    <2> QED
      BY <2>2, <2>3
  <1>10. CQOrdered(cq_lists', cq_cmd')
    <2>1. \A s \in BOOLEAN : \A i \in 1 .. Len(cq_lists'[s]) : cq_lists'[s][i] \in cq_Cmds /\ cq_lists'[s][i] # c
      BY <1>6, <1>8
    <2>2. \A s \in BOOLEAN : \A i \in 1 .. Len(cq_lists'[s]) : /\ cq_cmd'[cq_lists'[s][i]].stream = cq_cmd[cq_lists'[s][i]].stream
                                                              /\ cq_cmd'[cq_lists'[s][i]].time = cq_cmd[cq_lists'[s][i]].time
      BY <1>7, <2>1
    <2> QED
      BY <1>6, <1>9, <2>2, CQKept
  <1>11. \A d \in cq_Cmds : CQ!Queued(d)' => d # c /\ CQ!Queued(d)
    BY <1>8 DEF CQ!Queued
  <1> QED
    BY <1>6, <1>7, <1>10, <1>11

(* The methods of the users.                                                *)
LEMMA CQNew ==
  ASSUME CQInv, CQ!Works, NEW c \in cq_Cmds, CQ!New(c)
  PROVE  CQInv'
  <1>1. CQTypes /\ CQOrdered(cq_lists, cq_cmd) /\ CQAway /\ cq_user[c] = "none"
    BY DEF CQInv, CQ!New
  <1>2. PICK t \in CQ!Times, stream \in BOOLEAN :
          CQ!Insert([cq_cmd EXCEPT ![c] = CQ!NewCommand(t, stream)], c)
    BY DEF CQ!New
  <1> DEFINE cs == [cq_cmd EXCEPT ![c] = CQ!NewCommand(t, stream)]
  <1>3. cs \in [cq_Cmds -> CQCommands] /\ \A d \in cq_Cmds : d # c => cs[d] = cq_cmd[d]
    <2>1. CQ!NewCommand(t, stream) \in CQCommands
      BY CQAssumption DEF CQ!NewCommand, CQCommands, CQ!Times
    <2> QED
      BY <1>1, <2>1 DEF CQTypes
  <1>4. ~ CQ!Queued(c)
    BY <1>1 DEF CQAway
  <1>5. CQOrdered(cq_lists, cs)
    <2>1. cq_lists \in [BOOLEAN -> Seq(cq_Cmds)]
      BY <1>1 DEF CQTypes
    <2>2. \A s \in BOOLEAN : \A i \in 1 .. Len(cq_lists[s]) : cq_lists[s][i] \in cq_Cmds /\ cq_lists[s][i] # c
      BY <1>4, <2>1 DEF CQ!Queued
    <2> HIDE DEF cs
    <2> QED
      BY <1>1, <1>3, <2>1, <2>2, CQKept
  <1>6. CQ!Insert(cs, c)
    BY <1>2
  <1> HIDE DEF cs
  <1>7. /\ cq_lists' \in [BOOLEAN -> Seq(cq_Cmds)] /\ cq_cmd' \in [cq_Cmds -> CQCommands]
        /\ CQOrdered(cq_lists', cq_cmd')
        /\ \A d \in cq_Cmds : CQ!Queued(d)' => d = c \/ CQ!Queued(d)
    BY <1>1, <1>3, <1>4, <1>5, <1>6, CQInsert
  <1>8. CQTypes'
    BY <1>1, <1>7 DEF CQTypes, CQ!New
  <1>9. CQAway'
    <2>1. \A d \in cq_Cmds : cq_user'[d] = IF d = c THEN "new" ELSE cq_user[d]
      BY <1>1 DEF CQ!New, CQTypes
    <2> QED
      BY <1>1, <1>7, <2>1 DEF CQAway
  <1> QED
    BY <1>7, <1>8, <1>9 DEF CQInv

LEMMA CQKeepOrForget ==
  ASSUME CQInv, CQ!Works, NEW c \in cq_Cmds, CQ!Keep(c) \/ CQ!Forget(c)
  PROVE  CQInv'
  <1>1. CQTypes
    BY DEF CQInv
  <1>2. /\ cq_lists' = cq_lists /\ cq_now' = cq_now /\ cq_taken' = cq_taken
        /\ cq_pc' = cq_pc
        /\ \/ cq_user' = [cq_user EXCEPT ![c] = "held"]
           \/ cq_user' = [cq_user EXCEPT ![c] = "done"]
        /\ \/ cq_cmd' = [cq_cmd EXCEPT ![c] = [cq_cmd[c] EXCEPT !.refs = @ + 1]]
           \/ cq_cmd' = [cq_cmd EXCEPT ![c] = CQ!Released(cq_cmd[c], 1)]
    BY DEF CQ!Keep, CQ!Forget
  <1>3. /\ cq_cmd' \in [cq_Cmds -> CQCommands]
        /\ \A d \in cq_Cmds : cq_cmd'[d].refs > 0 => cq_cmd'[d].stream = cq_cmd[d].stream /\ cq_cmd'[d].time = cq_cmd[d].time
    <2>1. cq_cmd \in [cq_Cmds -> CQCommands]
      BY <1>1 DEF CQTypes
    <2>2. /\ [cq_cmd[c] EXCEPT !.refs = @ + 1] \in CQCommands
          /\ [cq_cmd[c] EXCEPT !.refs = @ + 1].stream = cq_cmd[c].stream
          /\ [cq_cmd[c] EXCEPT !.refs = @ + 1].time = cq_cmd[c].time
      BY <2>1 DEF CQCommands
    <2>3. /\ CQ!Released(cq_cmd[c], 1) \in CQCommands
          /\ CQ!Released(cq_cmd[c], 1).refs > 0 => /\ CQ!Released(cq_cmd[c], 1).stream = cq_cmd[c].stream
                                                   /\ CQ!Released(cq_cmd[c], 1).time = cq_cmd[c].time
      BY <2>1, CQReleased
    <2> QED
      BY <1>2, <2>1, <2>2, <2>3
  <1>4. \A d \in cq_Cmds : cq_user'[d] \in {"none", "postponing"} => cq_user[d] \in {"none", "postponing"}
    BY <1>1, <1>2 DEF CQTypes
  <1>5. CQTypes'
    BY <1>1, <1>2, <1>3 DEF CQTypes
  <1> QED
    BY <1>1, <1>2, <1>3, <1>4, <1>5, CQStays DEF CQInv

LEMMA CQCancel ==
  ASSUME CQInv, CQ!Works, NEW c \in cq_Cmds, CQ!Cancel(c)
  PROVE  CQInv'
  <1> DEFINE cs == [cq_cmd EXCEPT ![c] = [cq_cmd[c] EXCEPT !.queue = FALSE]]
  <1>1. CQTypes /\ CQOrdered(cq_lists, cq_cmd) /\ CQAway
    BY DEF CQInv
  <1>2. CQ!Queued(c) /\ CQ!RemoveCmd(c, 0, cs)
    BY DEF CQ!Cancel
  <1>3. cs \in [cq_Cmds -> CQCommands]
        /\ (\A d \in cq_Cmds : d # c => cs[d] = cq_cmd[d]) /\ cs[c].stream = cq_cmd[c].stream
    <2>1. [cq_cmd[c] EXCEPT !.queue = FALSE] \in CQCommands
          /\ [cq_cmd[c] EXCEPT !.queue = FALSE].stream = cq_cmd[c].stream
      BY <1>1 DEF CQTypes, CQCommands
    <2> QED
      BY <1>1, <2>1 DEF CQTypes
  <1> HIDE DEF cs
  <1>4. /\ cq_lists' \in [BOOLEAN -> Seq(cq_Cmds)] /\ cq_cmd' \in [cq_Cmds -> CQCommands]
        /\ CQOrdered(cq_lists', cq_cmd')
        /\ \A d \in cq_Cmds : CQ!Queued(d)' => d # c /\ CQ!Queued(d)
    BY <1>1, <1>2, <1>3, CQRemove
  <1>5. CQTypes' /\ cq_user' = cq_user
    BY <1>1, <1>4 DEF CQTypes, CQ!Cancel
  <1>6. CQAway'
    BY <1>1, <1>4, <1>5 DEF CQAway
  <1> QED
    BY <1>4, <1>5, <1>6 DEF CQInv

LEMMA CQPostpone ==
  ASSUME CQInv, CQ!Works, NEW c \in cq_Cmds, CQ!Postpone(c)
  PROVE  CQInv'
  <1>1. CQTypes /\ CQOrdered(cq_lists, cq_cmd) /\ CQAway
    BY DEF CQInv
  <1>2. cq_now' = cq_now /\ cq_taken' = cq_taken /\ cq_pc' = cq_pc
    BY DEF CQ!Postpone
  <1>3. CASE cq_cmd[c].queue /\ CQ!Queued(c)
    <2>1. PICK t \in CQ!Times : CQ!RemoveCmd(c, 0, [cq_cmd EXCEPT ![c].time = t])
      BY <1>3 DEF CQ!Postpone
    <2> DEFINE cs == [cq_cmd EXCEPT ![c] = [cq_cmd[c] EXCEPT !.time = t]]
    <2>2. CQ!RemoveCmd(c, 0, cs) /\ cq_user' = [cq_user EXCEPT ![c] = "postponing"]
      BY <1>3, <2>1 DEF CQ!Postpone
    <2>3. cs \in [cq_Cmds -> CQCommands]
          /\ (\A d \in cq_Cmds : d # c => cs[d] = cq_cmd[d]) /\ cs[c].stream = cq_cmd[c].stream
      <3>2. t \in Nat /\ cq_cmd[c] \in CQCommands
        BY <1>1, CQAssumption DEF CQTypes, CQ!Times
      <3>1. [cq_cmd[c] EXCEPT !.time = t] \in CQCommands
            /\ [cq_cmd[c] EXCEPT !.time = t].stream = cq_cmd[c].stream
        BY <3>2 DEF CQCommands
      <3> QED
        BY <1>1, <3>1 DEF CQTypes
    <2> HIDE DEF cs
    <2>4. /\ cq_lists' \in [BOOLEAN -> Seq(cq_Cmds)] /\ cq_cmd' \in [cq_Cmds -> CQCommands]
          /\ CQOrdered(cq_lists', cq_cmd')
          /\ \A d \in cq_Cmds : CQ!Queued(d)' => d # c /\ CQ!Queued(d)
      BY <1>1, <1>3, <2>2, <2>3, CQRemove
    <2>5. CQTypes'
      BY <1>1, <1>2, <2>2, <2>4 DEF CQTypes
    <2>6. \A d \in cq_Cmds : d # c => cq_user'[d] = cq_user[d]
      BY <1>1, <2>2 DEF CQTypes
    <2>7. CQAway'
      BY <1>1, <2>4, <2>6 DEF CQAway
    <2> QED
      BY <2>4, <2>5, <2>7 DEF CQInv
  <1>4. CASE ~(cq_cmd[c].queue /\ CQ!Queued(c))
    <2>1. cq_lists' = cq_lists /\ cq_cmd' = cq_cmd /\ cq_user' = cq_user
      BY <1>4 DEF CQ!Postpone
    <2>2. CQTypes'
      BY <1>1, <1>2, <2>1 DEF CQTypes
    <2>3. CQOrdered(cq_lists', cq_cmd') /\ CQAway'
      BY <1>1, <2>1 DEF CQAway, CQ!Queued
    <2> QED
      BY <2>2, <2>3 DEF CQInv
  <1> QED
    BY <1>3, <1>4

LEMMA CQRequeue ==
  ASSUME CQInv, CQ!Works, NEW c \in cq_Cmds, CQ!Requeue(c)
  PROVE  CQInv'
  <1>1. CQTypes /\ CQOrdered(cq_lists, cq_cmd) /\ CQAway
    BY DEF CQInv
  <1>2. /\ cq_now' = cq_now /\ cq_taken' = cq_taken /\ cq_pc' = cq_pc
        /\ cq_user' = [cq_user EXCEPT ![c] = "held"]
        /\ cq_user[c] = "postponing" /\ cq_cmd \in [cq_Cmds -> CQCommands]
    BY <1>1 DEF CQ!Requeue, CQTypes
  <1>3. ~ CQ!Queued(c)
    BY <1>1, <1>2 DEF CQAway
  <1>4. \A d \in cq_Cmds : cq_user'[d] = IF d = c THEN "held" ELSE cq_user[d]
    BY <1>1, <1>2 DEF CQTypes
  <1>5. CASE cq_cmd[c].queue
    <2>1. CQ!Insert(cq_cmd, c)
      BY <1>5 DEF CQ!Requeue
    <2>2. /\ cq_lists' \in [BOOLEAN -> Seq(cq_Cmds)] /\ cq_cmd' \in [cq_Cmds -> CQCommands]
          /\ CQOrdered(cq_lists', cq_cmd')
          /\ \A d \in cq_Cmds : CQ!Queued(d)' => d = c \/ CQ!Queued(d)
      BY <1>1, <1>2, <1>3, <2>1, CQInsert
    <2>3. CQTypes'
      BY <1>1, <1>2, <2>2 DEF CQTypes
    <2>4. CQAway'
      BY <1>1, <1>4, <2>2 DEF CQAway
    <2> QED
      BY <2>2, <2>3, <2>4 DEF CQInv
  <1>6. CASE ~ cq_cmd[c].queue
    <2>1. cq_lists' = cq_lists /\ cq_cmd' = cq_cmd
      BY <1>6 DEF CQ!Requeue
    <2>2. CQTypes'
      BY <1>1, <1>2, <2>1 DEF CQTypes
    <2>3. CQOrdered(cq_lists', cq_cmd') /\ CQAway'
      BY <1>1, <1>4, <2>1 DEF CQAway, CQ!Queued
    <2> QED
      BY <2>2, <2>3 DEF CQInv
  <1> QED
    BY <1>5, <1>6

(* The thread that invokes the commands.                                    *)
LEMMA CQTakes ==
  ASSUME CQInv, CQ!Works, CQ!GetDueCommand \/ CQ!GetCommandDueFor
  PROVE  CQInv'
  <1>1. CQTypes /\ cq_cmd \in [cq_Cmds -> CQCommands]
        /\ cq_lists \in [BOOLEAN -> Seq(cq_Cmds)]
    BY DEF CQInv, CQTypes
  <1>2. cq_now' = cq_now /\ cq_lists' = cq_lists /\ cq_user' = cq_user /\ cq_pc = "look"
    BY DEF CQ!GetDueCommand, CQ!GetCommandDueFor
  <1>3. \A s \in BOOLEAN : cq_lists[s] # <<>> => Head(cq_lists[s]) \in cq_Cmds
    BY <1>1
  <1>4. \/ cq_pc' = "block" /\ UNCHANGED <<cq_cmd, cq_taken>>
        \/ \E c \in cq_Cmds : /\ cq_pc' = "got" /\ cq_taken' = c
                              /\ \/ cq_cmd' = [cq_cmd EXCEPT ![c].refs = @ + 1]
                                 \/ cq_cmd' = cq_cmd
    <2>1. CASE CQ!GetDueCommand
      <3>1. CQ!Firsts \subseteq cq_Cmds
        BY <1>3 DEF CQ!Firsts
      <3> QED
        BY <2>1, <3>1 DEF CQ!GetDueCommand, CQ!Looks
    <2>2. CASE CQ!GetCommandDueFor
      <3>1. {Head(cq_lists[s]) : s \in {s \in BOOLEAN : cq_lists[s] # <<>>}} \subseteq cq_Cmds
        BY <1>3
      <3> QED
        BY <2>2, <3>1 DEF CQ!GetCommandDueFor
    <2> QED
      BY <2>1, <2>2
  <1>5. /\ cq_cmd' \in [cq_Cmds -> CQCommands]
        /\ \A d \in cq_Cmds : cq_cmd'[d].refs > 0 => cq_cmd'[d].stream = cq_cmd[d].stream /\ cq_cmd'[d].time = cq_cmd[d].time
    <2>1. CASE cq_cmd' = cq_cmd
      BY <1>1, <2>1
    <2>2. CASE cq_cmd' # cq_cmd
      <3>1. PICK c \in cq_Cmds : cq_cmd' = [cq_cmd EXCEPT ![c].refs = @ + 1]
        BY <1>4, <2>2
      <3>2. cq_cmd' = [cq_cmd EXCEPT ![c] = [cq_cmd[c] EXCEPT !.refs = @ + 1]]
        BY <3>1
      <3>3. /\ [cq_cmd[c] EXCEPT !.refs = @ + 1] \in CQCommands
            /\ [cq_cmd[c] EXCEPT !.refs = @ + 1].stream = cq_cmd[c].stream
            /\ [cq_cmd[c] EXCEPT !.refs = @ + 1].time = cq_cmd[c].time
        <4>1. cq_cmd[c] \in CQCommands
          BY <1>1
        <4> QED
          BY <4>1 DEF CQCommands
      <3> QED
        BY <1>1, <3>2, <3>3
    <2> QED
      BY <2>1, <2>2
  <1>6. CQTypes'
    <2>1. /\ cq_taken' \in cq_Cmds \cup {CQ!NULL}
          /\ cq_pc' \in {"look", "block", "wait", "got", "invoking"}
          /\ (cq_taken' = CQ!NULL <=> cq_pc' \notin {"got", "invoking"})
      BY <1>1, <1>2, <1>4, CQAssumption DEF CQTypes
    <2> QED
      BY <1>1, <1>2, <1>5, <2>1 DEF CQTypes
  <1> QED
    BY <1>1, <1>2, <1>5, <1>6, CQStays DEF CQInv

LEMMA CQInvoke ==
  ASSUME CQInv, CQ!Works, CQ!Invoke
  PROVE  CQInv'
  <1>1. CQTypes /\ cq_cmd \in [cq_Cmds -> CQCommands] /\ cq_taken \in cq_Cmds
    BY DEF CQInv, CQTypes, CQ!Invoke
  <1>2. cq_now' = cq_now /\ cq_lists' = cq_lists /\ cq_user' = cq_user
    BY DEF CQ!Invoke
  <1>3. \/ cq_pc' = "invoking" /\ cq_cmd' = cq_cmd /\ cq_taken' = cq_taken
        \/ cq_pc' = "look" /\ cq_cmd' = [cq_cmd EXCEPT ![cq_taken] = CQ!Released(cq_cmd[cq_taken], 1)] /\ cq_taken' = CQ!NULL
    BY DEF CQ!Invoke
  <1>4. /\ cq_cmd' \in [cq_Cmds -> CQCommands]
        /\ \A d \in cq_Cmds : cq_cmd'[d].refs > 0 => cq_cmd'[d].stream = cq_cmd[d].stream /\ cq_cmd'[d].time = cq_cmd[d].time
    <2>1. /\ CQ!Released(cq_cmd[cq_taken], 1) \in CQCommands
          /\ CQ!Released(cq_cmd[cq_taken], 1).refs > 0 => /\ CQ!Released(cq_cmd[cq_taken], 1).stream = cq_cmd[cq_taken].stream
                                                          /\ CQ!Released(cq_cmd[cq_taken], 1).time = cq_cmd[cq_taken].time
      BY <1>1, CQReleased
    <2> QED
      BY <1>1, <1>3, <2>1
  <1>5. CQTypes'
    <2>1. /\ cq_taken' \in cq_Cmds \cup {CQ!NULL}
          /\ cq_pc' \in {"look", "block", "wait", "got", "invoking"}
          /\ (cq_taken' = CQ!NULL <=> cq_pc' \notin {"got", "invoking"})
      BY <1>1, <1>3, CQAssumption DEF CQTypes
    <2> QED
      BY <1>1, <1>2, <1>4, <2>1 DEF CQTypes
  <1> QED
    BY <1>1, <1>2, <1>4, <1>5, CQStays DEF CQInv

LEMMA CQInvoked ==
  ASSUME CQInv, CQ!Works, CQ!Invoked
  PROVE  CQInv'
  <1> DEFINE c == cq_taken
             cs == [cq_cmd EXCEPT ![c] = [cq_cmd[c] EXCEPT !.queue = FALSE]]
  <1>1. CQTypes /\ cq_cmd \in [cq_Cmds -> CQCommands] /\ c \in cq_Cmds
        /\ CQOrdered(cq_lists, cq_cmd) /\ CQAway
    BY DEF CQInv, CQTypes, CQ!Invoked
  <1>2. cq_now' = cq_now /\ cq_user' = cq_user /\ cq_pc' = "look" /\ cq_taken' = CQ!NULL
    BY DEF CQ!Invoked
  <1>3. /\ cs \in [cq_Cmds -> CQCommands] /\ \A d \in cq_Cmds : d # c => cs[d] = cq_cmd[d]
        /\ cs[c].stream = cq_cmd[c].stream /\ cs[c].time = cq_cmd[c].time
    <2>1. /\ [cq_cmd[c] EXCEPT !.queue = FALSE] \in CQCommands
          /\ [cq_cmd[c] EXCEPT !.queue = FALSE].stream = cq_cmd[c].stream
          /\ [cq_cmd[c] EXCEPT !.queue = FALSE].time = cq_cmd[c].time
      BY <1>1 DEF CQCommands
    <2> QED
      BY <1>1, <2>1
  <1>4. /\ CQ!Queued(c) => CQ!RemoveCmd(c, 1, cs)
        /\ ~CQ!Queued(c) => cq_lists' = cq_lists /\ cq_cmd' = [cs EXCEPT ![c] = CQ!Released(cs[c], 1)]
    BY DEF CQ!Invoked
  <1> HIDE DEF cs, c
  <1>5. CASE CQ!Queued(c)
    <2>1. /\ cq_lists' \in [BOOLEAN -> Seq(cq_Cmds)] /\ cq_cmd' \in [cq_Cmds -> CQCommands]
          /\ CQOrdered(cq_lists', cq_cmd')
          /\ \A d \in cq_Cmds : CQ!Queued(d)' => d # c /\ CQ!Queued(d)
      BY <1>1, <1>3, <1>4, <1>5, CQRemove
    <2>2. CQTypes'
      BY <1>1, <1>2, <2>1 DEF CQTypes
    <2>3. CQAway'
      BY <1>1, <1>2, <2>1 DEF CQAway
    <2> QED
      BY <2>1, <2>2, <2>3 DEF CQInv
  <1>6. CASE ~CQ!Queued(c)
    <2>1. /\ cq_cmd' \in [cq_Cmds -> CQCommands]
          /\ \A d \in cq_Cmds : cq_cmd'[d].refs > 0 => cq_cmd'[d].stream = cq_cmd[d].stream /\ cq_cmd'[d].time = cq_cmd[d].time
      <3>1. /\ CQ!Released(cs[c], 1) \in CQCommands
            /\ CQ!Released(cs[c], 1).refs > 0 => /\ CQ!Released(cs[c], 1).stream = cs[c].stream
                                                 /\ CQ!Released(cs[c], 1).time = cs[c].time
        BY <1>1, <1>3, CQReleased
      <3> QED
        BY <1>1, <1>3, <1>4, <1>6, <3>1
    <2>2. CQTypes'
      BY <1>1, <1>2, <1>4, <1>6, <2>1 DEF CQTypes
    <2> QED
      BY <1>1, <1>2, <1>4, <1>6, <2>1, <2>2, CQStays DEF CQInv
  <1> QED
    BY <1>5, <1>6

LEMMA CQStep ==
  ASSUME CQInv, [CQ!Next]_(CQ!vars)
  PROVE  CQInv'
  <1>1. CASE UNCHANGED CQ!vars
    BY <1>1
       DEF CQ!vars, CQInv, CQTypes, CQOrdered, CQAway, CQ!Works, CQ!Queued, CQ!Held,
           CQ!Alive
  <1>2. CASE CQ!Next
    <2>1. CQ!Works /\ CQTypes
      BY <1>2 DEF CQ!Next, CQInv
    <2>2. ASSUME NEW c \in cq_Cmds, CQ!New(c) PROVE CQInv'
      BY <2>1, <2>2, CQNew
    <2>3. ASSUME NEW c \in cq_Cmds, CQ!Keep(c) \/ CQ!Forget(c) PROVE CQInv'
      BY <2>1, <2>3, CQKeepOrForget
    <2>4. ASSUME NEW c \in cq_Cmds, CQ!Cancel(c) PROVE CQInv'
      BY <2>1, <2>4, CQCancel
    <2>5. ASSUME NEW c \in cq_Cmds, CQ!Postpone(c) PROVE CQInv'
      BY <2>1, <2>5, CQPostpone
    <2>6. ASSUME NEW c \in cq_Cmds, CQ!Requeue(c) PROVE CQInv'
      BY <2>1, <2>6, CQRequeue
    <2>7. CASE CQ!SetSyncSource \/ CQ!Run \/ CQ!EndRun \/ CQ!Tick \/ CQ!Alarm \/ CQ!WaitForDue \/ CQ!WaitTimesOut
      <3>4. cq_now \in Nat
        BY <2>1 DEF CQTypes
      <3>5. /\ cq_lists' = cq_lists /\ cq_cmd' = cq_cmd /\ cq_user' = cq_user
            /\ cq_taken' = cq_taken
            /\ cq_now' = cq_now \/ cq_now' = cq_now + 1
        BY <2>7
           DEF CQ!SetSyncSource, CQ!Run, CQ!EndRun, CQ!Tick, CQ!Alarm, CQ!WaitForDue,
               CQ!WaitTimesOut
      <3>6. cq_pc' = cq_pc \/ (cq_pc' \in {"look", "block", "wait"} /\ cq_pc \notin {"got", "invoking"})
        BY <2>7
           DEF CQ!SetSyncSource, CQ!Run, CQ!EndRun, CQ!Tick, CQ!Alarm, CQ!WaitForDue,
               CQ!WaitTimesOut
      <3>1. /\ cq_lists' = cq_lists /\ cq_cmd' = cq_cmd /\ cq_user' = cq_user
            /\ cq_taken' = cq_taken /\ cq_now' \in Nat
            /\ cq_pc' = cq_pc \/ (cq_pc' \in {"look", "block", "wait"} /\ cq_pc \notin {"got", "invoking"})
        BY <3>4, <3>5, <3>6
      <3>2. CQTypes'
        BY <2>1, <3>1 DEF CQTypes
      <3>3. cq_cmd' \in [cq_Cmds -> CQCommands]
        BY <2>1, <3>1 DEF CQTypes
      <3> QED
        BY <2>1, <3>1, <3>2, <3>3, CQStays DEF CQInv
    <2>8. CASE CQ!GetDueCommand \/ CQ!GetCommandDueFor
      BY <2>1, <2>8, CQTakes
    <2>9. CASE CQ!Invoke
      BY <2>1, <2>9, CQInvoke
    <2>10. CASE CQ!Invoked
      BY <2>1, <2>10, CQInvoked
    <2> QED
      BY <1>2, <2>2, <2>3, <2>4, <2>5, <2>6, <2>7, <2>8, <2>9, <2>10
      DEF CQ!Next, CQ!Users, CQ!Worker, CQ!Filter, CQ!Execute
  <1> QED
    BY <1>1, <1>2

(* What GetDueCommand gives is no later than the head of either list, and so *)
(* no later than what is behind it.                                          *)
LEMMA CQSafe == CQInv /\ [CQ!Next]_(CQ!vars) => CQ!TakesEarliest
  <1> SUFFICES ASSUME CQInv, [CQ!Next]_(CQ!vars), cq_coarse, cq_taken = CQ!NULL, cq_taken' # CQ!NULL,
                      NEW d \in cq_Cmds, CQ!TimeHasCome(d)
               PROVE  CQ!When(cq_cmd, cq_taken') <= CQ!When(cq_cmd, d)
    BY DEF CQ!TakesEarliest
  <1>1. /\ CQ!Works /\ CQTypes /\ CQOrdered(cq_lists, cq_cmd)
        /\ cq_cmd \in [cq_Cmds -> CQCommands]
        /\ cq_lists \in [BOOLEAN -> Seq(cq_Cmds)] /\ cq_taken' # cq_taken
    <2>1. cq_taken' # cq_taken
      OBVIOUS
    <2> QED
      BY <2>1 DEF CQ!Next, CQ!vars, CQInv, CQTypes
  <1>2. CQ!GetDueCommand
    <2>1. CQ!Next
      BY <1>1 DEF CQ!vars
    <2>2. \A c \in cq_Cmds : ~(CQ!New(c) \/ CQ!Keep(c) \/ CQ!Cancel(c) \/ CQ!Postpone(c) \/ CQ!Requeue(c) \/ CQ!Forget(c))
      BY <1>1 DEF CQ!New, CQ!Keep, CQ!Cancel, CQ!Postpone, CQ!Requeue, CQ!Forget
    <2>3. ~(CQ!SetSyncSource \/ CQ!Run \/ CQ!EndRun \/ CQ!Tick \/ CQ!Alarm \/ CQ!WaitForDue \/ CQ!WaitTimesOut)
      BY <1>1
         DEF CQ!SetSyncSource, CQ!Run, CQ!EndRun, CQ!Tick, CQ!Alarm, CQ!WaitForDue,
             CQ!WaitTimesOut
    <2>4. ~(CQ!Invoke \/ CQ!Invoked)
      BY <1>1 DEF CQ!Invoke, CQ!Invoked, CQTypes
    <2> QED
      BY <2>1, <2>2, <2>3, <2>4 DEF CQ!Next, CQ!Users, CQ!Worker, CQ!Filter, CQ!Execute
  <1>3. /\ cq_taken' \in CQ!Firsts
        /\ \A e \in CQ!Firsts : CQ!When(cq_cmd, cq_taken') <= CQ!When(cq_cmd, e) \/ cq_taken' = e
    <2>1. CQ!Firsts \subseteq cq_Cmds
      BY <1>1 DEF CQ!Firsts
    <2>2. \A c \in cq_Cmds : CQ!When(cq_cmd, c) \in Nat
      BY <1>1, CQAssumption DEF CQ!When, CQCommands
    <2>3. cq_pc' = "got" => /\ cq_taken' \in CQ!Firsts
                            /\ \A e \in CQ!Firsts : \/ CQ!When(cq_cmd, cq_taken') < CQ!When(cq_cmd, e)
                                                    \/ CQ!When(cq_cmd, cq_taken') = CQ!When(cq_cmd, e)
                                                    \/ cq_taken' = e
      BY <1>2 DEF CQ!GetDueCommand, CQ!Looks
    <2>4. cq_taken' # cq_taken => cq_pc' = "got"
      BY <1>2 DEF CQ!GetDueCommand, CQ!Looks
    <2> QED
      BY <1>1, <2>1, <2>2, <2>3, <2>4
  <1>4. PICK s \in BOOLEAN : \E i \in 1 .. Len(cq_lists[s]) : cq_lists[s][i] = d
    BY DEF CQ!TimeHasCome, CQ!Queued
  <1>5. PICK i \in 1 .. Len(cq_lists[s]) : cq_lists[s][i] = d
    BY <1>4
  <1> DEFINE h == Head(cq_lists[s])
  <1>6. h = cq_lists[s][1] /\ 1 \in 1 .. Len(cq_lists[s]) /\ cq_lists[s] # <<>>
        /\ h \in cq_Cmds
    BY <1>1, <1>5
  <1>7. cq_cmd[d].stream = s /\ cq_cmd[h].stream = s
    BY <1>5, <1>6, <1>1 DEF CQOrdered
  <1>8. h \in CQ!Firsts
    BY <1>6, <1>7 DEF CQ!Firsts, CQ!TimeHasCome
  <1>9. cq_cmd[h].time <= cq_cmd[d].time
    <2>1. CASE i = 1
      BY <1>1, <1>5, <1>6, <2>1 DEF CQCommands
    <2>2. CASE i # 1
      BY <1>1, <1>5, <1>6, <2>2 DEF CQOrdered
    <2> QED
      BY <2>1, <2>2
  <1> HIDE DEF h
  <1> DEFINE off(c) == IF cq_cmd[c].stream THEN cq_Offset ELSE 0
  <1>10. \A c \in cq_Cmds : CQ!When(cq_cmd, c) = cq_cmd[c].time + off(c) /\ cq_cmd[c].time \in Nat /\ off(c) \in Nat
    BY <1>1, CQAssumption DEF CQ!When, CQCommands
  <1>11. off(h) = off(d)
    BY <1>7, Zenon
  <1> HIDE DEF off
  <1>12. CQ!When(cq_cmd, h) <= CQ!When(cq_cmd, d) /\ CQ!When(cq_cmd, h) \in Nat
         /\ CQ!When(cq_cmd, d) \in Nat
    <2>1. h \in cq_Cmds /\ d \in cq_Cmds
      BY <1>6
    <2>2. /\ CQ!When(cq_cmd, h) = cq_cmd[h].time + off(h) /\ cq_cmd[h].time \in Nat
          /\ off(h) \in Nat
          /\ CQ!When(cq_cmd, d) = cq_cmd[d].time + off(d) /\ cq_cmd[d].time \in Nat
      BY <1>10, <2>1
    <2> QED
      BY <1>9, <1>11, <2>2
  <1>13. CQ!When(cq_cmd, cq_taken') \in Nat
    <2>1. cq_taken' \in cq_Cmds
      BY <1>1, <1>3 DEF CQ!Firsts
    <2> QED
      BY <1>10, <2>1
  <1> QED
    BY <1>3, <1>8, <1>12, <1>13

-----------------------------------------------------------------------------
(***************************************************************************)
(* The window of a renderer: who holds which lock (VWLocks) and awaits which*)
(* message (VWWaits), whose palette the window has, and that an image of the*)
(* present version has the colours of the present format (VWColours).      *)
(***************************************************************************)

VWWindow == {"prepare", "pump", "realise", "answer"}
VWStream == {"idle", "remove", "unset", "delete", "make", "install", "install2", "sent", "set"}
VWApp == {"idle", "remove", "unset", "delete", "close", "waits", "closed", "done"}
VWMessages == {<<"realize", "stream">>, <<"realize", VW!None>>, <<"destroy", "app">>, <<"destroy", VW!None>>}
VWSomePalette == vw_Palettes \cup {VW!None}

VWTypes ==
  /\ vw_thread \in [window : VWWindow, stream : VWStream, app : VWApp]
  /\ vw_inbox \subseteq VWMessages
  /\ vw_format \in VWSomePalette /\ vw_version \in Nat \ {0}
  /\ vw_sample \in [vw_Samples -> Nat \X VWSomePalette]

\* Who holds which lock, and who has sent which message.
VWLocks ==
  /\ vw_palette = "stream" <=> vw_thread.stream \in {"unset", "delete"}
  /\ vw_palette = "app" <=> vw_thread.app \in {"unset", "delete"}
  /\ vw_palette \in {VW!None, "stream", "app"}
  /\ vw_window = "stream" <=> vw_thread.stream = "install2"
  /\ vw_window \in {VW!None, "stream"}

\* The application closes the connection when no format is being changed.
VWWaits ==
  /\ vw_thread.app # "idle" => vw_thread.stream = "idle"
  /\ vw_inbox # {} => vw_exists
  /\ vw_thread.app = "waits" <=> \E m \in vw_inbox : m[1] = "destroy"
  /\ <<"realize", "stream">> \in vw_inbox => vw_thread.stream = "sent" /\ vw_thread.window # "answer"
  /\ vw_thread.stream = "sent" => <<"realize", "stream">> \in vw_inbox \/ vw_thread.window = "answer"
  /\ vw_thread.window = "answer" => vw_thread.stream = "sent"

VWPalettes ==
  /\ vw_hpal # VW!None => vw_hpal \in vw_live
  /\ vw_wpal # VW!None => vw_wpal = vw_hpal
  /\ vw_thread.stream = "delete" \/ vw_thread.app = "delete" => vw_wpal = VW!None
  /\ vw_thread.stream = "make" => vw_hpal = VW!None

\* An image of the present version has the colours of the present format.
VWColours ==
  /\ \A s \in vw_Samples : vw_sample[s][1] <= vw_version
  /\ vw_thread.stream = "idle" /\ vw_version = 1 => vw_format = VW!None
  /\ vw_thread.stream = "idle" /\ vw_format # VW!None =>
       \A s \in vw_Samples : vw_sample[s][1] = vw_version => vw_sample[s][2] = vw_format
  /\ VW!RightColours

VWInv == VWTypes /\ VWLocks /\ VWWaits /\ VWPalettes /\ VWColours

VWThread(w, s, a) ==
  /\ vw_thread' \in [window : VWWindow, stream : VWStream, app : VWApp]
  /\ vw_thread'.window = w /\ vw_thread'.stream = s /\ vw_thread'.app = a

LEMMA VWGoes ==
  ASSUME VWTypes, NEW p
  PROVE  /\ VW!Goes("stream", p) /\ p \in VWStream => VWThread(vw_thread.window, p, vw_thread.app)
         /\ VW!Goes("app", p) /\ p \in VWApp => VWThread(vw_thread.window, vw_thread.stream, p)
         /\ VW!Goes("window", p) /\ p \in VWWindow => VWThread(p, vw_thread.stream, vw_thread.app)
         /\ UNCHANGED vw_thread => VWThread(vw_thread.window, vw_thread.stream, vw_thread.app)
         /\ VW!Answered(p) => VWThread("pump", IF p = "stream" THEN "set" ELSE vw_thread.stream, vw_thread.app)
  BY DEF VWTypes, VW!Goes, VWThread, VW!Answered, VWWindow, VWStream, VWApp

(* OnRealizePalette of the message m.                                       *)
VWRealizePalette(m) ==
  /\ VW!At("window", "pump") /\ m[1] = "realize"
  /\ vw_inbox' = vw_inbox \ {m}
  /\ IF vw_hwnd THEN VW!Goes("window", IF m[2] = VW!None THEN "realise" ELSE "answer")
                ELSE VW!Answered(m[2])
  /\ UNCHANGED <<VW!windowVars, VW!imageVars, vw_window, vw_palette, vw_wpal, vw_hpal,
                 vw_live>>

(* What a step does not disturb.                                            *)
LEMMA VWFrameTypes ==
  ASSUME VWTypes, NEW w, NEW q, NEW a, VWThread(w, q, a), vw_inbox' \subseteq VWMessages, UNCHANGED VW!imageVars
  PROVE  VWTypes'
  BY DEF VWTypes, VWThread, VW!imageVars

LEMMA VWFrameLocks ==
  ASSUME VWLocks, NEW w, NEW q, NEW a, VWThread(w, q, a), UNCHANGED <<vw_window,
                                                                      vw_palette>>,
         q \in {"unset", "delete"} <=> vw_thread.stream \in {"unset", "delete"},
         a \in {"unset", "delete"} <=> vw_thread.app \in {"unset", "delete"},
         q = "install2" <=> vw_thread.stream = "install2"
  PROVE  VWLocks'
  BY DEF VWLocks, VWThread

LEMMA VWFrameWaits ==
  ASSUME VWWaits, NEW w, NEW q, NEW a, VWThread(w, q, a), vw_inbox' = vw_inbox, vw_exists => vw_exists',
         a # "idle" => q = "idle", a = "waits" <=> vw_thread.app = "waits",
         q = "sent" <=> vw_thread.stream = "sent", w = "answer" <=> vw_thread.window = "answer"
  PROVE  VWWaits'
  BY DEF VWWaits, VWThread

LEMMA VWFramePalettes ==
  ASSUME VWPalettes, NEW w, NEW q, NEW a, VWThread(w, q, a), UNCHANGED <<vw_wpal, vw_hpal,
                                                                         vw_live>>,
         q = "delete" => vw_thread.stream = "delete", a = "delete" => vw_thread.app = "delete",
         q = "make" => vw_thread.stream = "make" \/ vw_hpal = VW!None
  PROVE  VWPalettes'
  BY DEF VWPalettes, VWThread

LEMMA VWFrameColours ==
  ASSUME VWColours, NEW w, NEW q, NEW a, VWThread(w, q, a), UNCHANGED VW!imageVars,
         q = "idle" => vw_thread.stream = "idle"
  PROVE  VWColours'
  BY DEF VWColours, VWThread, VW!imageVars, VW!RightColours

LEMMA VWStart == VW!Init => VWInv
  <1> SUFFICES ASSUME VW!Init PROVE VWInv
    OBVIOUS
  <1>1. VWTypes
    BY
       DEF VW!Init, VWTypes, VWMessages, VWSomePalette, VW!NoSample, VW!PALETTE_VERSION,
           VWWindow, VWStream, VWApp
  <1>2. VWLocks /\ VWWaits /\ VWPalettes
    BY DEF VW!Init, VWLocks, VWWaits, VWPalettes, VW!None
  <1>3. VWColours
    BY DEF VW!Init, VWColours, VW!RightColours, VW!NoSample, VW!PALETTE_VERSION
  <1> QED
    BY <1>1, <1>2, <1>3 DEF VWInv

LEMMA VWPrepare ==
  ASSUME VWInv, VW!PrepareWindow
  PROVE  VWInv'
  <1>0. VWTypes /\ VWLocks /\ VWWaits /\ VWPalettes /\ VWColours
    BY DEF VWInv
  <1>a. /\ vw_thread.window = "prepare"
        /\ vw_inbox' = vw_inbox /\ vw_exists' = TRUE
        /\ UNCHANGED <<vw_window, vw_palette>>
        /\ UNCHANGED <<vw_wpal, vw_hpal, vw_live>>
        /\ UNCHANGED VW!imageVars
    BY DEF VW!PrepareWindow, VW!At, VW!windowVars, VW!imageVars
  <1>b. VWThread("pump", vw_thread.stream, vw_thread.app)
    <2>1. VW!Goes("window", "pump")
      BY DEF VW!PrepareWindow
    <2> QED
      BY <1>0, <2>1, VWGoes DEF VWWindow, VWStream, VWApp
  <1>1. VWTypes'
    BY <1>0, <1>a, <1>b, VWFrameTypes DEF VWTypes, VW!imageVars
  <1>2. VWLocks'
    BY <1>0, <1>a, <1>b, VWFrameLocks DEF VWLocks
  <1>3. VWWaits'
    BY <1>0, <1>a, <1>b, VWFrameWaits DEF VWWaits
  <1>4. VWPalettes'
    BY <1>0, <1>a, <1>b, VWFramePalettes DEF VWPalettes
  <1>5. VWColours'
    BY <1>0, <1>a, <1>b, VWFrameColours DEF VWColours, VW!imageVars
  <1> QED
    BY <1>1, <1>2, <1>3, <1>4, <1>5 DEF VWInv

LEMMA VWChangeFormatSame ==
  ASSUME VWInv, VW!ChangeFormat, UNCHANGED vw_thread, vw_format' = vw_format
  PROVE  VWInv'
  <1>0. VWTypes /\ VWLocks /\ VWWaits /\ VWPalettes /\ VWColours
    BY DEF VWInv
  <1>a. /\ vw_thread.stream = "idle"
        /\ vw_format' = vw_format
        /\ UNCHANGED <<vw_version, vw_sample, vw_shown>>
        /\ vw_inbox' = vw_inbox /\ vw_exists' = vw_exists
        /\ UNCHANGED <<vw_window, vw_palette>>
        /\ UNCHANGED <<vw_wpal, vw_hpal, vw_live>>
    BY DEF VW!ChangeFormat, VW!At, VW!windowVars, VW!imageVars
  <1>b. VWThread(vw_thread.window, vw_thread.stream, vw_thread.app)
    <2>1. UNCHANGED vw_thread
      BY DEF VW!ChangeFormat
    <2> QED
      BY <1>0, <2>1, VWGoes DEF VWWindow, VWStream, VWApp
  <1>1. VWTypes'
    BY <1>0, <1>a, <1>b DEF VWTypes, VWThread
  <1>2. VWLocks'
    BY <1>0, <1>a, <1>b, VWFrameLocks DEF VWLocks
  <1>3. VWWaits'
    BY <1>0, <1>a, <1>b, VWFrameWaits DEF VWWaits
  <1>4. VWPalettes'
    BY <1>0, <1>a, <1>b, VWFramePalettes DEF VWPalettes
  <1>5. VWColours'
    BY <1>0, <1>a, <1>b DEF VWColours, VW!RightColours, VWThread
  <1> QED
    BY <1>1, <1>2, <1>3, <1>4, <1>5 DEF VWInv

LEMMA VWChangeFormat ==
  ASSUME VWInv, VW!ChangeFormat, VW!Goes("stream", "remove")
  PROVE  VWInv'
  <1>0. VWTypes /\ VWLocks /\ VWWaits /\ VWPalettes /\ VWColours
    BY DEF VWInv
  <1>a. /\ vw_thread.stream = "idle" /\ vw_thread.app = "idle"
        /\ vw_format' \in vw_Palettes \cup {VW!None}
        /\ UNCHANGED <<vw_version, vw_sample, vw_shown>>
        /\ vw_inbox' = vw_inbox /\ vw_exists' = vw_exists
        /\ UNCHANGED <<vw_window, vw_palette>>
        /\ UNCHANGED <<vw_wpal, vw_hpal, vw_live>>
    BY DEF VW!ChangeFormat, VW!At, VW!windowVars, VW!imageVars
  <1>b. VWThread(vw_thread.window, "remove", vw_thread.app)
    <2>1. VW!Goes("stream", "remove")
      BY DEF VW!ChangeFormat
    <2> QED
      BY <1>0, <2>1, VWGoes DEF VWWindow, VWStream, VWApp
  <1>1. VWTypes'
    BY <1>0, <1>a, <1>b DEF VWTypes, VWSomePalette, VWThread
  <1>2. VWLocks'
    BY <1>0, <1>a, <1>b, VWFrameLocks DEF VWLocks
  <1>3. VWWaits'
    BY <1>0, <1>a, <1>b, VWFrameWaits DEF VWWaits
  <1>4. VWPalettes'
    BY <1>0, <1>a, <1>b, VWFramePalettes DEF VWPalettes
  <1>5. VWColours'
    BY <1>0, <1>a, <1>b DEF VWColours, VW!RightColours, VWThread
  <1> QED
    BY <1>1, <1>2, <1>3, <1>4, <1>5 DEF VWInv

LEMMA VWNoPaletteToRemoveStream ==
  ASSUME VWInv, VW!LockToRemove("stream", "remove", "make"), vw_hpal = VW!None
  PROVE  VWInv'
  <1>0. VWTypes /\ VWLocks /\ VWWaits /\ VWPalettes /\ VWColours
    BY DEF VWInv
  <1>a. /\ vw_thread.stream = "remove"
        /\ vw_inbox' = vw_inbox /\ vw_exists' = vw_exists
        /\ UNCHANGED <<vw_window, vw_palette>>
        /\ UNCHANGED <<vw_wpal, vw_hpal, vw_live>>
        /\ UNCHANGED VW!imageVars
    BY DEF VW!LockToRemove, VW!At, VW!windowVars, VW!imageVars
  <1>b. VWThread(vw_thread.window, "make", vw_thread.app)
    <2>1. VW!Goes("stream", "make")
      BY DEF VW!LockToRemove
    <2> QED
      BY <1>0, <2>1, VWGoes DEF VWWindow, VWStream, VWApp
  <1>1. VWTypes'
    BY <1>0, <1>a, <1>b, VWFrameTypes DEF VWTypes, VW!imageVars
  <1>2. VWLocks'
    BY <1>0, <1>a, <1>b, VWFrameLocks DEF VWLocks
  <1>3. VWWaits'
    BY <1>0, <1>a, <1>b, VWFrameWaits DEF VWWaits
  <1>4. VWPalettes'
    BY <1>0, <1>a, <1>b, VWFramePalettes DEF VWPalettes
  <1>5. VWColours'
    BY <1>0, <1>a, <1>b, VWFrameColours DEF VWColours, VW!imageVars
  <1> QED
    BY <1>1, <1>2, <1>3, <1>4, <1>5 DEF VWInv

LEMMA VWLockToRemoveStream ==
  ASSUME VWInv, VW!LockToRemove("stream", "remove", "make"), vw_hpal # VW!None
  PROVE  VWInv'
  <1>0. VWTypes /\ VWLocks /\ VWWaits /\ VWPalettes /\ VWColours
    BY DEF VWInv
  <1>a. /\ vw_thread.stream = "remove"
        /\ vw_inbox' = vw_inbox /\ vw_exists' = vw_exists
        /\ vw_palette = VW!None /\ vw_palette' = "stream" /\ vw_window' = vw_window
        /\ UNCHANGED <<vw_wpal, vw_hpal, vw_live>>
        /\ UNCHANGED VW!imageVars
    BY DEF VW!LockToRemove, VW!At, VW!windowVars, VW!imageVars
  <1>b. VWThread(vw_thread.window, "unset", vw_thread.app)
    <2>1. VW!Goes("stream", "unset")
      BY DEF VW!LockToRemove
    <2> QED
      BY <1>0, <2>1, VWGoes DEF VWWindow, VWStream, VWApp
  <1>1. VWTypes'
    BY <1>0, <1>a, <1>b, VWFrameTypes DEF VWTypes, VW!imageVars
  <1>2. VWLocks'
    BY <1>0, <1>a, <1>b DEF VWLocks, VWWaits, VWThread, VW!None
  <1>3. VWWaits'
    BY <1>0, <1>a, <1>b, VWFrameWaits DEF VWWaits
  <1>4. VWPalettes'
    BY <1>0, <1>a, <1>b, VWFramePalettes DEF VWPalettes
  <1>5. VWColours'
    BY <1>0, <1>a, <1>b, VWFrameColours DEF VWColours, VW!imageVars
  <1> QED
    BY <1>1, <1>2, <1>3, <1>4, <1>5 DEF VWInv

LEMMA VWUnsetStream ==
  ASSUME VWInv, VW!UnsetPalette("stream")
  PROVE  VWInv'
  <1>0. VWTypes /\ VWLocks /\ VWWaits /\ VWPalettes /\ VWColours
    BY DEF VWInv
  <1>a. /\ vw_thread.stream = "unset"
        /\ vw_inbox' = vw_inbox /\ vw_exists' = vw_exists
        /\ UNCHANGED <<vw_window, vw_palette>>
        /\ vw_wpal' = VW!None /\ UNCHANGED <<vw_hpal, vw_live>>
        /\ UNCHANGED VW!imageVars
    BY DEF VW!UnsetPalette, VW!At, VW!windowVars, VW!imageVars
  <1>b. VWThread(vw_thread.window, "delete", vw_thread.app)
    <2>1. VW!Goes("stream", "delete")
      BY DEF VW!UnsetPalette
    <2> QED
      BY <1>0, <2>1, VWGoes DEF VWWindow, VWStream, VWApp
  <1>1. VWTypes'
    BY <1>0, <1>a, <1>b, VWFrameTypes DEF VWTypes, VW!imageVars
  <1>2. VWLocks'
    BY <1>0, <1>a, <1>b, VWFrameLocks DEF VWLocks
  <1>3. VWWaits'
    BY <1>0, <1>a, <1>b, VWFrameWaits DEF VWWaits
  <1>4. VWPalettes'
    BY <1>0, <1>a, <1>b DEF VWPalettes, VWWaits, VWThread
  <1>5. VWColours'
    BY <1>0, <1>a, <1>b, VWFrameColours DEF VWColours, VW!imageVars
  <1> QED
    BY <1>1, <1>2, <1>3, <1>4, <1>5 DEF VWInv

LEMMA VWDeleteStream ==
  ASSUME VWInv, VW!DeletePalette("stream", "make")
  PROVE  VWInv'
  <1>0. VWTypes /\ VWLocks /\ VWWaits /\ VWPalettes /\ VWColours
    BY DEF VWInv
  <1>a. /\ vw_thread.stream = "delete"
        /\ vw_inbox' = vw_inbox /\ vw_exists' = vw_exists
        /\ vw_palette' = VW!None /\ vw_window' = vw_window
        /\ vw_hpal' = VW!None /\ vw_wpal' = vw_wpal
        /\ UNCHANGED VW!imageVars
    BY DEF VW!DeletePalette, VW!At, VW!windowVars, VW!imageVars
  <1>b. VWThread(vw_thread.window, "make", vw_thread.app)
    <2>1. VW!Goes("stream", "make")
      BY DEF VW!DeletePalette
    <2> QED
      BY <1>0, <2>1, VWGoes DEF VWWindow, VWStream, VWApp
  <1>1. VWTypes'
    BY <1>0, <1>a, <1>b, VWFrameTypes DEF VWTypes, VW!imageVars
  <1>2. VWLocks'
    BY <1>0, <1>a, <1>b DEF VWLocks, VWWaits, VWThread, VW!None
  <1>3. VWWaits'
    BY <1>0, <1>a, <1>b, VWFrameWaits DEF VWWaits
  <1>4. VWPalettes'
    BY <1>0, <1>a, <1>b DEF VWPalettes, VWWaits, VWThread
  <1>5. VWColours'
    BY <1>0, <1>a, <1>b, VWFrameColours DEF VWColours, VW!imageVars
  <1> QED
    BY <1>1, <1>2, <1>3, <1>4, <1>5 DEF VWInv

LEMMA VWNoPaletteToRemoveApp ==
  ASSUME VWInv, VW!LockToRemove("app", "remove", "close"), vw_hpal = VW!None
  PROVE  VWInv'
  <1>0. VWTypes /\ VWLocks /\ VWWaits /\ VWPalettes /\ VWColours
    BY DEF VWInv
  <1>a. /\ vw_thread.app = "remove"
        /\ vw_inbox' = vw_inbox /\ vw_exists' = vw_exists
        /\ UNCHANGED <<vw_window, vw_palette>>
        /\ UNCHANGED <<vw_wpal, vw_hpal, vw_live>>
        /\ UNCHANGED VW!imageVars
    BY DEF VW!LockToRemove, VW!At, VW!windowVars, VW!imageVars
  <1>b. VWThread(vw_thread.window, vw_thread.stream, "close")
    <2>1. VW!Goes("app", "close")
      BY DEF VW!LockToRemove
    <2> QED
      BY <1>0, <2>1, VWGoes DEF VWWindow, VWStream, VWApp
  <1>1. VWTypes'
    BY <1>0, <1>a, <1>b, VWFrameTypes DEF VWTypes, VW!imageVars
  <1>2. VWLocks'
    BY <1>0, <1>a, <1>b, VWFrameLocks DEF VWLocks
  <1>3. VWWaits'
    BY <1>0, <1>a, <1>b, VWFrameWaits DEF VWWaits
  <1>4. VWPalettes'
    BY <1>0, <1>a, <1>b, VWFramePalettes DEF VWPalettes
  <1>5. VWColours'
    BY <1>0, <1>a, <1>b, VWFrameColours DEF VWColours, VW!imageVars
  <1> QED
    BY <1>1, <1>2, <1>3, <1>4, <1>5 DEF VWInv

LEMMA VWLockToRemoveApp ==
  ASSUME VWInv, VW!LockToRemove("app", "remove", "close"), vw_hpal # VW!None
  PROVE  VWInv'
  <1>0. VWTypes /\ VWLocks /\ VWWaits /\ VWPalettes /\ VWColours
    BY DEF VWInv
  <1>a. /\ vw_thread.app = "remove"
        /\ vw_inbox' = vw_inbox /\ vw_exists' = vw_exists
        /\ vw_palette = VW!None /\ vw_palette' = "app" /\ vw_window' = vw_window
        /\ UNCHANGED <<vw_wpal, vw_hpal, vw_live>>
        /\ UNCHANGED VW!imageVars
    BY DEF VW!LockToRemove, VW!At, VW!windowVars, VW!imageVars
  <1>b. VWThread(vw_thread.window, vw_thread.stream, "unset")
    <2>1. VW!Goes("app", "unset")
      BY DEF VW!LockToRemove
    <2> QED
      BY <1>0, <2>1, VWGoes DEF VWWindow, VWStream, VWApp
  <1>1. VWTypes'
    BY <1>0, <1>a, <1>b, VWFrameTypes DEF VWTypes, VW!imageVars
  <1>2. VWLocks'
    BY <1>0, <1>a, <1>b DEF VWLocks, VWWaits, VWThread, VW!None
  <1>3. VWWaits'
    BY <1>0, <1>a, <1>b, VWFrameWaits DEF VWWaits
  <1>4. VWPalettes'
    BY <1>0, <1>a, <1>b, VWFramePalettes DEF VWPalettes
  <1>5. VWColours'
    BY <1>0, <1>a, <1>b, VWFrameColours DEF VWColours, VW!imageVars
  <1> QED
    BY <1>1, <1>2, <1>3, <1>4, <1>5 DEF VWInv

LEMMA VWUnsetApp ==
  ASSUME VWInv, VW!UnsetPalette("app")
  PROVE  VWInv'
  <1>0. VWTypes /\ VWLocks /\ VWWaits /\ VWPalettes /\ VWColours
    BY DEF VWInv
  <1>a. /\ vw_thread.app = "unset"
        /\ vw_inbox' = vw_inbox /\ vw_exists' = vw_exists
        /\ UNCHANGED <<vw_window, vw_palette>>
        /\ vw_wpal' = VW!None /\ UNCHANGED <<vw_hpal, vw_live>>
        /\ UNCHANGED VW!imageVars
    BY DEF VW!UnsetPalette, VW!At, VW!windowVars, VW!imageVars
  <1>b. VWThread(vw_thread.window, vw_thread.stream, "delete")
    <2>1. VW!Goes("app", "delete")
      BY DEF VW!UnsetPalette
    <2> QED
      BY <1>0, <2>1, VWGoes DEF VWWindow, VWStream, VWApp
  <1>1. VWTypes'
    BY <1>0, <1>a, <1>b, VWFrameTypes DEF VWTypes, VW!imageVars
  <1>2. VWLocks'
    BY <1>0, <1>a, <1>b, VWFrameLocks DEF VWLocks
  <1>3. VWWaits'
    BY <1>0, <1>a, <1>b, VWFrameWaits DEF VWWaits
  <1>4. VWPalettes'
    BY <1>0, <1>a, <1>b DEF VWPalettes, VWWaits, VWThread
  <1>5. VWColours'
    BY <1>0, <1>a, <1>b, VWFrameColours DEF VWColours, VW!imageVars
  <1> QED
    BY <1>1, <1>2, <1>3, <1>4, <1>5 DEF VWInv

LEMMA VWDeleteApp ==
  ASSUME VWInv, VW!DeletePalette("app", "close")
  PROVE  VWInv'
  <1>0. VWTypes /\ VWLocks /\ VWWaits /\ VWPalettes /\ VWColours
    BY DEF VWInv
  <1>a. /\ vw_thread.app = "delete"
        /\ vw_inbox' = vw_inbox /\ vw_exists' = vw_exists
        /\ vw_palette' = VW!None /\ vw_window' = vw_window
        /\ vw_hpal' = VW!None /\ vw_wpal' = vw_wpal
        /\ UNCHANGED VW!imageVars
    BY DEF VW!DeletePalette, VW!At, VW!windowVars, VW!imageVars
  <1>b. VWThread(vw_thread.window, vw_thread.stream, "close")
    <2>1. VW!Goes("app", "close")
      BY DEF VW!DeletePalette
    <2> QED
      BY <1>0, <2>1, VWGoes DEF VWWindow, VWStream, VWApp
  <1>1. VWTypes'
    BY <1>0, <1>a, <1>b, VWFrameTypes DEF VWTypes, VW!imageVars
  <1>2. VWLocks'
    BY <1>0, <1>a, <1>b DEF VWLocks, VWWaits, VWThread, VW!None
  <1>3. VWWaits'
    BY <1>0, <1>a, <1>b, VWFrameWaits DEF VWWaits
  <1>4. VWPalettes'
    BY <1>0, <1>a, <1>b DEF VWPalettes, VWWaits, VWThread
  <1>5. VWColours'
    BY <1>0, <1>a, <1>b, VWFrameColours DEF VWColours, VW!imageVars
  <1> QED
    BY <1>1, <1>2, <1>3, <1>4, <1>5 DEF VWInv

LEMMA VWMakeNone ==
  ASSUME VWInv, VW!MakePalette, vw_format = VW!None
  PROVE  VWInv'
  <1>0. VWTypes /\ VWLocks /\ VWWaits /\ VWPalettes /\ VWColours
    BY DEF VWInv
  <1>a. /\ vw_thread.stream = "make" /\ vw_format = VW!None
        /\ vw_inbox' = vw_inbox /\ vw_exists' = vw_exists
        /\ UNCHANGED <<vw_window, vw_palette>>
        /\ UNCHANGED <<vw_hpal, vw_live>> /\ vw_wpal' = vw_wpal
        /\ UNCHANGED VW!imageVars
    BY DEF VW!MakePalette, VW!At, VW!windowVars, VW!imageVars
  <1>b. VWThread(vw_thread.window, "idle", vw_thread.app)
    <2>1. VW!Goes("stream", "idle")
      BY DEF VW!MakePalette
    <2> QED
      BY <1>0, <2>1, VWGoes DEF VWWindow, VWStream, VWApp
  <1>1. VWTypes'
    BY <1>0, <1>a, <1>b, VWFrameTypes DEF VWTypes, VW!imageVars
  <1>2. VWLocks'
    BY <1>0, <1>a, <1>b, VWFrameLocks DEF VWLocks
  <1>3. VWWaits'
    BY <1>0, <1>a, <1>b, VWFrameWaits DEF VWWaits
  <1>4. VWPalettes'
    BY <1>0, <1>a, <1>b, VWFramePalettes DEF VWPalettes
  <1>5. VWColours'
    BY <1>0, <1>a, <1>b DEF VWColours, VWThread, VW!imageVars, VW!RightColours
  <1> QED
    BY <1>1, <1>2, <1>3, <1>4, <1>5 DEF VWInv

LEMMA VWMake ==
  ASSUME VWInv, VW!MakePalette, vw_format # VW!None
  PROVE  VWInv'
  <1>0. VWTypes /\ VWLocks /\ VWWaits /\ VWPalettes /\ VWColours
    BY DEF VWInv
  <1>a. /\ vw_thread.stream = "make"
        /\ vw_inbox' = vw_inbox /\ vw_exists' = vw_exists
        /\ UNCHANGED <<vw_window, vw_palette>>
        /\ vw_hpal' = vw_format /\ vw_live' = vw_live \cup {vw_format} /\ vw_wpal' = vw_wpal
        /\ UNCHANGED VW!imageVars
    BY DEF VW!MakePalette, VW!At, VW!windowVars, VW!imageVars
  <1>b. VWThread(vw_thread.window, "install", vw_thread.app)
    <2>1. VW!Goes("stream", "install")
      BY DEF VW!MakePalette
    <2> QED
      BY <1>0, <2>1, VWGoes DEF VWWindow, VWStream, VWApp
  <1>1. VWTypes'
    BY <1>0, <1>a, <1>b, VWFrameTypes DEF VWTypes, VW!imageVars
  <1>2. VWLocks'
    BY <1>0, <1>a, <1>b, VWFrameLocks DEF VWLocks
  <1>3. VWWaits'
    BY <1>0, <1>a, <1>b, VWFrameWaits DEF VWWaits
  <1>4. VWPalettes'
    BY <1>0, <1>a, <1>b DEF VWPalettes, VWWaits, VWThread
  <1>5. VWColours'
    BY <1>0, <1>a, <1>b, VWFrameColours DEF VWColours, VW!imageVars
  <1> QED
    BY <1>1, <1>2, <1>3, <1>4, <1>5 DEF VWInv

LEMMA VWLockWindow ==
  ASSUME VWInv, VW!LockWindow
  PROVE  VWInv'
  <1>0. VWTypes /\ VWLocks /\ VWWaits /\ VWPalettes /\ VWColours
    BY DEF VWInv
  <1>a. /\ vw_thread.stream = "install"
        /\ vw_inbox' = vw_inbox /\ vw_exists' = vw_exists
        /\ vw_window = VW!None /\ vw_window' = "stream" /\ vw_palette' = vw_palette
        /\ UNCHANGED <<vw_wpal, vw_hpal, vw_live>>
        /\ UNCHANGED VW!imageVars
    BY DEF VW!LockWindow, VW!At, VW!windowVars, VW!imageVars
  <1>b. VWThread(vw_thread.window, "install2", vw_thread.app)
    <2>1. VW!Goes("stream", "install2")
      BY DEF VW!LockWindow
    <2> QED
      BY <1>0, <2>1, VWGoes DEF VWWindow, VWStream, VWApp
  <1>1. VWTypes'
    BY <1>0, <1>a, <1>b, VWFrameTypes DEF VWTypes, VW!imageVars
  <1>2. VWLocks'
    BY <1>0, <1>a, <1>b DEF VWLocks, VWThread, VW!None
  <1>3. VWWaits'
    BY <1>0, <1>a, <1>b, VWFrameWaits DEF VWWaits
  <1>4. VWPalettes'
    BY <1>0, <1>a, <1>b, VWFramePalettes DEF VWPalettes
  <1>5. VWColours'
    BY <1>0, <1>a, <1>b, VWFrameColours DEF VWColours, VW!imageVars
  <1> QED
    BY <1>1, <1>2, <1>3, <1>4, <1>5 DEF VWInv

LEMMA VWSelects ==
  ASSUME VWInv, VW!SetPalette, VW!Goes("stream", "set"), UNCHANGED vw_inbox
  PROVE  VWInv'
  <1>0. VWTypes /\ VWLocks /\ VWWaits /\ VWPalettes /\ VWColours
    BY DEF VWInv
  <1>a. /\ vw_thread.stream = "install2"
        /\ vw_inbox' = vw_inbox /\ vw_exists' = vw_exists
        /\ vw_window' = VW!None /\ vw_palette' = vw_palette
        /\ vw_wpal' = vw_hpal /\ UNCHANGED <<vw_hpal, vw_live>>
        /\ UNCHANGED VW!imageVars
    BY DEF VW!SetPalette, VW!At, VW!windowVars, VW!imageVars
  <1>b. VWThread(vw_thread.window, "set", vw_thread.app)
    <2>1. VW!Goes("stream", "set")
      BY DEF VW!SetPalette
    <2> QED
      BY <1>0, <2>1, VWGoes DEF VWWindow, VWStream, VWApp
  <1>1. VWTypes'
    BY <1>0, <1>a, <1>b, VWFrameTypes DEF VWTypes, VW!imageVars
  <1>2. VWLocks'
    BY <1>0, <1>a, <1>b DEF VWLocks, VWThread, VW!None
  <1>3. VWWaits'
    BY <1>0, <1>a, <1>b, VWFrameWaits DEF VWWaits
  <1>4. VWPalettes'
    BY <1>0, <1>a, <1>b DEF VWPalettes, VWWaits, VWThread
  <1>5. VWColours'
    BY <1>0, <1>a, <1>b, VWFrameColours DEF VWColours, VW!imageVars
  <1> QED
    BY <1>1, <1>2, <1>3, <1>4, <1>5 DEF VWInv

LEMMA VWSends ==
  ASSUME VWInv, VW!SetPalette, VW!Goes("stream", "sent"), vw_exists, vw_inbox' = vw_inbox \cup {<<"realize", "stream">>}
  PROVE  VWInv'
  <1>0. VWTypes /\ VWLocks /\ VWWaits /\ VWPalettes /\ VWColours
    BY DEF VWInv
  <1>a. /\ vw_thread.stream = "install2"
        /\ vw_exists' = vw_exists
        /\ vw_window' = VW!None /\ vw_palette' = vw_palette
        /\ vw_wpal' = vw_hpal /\ UNCHANGED <<vw_hpal, vw_live>>
        /\ UNCHANGED VW!imageVars
    BY DEF VW!SetPalette, VW!At, VW!windowVars, VW!imageVars
  <1>b. VWThread(vw_thread.window, "sent", vw_thread.app)
    <2>1. VW!Goes("stream", "sent")
      BY DEF VW!SetPalette
    <2> QED
      BY <1>0, <2>1, VWGoes DEF VWWindow, VWStream, VWApp
  <1>1. VWTypes'
    BY <1>0, <1>a, <1>b, VWFrameTypes DEF VWTypes, VWMessages
  <1>2. VWLocks'
    BY <1>0, <1>a, <1>b DEF VWLocks, VWThread, VW!None
  <1>3. VWWaits'
    <2>1. vw_thread.app = "idle" /\ <<"realize", "stream">> \notin vw_inbox
          /\ vw_thread.window # "answer"
      BY <1>0, <1>a DEF VWWaits
    <2> QED
      BY <1>0, <1>a, <1>b, <2>1 DEF VWWaits, VWThread
  <1>4. VWPalettes'
    BY <1>0, <1>a, <1>b DEF VWPalettes, VWWaits, VWThread
  <1>5. VWColours'
    BY <1>0, <1>a, <1>b, VWFrameColours DEF VWColours, VW!imageVars
  <1> QED
    BY <1>1, <1>2, <1>3, <1>4, <1>5 DEF VWInv

LEMMA VWIncrement ==
  ASSUME VWInv, VW!IncrementPaletteVersion
  PROVE  VWInv'
  <1>0. VWTypes /\ VWLocks /\ VWWaits /\ VWPalettes /\ VWColours
    BY DEF VWInv
  <1>a. /\ vw_thread.stream = "set"
        /\ vw_version' = vw_version + 1
        /\ vw_inbox' = vw_inbox /\ vw_exists' = vw_exists
        /\ UNCHANGED <<vw_window, vw_palette>>
        /\ UNCHANGED <<vw_wpal, vw_hpal, vw_live>>
        /\ UNCHANGED <<vw_format, vw_sample, vw_shown>>
    BY DEF VW!IncrementPaletteVersion, VW!At, VW!windowVars, VW!imageVars
  <1>b. VWThread(vw_thread.window, "idle", vw_thread.app)
    <2>1. VW!Goes("stream", "idle")
      BY DEF VW!IncrementPaletteVersion
    <2> QED
      BY <1>0, <2>1, VWGoes DEF VWWindow, VWStream, VWApp
  <1>1. VWTypes'
    BY <1>0, <1>a, <1>b DEF VWTypes, VWThread
  <1>2. VWLocks'
    BY <1>0, <1>a, <1>b, VWFrameLocks DEF VWLocks
  <1>3. VWWaits'
    BY <1>0, <1>a, <1>b, VWFrameWaits DEF VWWaits
  <1>4. VWPalettes'
    BY <1>0, <1>a, <1>b, VWFramePalettes DEF VWPalettes
  <1>5. VWColours'
    <2>1. vw_version \in Nat \ {0} /\ \A s \in vw_Samples : vw_sample[s][1] \in Nat
      BY <1>0 DEF VWTypes
    <2> QED
      BY <1>0, <1>a, <1>b, <2>1 DEF VWColours, VWThread, VW!RightColours
  <1> QED
    BY <1>1, <1>2, <1>3, <1>4, <1>5 DEF VWInv

LEMMA VWAlloc ==
  ASSUME VWInv, VW!Alloc
  PROVE  VWInv'
  <1>0. VWTypes /\ VWLocks /\ VWWaits /\ VWPalettes /\ VWColours
    BY DEF VWInv
  <1>a. /\ vw_thread.stream = "idle"
        /\ vw_inbox' = vw_inbox /\ vw_exists' = vw_exists
        /\ UNCHANGED <<vw_window, vw_palette>>
        /\ UNCHANGED <<vw_wpal, vw_hpal, vw_live>>
        /\ UNCHANGED <<vw_format, vw_version, vw_shown>>
        /\ \E made \in SUBSET vw_Samples : vw_sample' = [s \in vw_Samples |-> IF s \in made THEN <<1, vw_format>> ELSE <<0, VW!None>>]
    BY DEF VW!Alloc, VW!At, VW!windowVars, VW!imageVars, VW!NoSample, VW!PALETTE_VERSION
  <1>b. VWThread(vw_thread.window, vw_thread.stream, vw_thread.app)
    <2>1. UNCHANGED vw_thread
      BY DEF VW!Alloc
    <2> QED
      BY <1>0, <2>1, VWGoes DEF VWWindow, VWStream, VWApp
  <1>1. VWTypes'
    <2>1. vw_format \in VWSomePalette /\ VW!None \in VWSomePalette
      BY <1>0 DEF VWTypes, VWSomePalette
    <2>2. vw_sample' \in [vw_Samples -> Nat \X VWSomePalette]
      BY <1>a, <2>1
    <2> QED
      BY <1>0, <1>a, <1>b, <2>2 DEF VWTypes, VWThread
  <1>2. VWLocks'
    BY <1>0, <1>a, <1>b, VWFrameLocks DEF VWLocks
  <1>3. VWWaits'
    BY <1>0, <1>a, <1>b, VWFrameWaits DEF VWWaits
  <1>4. VWPalettes'
    BY <1>0, <1>a, <1>b, VWFramePalettes DEF VWPalettes
  <1>5. VWColours'
    <2>1. vw_version \in Nat \ {0}
      BY <1>0 DEF VWTypes
    <2>2. \A s \in vw_Samples : vw_sample'[s] = <<1, vw_format>> \/ vw_sample'[s] = <<0, VW!None>>
      BY <1>a
    <2>3. \A s \in vw_Samples : /\ vw_sample'[s][1] <= vw_version
                                /\ vw_sample'[s][1] = vw_version => vw_sample'[s][2] = vw_format
      BY <2>1, <2>2
    <2> QED
      BY <1>0, <1>a, <1>b, <2>3 DEF VWColours, VWThread, VW!RightColours
  <1> QED
    BY <1>1, <1>2, <1>3, <1>4, <1>5 DEF VWInv

LEMMA VWFree ==
  ASSUME VWInv, VW!Free
  PROVE  VWInv'
  <1>0. VWTypes /\ VWLocks /\ VWWaits /\ VWPalettes /\ VWColours
    BY DEF VWInv
  <1>a. /\ vw_thread.stream = "idle"
        /\ vw_inbox' = vw_inbox /\ vw_exists' = vw_exists
        /\ UNCHANGED <<vw_window, vw_palette>>
        /\ UNCHANGED <<vw_wpal, vw_hpal, vw_live>>
        /\ UNCHANGED <<vw_format, vw_version, vw_shown>>
        /\ \E made \in SUBSET vw_Samples : vw_sample' = [s \in vw_Samples |-> IF s \in made THEN <<1, vw_format>> ELSE <<0, VW!None>>]
    <2>1. vw_sample' = [s \in vw_Samples |-> IF s \in {} THEN <<1, vw_format>> ELSE <<0, VW!None>>]
      BY DEF VW!Free, VW!NoSample
    <2>2. \E made \in SUBSET vw_Samples : vw_sample' = [s \in vw_Samples |-> IF s \in made THEN <<1, vw_format>> ELSE <<0, VW!None>>]
      <3> WITNESS {} \in SUBSET vw_Samples
      <3> QED
        BY <2>1
    <2> QED
      BY <2>2 DEF VW!Free, VW!At, VW!windowVars, VW!imageVars
  <1>b. VWThread(vw_thread.window, vw_thread.stream, vw_thread.app)
    <2>1. UNCHANGED vw_thread
      BY DEF VW!Free
    <2> QED
      BY <1>0, <2>1, VWGoes DEF VWWindow, VWStream, VWApp
  <1>1. VWTypes'
    <2>1. vw_format \in VWSomePalette /\ VW!None \in VWSomePalette
      BY <1>0 DEF VWTypes, VWSomePalette
    <2>2. vw_sample' \in [vw_Samples -> Nat \X VWSomePalette]
      BY <1>a, <2>1
    <2> QED
      BY <1>0, <1>a, <1>b, <2>2 DEF VWTypes, VWThread
  <1>2. VWLocks'
    BY <1>0, <1>a, <1>b, VWFrameLocks DEF VWLocks
  <1>3. VWWaits'
    BY <1>0, <1>a, <1>b, VWFrameWaits DEF VWWaits
  <1>4. VWPalettes'
    BY <1>0, <1>a, <1>b, VWFramePalettes DEF VWPalettes
  <1>5. VWColours'
    <2>1. vw_version \in Nat \ {0}
      BY <1>0 DEF VWTypes
    <2>2. \A s \in vw_Samples : vw_sample'[s] = <<1, vw_format>> \/ vw_sample'[s] = <<0, VW!None>>
      BY <1>a
    <2>3. \A s \in vw_Samples : /\ vw_sample'[s][1] <= vw_version
                                /\ vw_sample'[s][1] = vw_version => vw_sample'[s][2] = vw_format
      BY <2>1, <2>2
    <2> QED
      BY <1>0, <1>a, <1>b, <2>3 DEF VWColours, VWThread, VW!RightColours
  <1> QED
    BY <1>1, <1>2, <1>3, <1>4, <1>5 DEF VWInv

LEMMA VWDraw ==
  ASSUME VWInv, VW!DrawImage
  PROVE  VWInv'
  <1>0. VWTypes /\ VWLocks /\ VWWaits /\ VWPalettes /\ VWColours
    BY DEF VWInv
  <1>a. /\ vw_thread.stream = "idle"
        /\ vw_inbox' = vw_inbox /\ vw_exists' = vw_exists
        /\ UNCHANGED <<vw_window, vw_palette>>
        /\ UNCHANGED <<vw_wpal, vw_hpal, vw_live>>
        /\ UNCHANGED <<vw_format, vw_version>>
    BY DEF VW!DrawImage, VW!At, VW!windowVars, VW!imageVars
  <1>b. VWThread(vw_thread.window, vw_thread.stream, vw_thread.app)
    <2>1. UNCHANGED vw_thread
      BY DEF VW!DrawImage
    <2> QED
      BY <1>0, <2>1, VWGoes DEF VWWindow, VWStream, VWApp
  <1>1. VWTypes'
    <2>0. PICK s \in vw_Samples : /\ vw_sample[s][1] < vw_version => vw_sample' = [vw_sample EXCEPT ![s] = <<vw_version, vw_format>>]
                                  /\ ~(vw_sample[s][1] < vw_version) => vw_sample' = vw_sample
      BY DEF VW!DrawImage
    <2>1. <<vw_version, vw_format>> \in Nat \X VWSomePalette
      BY <1>0 DEF VWTypes
    <2>2. vw_sample' \in [vw_Samples -> Nat \X VWSomePalette]
      BY <1>0, <2>0, <2>1 DEF VWTypes
    <2> QED
      BY <1>0, <1>a, <1>b, <2>2 DEF VWTypes, VWThread
  <1>2. VWLocks'
    BY <1>0, <1>a, <1>b, VWFrameLocks DEF VWLocks
  <1>3. VWWaits'
    BY <1>0, <1>a, <1>b, VWFrameWaits DEF VWWaits
  <1>4. VWPalettes'
    BY <1>0, <1>a, <1>b, VWFramePalettes DEF VWPalettes
  <1>5. VWColours'
    <2>1. vw_version \in Nat \ {0} /\ vw_sample \in [vw_Samples -> Nat \X VWSomePalette]
      BY <1>0 DEF VWTypes
    <2>2. PICK s \in vw_Samples : /\ vw_sample[s][1] < vw_version => vw_sample' = [vw_sample EXCEPT ![s] = <<vw_version, vw_format>>]
                                  /\ ~(vw_sample[s][1] < vw_version) => vw_sample' = vw_sample
                                  /\ vw_shown' = <<vw_sample'[s][2], vw_format>>
      BY DEF VW!DrawImage
    <2>3. /\ \A x \in vw_Samples : vw_sample[x][1] <= vw_version /\ vw_sample[x][1] \in Nat
          /\ vw_format # VW!None => \A x \in vw_Samples : vw_sample[x][1] = vw_version => vw_sample[x][2] = vw_format
      BY <1>0, <1>a, <2>1 DEF VWColours
    <2>4. /\ \A x \in vw_Samples : vw_sample'[x][1] <= vw_version
          /\ vw_format # VW!None => \A x \in vw_Samples : vw_sample'[x][1] = vw_version => vw_sample'[x][2] = vw_format
      <3>1. CASE vw_sample[s][1] < vw_version
        BY <2>1, <2>2, <2>3, <3>1
      <3>2. CASE ~(vw_sample[s][1] < vw_version)
        BY <2>2, <2>3, <3>2
      <3> QED
        BY <3>1, <3>2
    <2>5. vw_format # VW!None => vw_sample'[s][2] = vw_format
      <3>1. CASE vw_sample[s][1] < vw_version
        BY <2>1, <2>2, <3>1
      <3>2. CASE ~(vw_sample[s][1] < vw_version)
        BY <2>1, <2>2, <2>3, <3>2
      <3> QED
        BY <3>1, <3>2
    <2>6. (vw_shown[2] # VW!None => vw_shown[1] = vw_shown[2])'
      BY <2>2, <2>5, <1>a
    <2> QED
      BY <1>0, <1>a, <1>b, <2>4, <2>6 DEF VWColours, VWThread, VW!RightColours
  <1> QED
    BY <1>1, <1>2, <1>3, <1>4, <1>5 DEF VWInv

LEMMA VWActivate ==
  ASSUME VWInv, VW!ActivateWindow
  PROVE  VWInv'
  <1>0. VWTypes /\ VWLocks /\ VWWaits /\ VWPalettes /\ VWColours
    BY DEF VWInv
  <1>a. /\ vw_inbox' = vw_inbox /\ vw_exists' = vw_exists
        /\ UNCHANGED <<vw_window, vw_palette>>
        /\ UNCHANGED <<vw_wpal, vw_hpal, vw_live>>
        /\ UNCHANGED VW!imageVars
    BY DEF VW!ActivateWindow, VW!At, VW!windowVars, VW!imageVars
  <1>b. VWThread(vw_thread.window, vw_thread.stream, vw_thread.app)
    <2>1. UNCHANGED vw_thread
      BY DEF VW!ActivateWindow
    <2> QED
      BY <1>0, <2>1, VWGoes DEF VWWindow, VWStream, VWApp
  <1>1. VWTypes'
    BY <1>0, <1>a, <1>b, VWFrameTypes DEF VWTypes, VW!imageVars
  <1>2. VWLocks'
    BY <1>0, <1>a, <1>b, VWFrameLocks DEF VWLocks
  <1>3. VWWaits'
    BY <1>0, <1>a, <1>b, VWFrameWaits DEF VWWaits
  <1>4. VWPalettes'
    BY <1>0, <1>a, <1>b, VWFramePalettes DEF VWPalettes
  <1>5. VWColours'
    BY <1>0, <1>a, <1>b, VWFrameColours DEF VWColours, VW!imageVars
  <1> QED
    BY <1>1, <1>2, <1>3, <1>4, <1>5 DEF VWInv

LEMMA VWPut ==
  ASSUME VWInv, VW!put_BackgroundPalette
  PROVE  VWInv'
  <1>0. VWTypes /\ VWLocks /\ VWWaits /\ VWPalettes /\ VWColours
    BY DEF VWInv
  <1>a. /\ vw_exists /\ vw_exists' = vw_exists
        /\ vw_inbox' = vw_inbox \cup {<<"realize", VW!None>>}
        /\ UNCHANGED <<vw_window, vw_palette>>
        /\ UNCHANGED <<vw_wpal, vw_hpal, vw_live>>
        /\ UNCHANGED VW!imageVars
    BY DEF VW!put_BackgroundPalette, VW!At, VW!windowVars, VW!imageVars
  <1>b. VWThread(vw_thread.window, vw_thread.stream, vw_thread.app)
    <2>1. UNCHANGED vw_thread
      BY DEF VW!put_BackgroundPalette
    <2> QED
      BY <1>0, <2>1, VWGoes DEF VWWindow, VWStream, VWApp
  <1>1. VWTypes'
    BY <1>0, <1>a, <1>b, VWFrameTypes DEF VWTypes, VWMessages
  <1>2. VWLocks'
    BY <1>0, <1>a, <1>b, VWFrameLocks DEF VWLocks
  <1>3. VWWaits'
    BY <1>0, <1>a, <1>b DEF VWWaits, VWThread, VW!None
  <1>4. VWPalettes'
    BY <1>0, <1>a, <1>b, VWFramePalettes DEF VWPalettes
  <1>5. VWColours'
    BY <1>0, <1>a, <1>b, VWFrameColours DEF VWColours, VW!imageVars
  <1> QED
    BY <1>1, <1>2, <1>3, <1>4, <1>5 DEF VWInv

LEMMA VWBreak ==
  ASSUME VWInv, VW!BreakConnect
  PROVE  VWInv'
  <1>0. VWTypes /\ VWLocks /\ VWWaits /\ VWPalettes /\ VWColours
    BY DEF VWInv
  <1>a. /\ vw_thread.stream = "idle" /\ vw_thread.app = "idle"
        /\ vw_inbox' = vw_inbox /\ vw_exists' = vw_exists
        /\ UNCHANGED <<vw_window, vw_palette>>
        /\ UNCHANGED <<vw_wpal, vw_hpal, vw_live>>
        /\ UNCHANGED VW!imageVars
    BY DEF VW!BreakConnect, VW!At, VW!windowVars, VW!imageVars
  <1>b. VWThread(vw_thread.window, vw_thread.stream, "remove")
    <2>1. VW!Goes("app", "remove")
      BY DEF VW!BreakConnect
    <2> QED
      BY <1>0, <2>1, VWGoes DEF VWWindow, VWStream, VWApp
  <1>1. VWTypes'
    BY <1>0, <1>a, <1>b, VWFrameTypes DEF VWTypes, VW!imageVars
  <1>2. VWLocks'
    BY <1>0, <1>a, <1>b, VWFrameLocks DEF VWLocks
  <1>3. VWWaits'
    BY <1>0, <1>a, <1>b, VWFrameWaits DEF VWWaits
  <1>4. VWPalettes'
    BY <1>0, <1>a, <1>b, VWFramePalettes DEF VWPalettes
  <1>5. VWColours'
    BY <1>0, <1>a, <1>b, VWFrameColours DEF VWColours, VW!imageVars
  <1> QED
    BY <1>1, <1>2, <1>3, <1>4, <1>5 DEF VWInv

LEMMA VWAsksToClose ==
  ASSUME VWInv, VW!DoneWithWindow, vw_exists
  PROVE  VWInv'
  <1>0. VWTypes /\ VWLocks /\ VWWaits /\ VWPalettes /\ VWColours
    BY DEF VWInv
  <1>a. /\ vw_thread.app = "close"
        /\ vw_exists /\ vw_exists' = vw_exists
        /\ vw_inbox' = vw_inbox \cup {<<"destroy", VW!None>>} \/ vw_inbox' = vw_inbox \cup {<<"destroy", "app">>}
        /\ UNCHANGED <<vw_window, vw_palette>>
        /\ UNCHANGED <<vw_wpal, vw_hpal, vw_live>>
        /\ UNCHANGED VW!imageVars
    BY DEF VW!DoneWithWindow, VW!At, VW!windowVars, VW!imageVars
  <1>b. VWThread(vw_thread.window, vw_thread.stream, "waits")
    <2>1. VW!Goes("app", "waits")
      BY DEF VW!DoneWithWindow
    <2> QED
      BY <1>0, <2>1, VWGoes DEF VWWindow, VWStream, VWApp
  <1>1. VWTypes'
    BY <1>0, <1>a, <1>b, VWFrameTypes DEF VWTypes, VWMessages
  <1>2. VWLocks'
    BY <1>0, <1>a, <1>b, VWFrameLocks DEF VWLocks
  <1>3. VWWaits'
    <2>1. \E m \in vw_inbox' : m[1] = "destroy"
      <3>1. <<"destroy", VW!None>> \in vw_inbox' \/ <<"destroy", "app">> \in vw_inbox'
        BY <1>a
      <3> QED
        BY <3>1
    <2>2. <<"realize", "stream">> \in vw_inbox' <=> <<"realize", "stream">> \in vw_inbox
      BY <1>a
    <2> QED
      BY <1>0, <1>a, <1>b, <2>1, <2>2 DEF VWWaits, VWThread
  <1>4. VWPalettes'
    BY <1>0, <1>a, <1>b, VWFramePalettes DEF VWPalettes
  <1>5. VWColours'
    BY <1>0, <1>a, <1>b, VWFrameColours DEF VWColours, VW!imageVars
  <1> QED
    BY <1>1, <1>2, <1>3, <1>4, <1>5 DEF VWInv

LEMMA VWNothingToClose ==
  ASSUME VWInv, VW!DoneWithWindow, ~vw_exists
  PROVE  VWInv'
  <1>0. VWTypes /\ VWLocks /\ VWWaits /\ VWPalettes /\ VWColours
    BY DEF VWInv
  <1>a. /\ vw_thread.app = "close"
        /\ vw_inbox' = vw_inbox /\ vw_exists' = vw_exists
        /\ UNCHANGED <<vw_window, vw_palette>>
        /\ UNCHANGED <<vw_wpal, vw_hpal, vw_live>>
        /\ UNCHANGED VW!imageVars
    BY DEF VW!DoneWithWindow, VW!At, VW!windowVars, VW!imageVars
  <1>b. VWThread(vw_thread.window, vw_thread.stream, "closed")
    <2>1. VW!Goes("app", "closed")
      BY DEF VW!DoneWithWindow
    <2> QED
      BY <1>0, <2>1, VWGoes DEF VWWindow, VWStream, VWApp
  <1>1. VWTypes'
    BY <1>0, <1>a, <1>b, VWFrameTypes DEF VWTypes, VW!imageVars
  <1>2. VWLocks'
    BY <1>0, <1>a, <1>b, VWFrameLocks DEF VWLocks
  <1>3. VWWaits'
    BY <1>0, <1>a, <1>b, VWFrameWaits DEF VWWaits
  <1>4. VWPalettes'
    BY <1>0, <1>a, <1>b, VWFramePalettes DEF VWPalettes
  <1>5. VWColours'
    BY <1>0, <1>a, <1>b, VWFrameColours DEF VWColours, VW!imageVars
  <1> QED
    BY <1>1, <1>2, <1>3, <1>4, <1>5 DEF VWInv

LEMMA VWDone ==
  ASSUME VWInv, VW!WindowDone
  PROVE  VWInv'
  <1>0. VWTypes /\ VWLocks /\ VWWaits /\ VWPalettes /\ VWColours
    BY DEF VWInv
  <1>a. /\ vw_thread.app = "closed"
        /\ vw_inbox' = vw_inbox /\ vw_exists' = vw_exists
        /\ UNCHANGED <<vw_window, vw_palette>>
        /\ UNCHANGED <<vw_wpal, vw_hpal, vw_live>>
        /\ UNCHANGED VW!imageVars
    BY DEF VW!WindowDone, VW!At, VW!windowVars, VW!imageVars
  <1>b. VWThread(vw_thread.window, vw_thread.stream, "done")
    <2>1. VW!Goes("app", "done")
      BY DEF VW!WindowDone
    <2> QED
      BY <1>0, <2>1, VWGoes DEF VWWindow, VWStream, VWApp
  <1>1. VWTypes'
    BY <1>0, <1>a, <1>b, VWFrameTypes DEF VWTypes, VW!imageVars
  <1>2. VWLocks'
    BY <1>0, <1>a, <1>b, VWFrameLocks DEF VWLocks
  <1>3. VWWaits'
    BY <1>0, <1>a, <1>b, VWFrameWaits DEF VWWaits
  <1>4. VWPalettes'
    BY <1>0, <1>a, <1>b, VWFramePalettes DEF VWPalettes
  <1>5. VWColours'
    BY <1>0, <1>a, <1>b, VWFrameColours DEF VWColours, VW!imageVars
  <1> QED
    BY <1>1, <1>2, <1>3, <1>4, <1>5 DEF VWInv

LEMMA VWRealises ==
  ASSUME VWInv, VW!DoRealisePalette, vw_thread.window = "realise"
  PROVE  VWInv'
  <1>0. VWTypes /\ VWLocks /\ VWWaits /\ VWPalettes /\ VWColours
    BY DEF VWInv
  <1>a. /\ vw_inbox' = vw_inbox /\ vw_exists' = vw_exists
        /\ UNCHANGED <<vw_window, vw_palette>>
        /\ UNCHANGED <<vw_wpal, vw_hpal, vw_live>>
        /\ UNCHANGED VW!imageVars
    BY DEF VW!DoRealisePalette, VW!At, VW!windowVars, VW!imageVars
  <1>b. VWThread("pump", vw_thread.stream, vw_thread.app)
    <2>1. VW!Answered(VW!None)
      BY DEF VW!DoRealisePalette, VW!At
    <2>2. VWThread("pump", IF VW!None = "stream" THEN "set" ELSE vw_thread.stream, vw_thread.app)
      BY <1>0, <2>1, VWGoes
    <2> QED
      BY <2>2 DEF VW!None
  <1>1. VWTypes'
    BY <1>0, <1>a, <1>b, VWFrameTypes DEF VWTypes, VW!imageVars
  <1>2. VWLocks'
    BY <1>0, <1>a, <1>b, VWFrameLocks DEF VWLocks
  <1>3. VWWaits'
    BY <1>0, <1>a, <1>b, VWFrameWaits DEF VWWaits
  <1>4. VWPalettes'
    BY <1>0, <1>a, <1>b, VWFramePalettes DEF VWPalettes
  <1>5. VWColours'
    BY <1>0, <1>a, <1>b, VWFrameColours DEF VWColours, VW!imageVars
  <1> QED
    BY <1>1, <1>2, <1>3, <1>4, <1>5 DEF VWInv

LEMMA VWAnswers ==
  ASSUME VWInv, VW!DoRealisePalette, vw_thread.window = "answer"
  PROVE  VWInv'
  <1>0. VWTypes /\ VWLocks /\ VWWaits /\ VWPalettes /\ VWColours
    BY DEF VWInv
  <1>a. /\ vw_thread.stream = "sent"
        /\ vw_inbox' = vw_inbox /\ vw_exists' = vw_exists
        /\ UNCHANGED <<vw_window, vw_palette>>
        /\ UNCHANGED <<vw_wpal, vw_hpal, vw_live>>
        /\ UNCHANGED VW!imageVars
    BY <1>0 DEF VW!DoRealisePalette, VW!At, VW!windowVars, VW!imageVars, VWWaits
  <1>b. VWThread("pump", "set", vw_thread.app)
    <2>1. VW!Answered("stream")
      BY DEF VW!DoRealisePalette, VW!At
    <2>2. VWThread("pump", IF "stream" = "stream" THEN "set" ELSE vw_thread.stream, vw_thread.app)
      BY <1>0, <2>1, VWGoes
    <2> QED
      BY <2>2
  <1>1. VWTypes'
    BY <1>0, <1>a, <1>b, VWFrameTypes DEF VWTypes, VW!imageVars
  <1>2. VWLocks'
    BY <1>0, <1>a, <1>b, VWFrameLocks DEF VWLocks
  <1>3. VWWaits'
    <2>1. <<"realize", "stream">> \notin vw_inbox /\ vw_thread.app = "idle"
      BY <1>0, <1>a DEF VWWaits
    <2> QED
      BY <1>0, <1>a, <1>b, <2>1 DEF VWWaits, VWThread
  <1>4. VWPalettes'
    BY <1>0, <1>a, <1>b, VWFramePalettes DEF VWPalettes
  <1>5. VWColours'
    BY <1>0, <1>a, <1>b, VWFrameColours DEF VWColours, VW!imageVars
  <1> QED
    BY <1>1, <1>2, <1>3, <1>4, <1>5 DEF VWInv

LEMMA VWDestroys ==
  ASSUME VWInv, VW!OnDestroy
  PROVE  VWInv'
  <1>0. VWTypes /\ VWLocks /\ VWWaits /\ VWPalettes /\ VWColours
    BY DEF VWInv
  <1>a. /\ vw_inbox' = {} /\ vw_exists' = FALSE
        /\ vw_thread.window = "pump"
        /\ \E m \in vw_inbox : m[1] = "destroy"
        /\ vw_thread.app = "waits" /\ vw_thread.stream = "idle"
        /\ UNCHANGED <<vw_window, vw_palette>>
        /\ UNCHANGED <<vw_wpal, vw_hpal, vw_live>>
        /\ UNCHANGED VW!imageVars
    BY <1>0 DEF VW!OnDestroy, VW!At, VW!windowVars, VW!imageVars, VWWaits
  <1>b. VWThread("pump", vw_thread.stream, "closed")
    BY <1>0, <1>a DEF VW!OnDestroy, VWThread, VWTypes, VWWindow, VWStream, VWApp
  <1>1. VWTypes'
    BY <1>0, <1>a, <1>b, VWFrameTypes DEF VWTypes
  <1>2. VWLocks'
    BY <1>0, <1>a, <1>b, VWFrameLocks DEF VWLocks
  <1>3. VWWaits'
    BY <1>0, <1>a, <1>b DEF VWWaits, VWThread
  <1>4. VWPalettes'
    BY <1>0, <1>a, <1>b, VWFramePalettes DEF VWPalettes
  <1>5. VWColours'
    BY <1>0, <1>a, <1>b, VWFrameColours DEF VWColours, VW!imageVars
  <1> QED
    BY <1>1, <1>2, <1>3, <1>4, <1>5 DEF VWInv

LEMMA VWTakesPost ==
  ASSUME VWInv, NEW m \in vw_inbox, m = <<"realize", VW!None>>, vw_hwnd, VWRealizePalette(m)
  PROVE  VWInv'
  <1>0. VWTypes /\ VWLocks /\ VWWaits /\ VWPalettes /\ VWColours
    BY DEF VWInv
  <1>a. /\ vw_thread.window = "pump"
        /\ vw_inbox' = vw_inbox \ {m} /\ vw_exists' = vw_exists
        /\ UNCHANGED <<vw_window, vw_palette>>
        /\ UNCHANGED <<vw_wpal, vw_hpal, vw_live>>
        /\ UNCHANGED VW!imageVars
    BY DEF VWRealizePalette, VW!At, VW!windowVars, VW!imageVars
  <1>b. VWThread("realise", vw_thread.stream, vw_thread.app)
    <2>1. VW!Goes("window", "realise")
      BY DEF VWRealizePalette, VW!None
    <2> QED
      BY <1>0, <2>1, VWGoes DEF VWWindow, VWStream, VWApp
  <1>1. VWTypes'
    BY <1>0, <1>a, <1>b, VWFrameTypes DEF VWTypes
  <1>2. VWLocks'
    BY <1>0, <1>a, <1>b, VWFrameLocks DEF VWLocks
  <1>3. VWWaits'
    BY <1>0, <1>a, <1>b DEF VWWaits, VWThread, VW!None
  <1>4. VWPalettes'
    BY <1>0, <1>a, <1>b, VWFramePalettes DEF VWPalettes
  <1>5. VWColours'
    BY <1>0, <1>a, <1>b, VWFrameColours DEF VWColours, VW!imageVars
  <1> QED
    BY <1>1, <1>2, <1>3, <1>4, <1>5 DEF VWInv

LEMMA VWTakesSent ==
  ASSUME VWInv, NEW m \in vw_inbox, m = <<"realize", "stream">>, vw_hwnd, VWRealizePalette(m)
  PROVE  VWInv'
  <1>0. VWTypes /\ VWLocks /\ VWWaits /\ VWPalettes /\ VWColours
    BY DEF VWInv
  <1>a. /\ vw_thread.window = "pump"
        /\ vw_inbox' = vw_inbox \ {m} /\ vw_exists' = vw_exists
        /\ UNCHANGED <<vw_window, vw_palette>>
        /\ UNCHANGED <<vw_wpal, vw_hpal, vw_live>>
        /\ UNCHANGED VW!imageVars
        /\ vw_thread.stream = "sent" /\ vw_thread.app = "idle"
    BY <1>0 DEF VWRealizePalette, VW!At, VW!windowVars, VW!imageVars, VWWaits
  <1>b. VWThread("answer", vw_thread.stream, vw_thread.app)
    <2>1. VW!Goes("window", "answer")
      BY DEF VWRealizePalette, VW!None
    <2> QED
      BY <1>0, <2>1, VWGoes DEF VWWindow, VWStream, VWApp
  <1>1. VWTypes'
    BY <1>0, <1>a, <1>b, VWFrameTypes DEF VWTypes
  <1>2. VWLocks'
    BY <1>0, <1>a, <1>b, VWFrameLocks DEF VWLocks
  <1>3. VWWaits'
    BY <1>0, <1>a, <1>b DEF VWWaits, VWThread, VW!None
  <1>4. VWPalettes'
    BY <1>0, <1>a, <1>b, VWFramePalettes DEF VWPalettes
  <1>5. VWColours'
    BY <1>0, <1>a, <1>b, VWFrameColours DEF VWColours, VW!imageVars
  <1> QED
    BY <1>1, <1>2, <1>3, <1>4, <1>5 DEF VWInv

LEMMA VWDropsPost ==
  ASSUME VWInv, NEW m \in vw_inbox, m = <<"realize", VW!None>>, ~vw_hwnd, VWRealizePalette(m)
  PROVE  VWInv'
  <1>0. VWTypes /\ VWLocks /\ VWWaits /\ VWPalettes /\ VWColours
    BY DEF VWInv
  <1>a. /\ vw_thread.window = "pump"
        /\ vw_inbox' = vw_inbox \ {m} /\ vw_exists' = vw_exists
        /\ UNCHANGED <<vw_window, vw_palette>>
        /\ UNCHANGED <<vw_wpal, vw_hpal, vw_live>>
        /\ UNCHANGED VW!imageVars
    BY DEF VWRealizePalette, VW!At, VW!windowVars, VW!imageVars
  <1>b. VWThread("pump", vw_thread.stream, vw_thread.app)
    <2>1. VW!Answered(VW!None)
      BY DEF VWRealizePalette
    <2>2. VWThread("pump", IF VW!None = "stream" THEN "set" ELSE vw_thread.stream, vw_thread.app)
      BY <1>0, <2>1, VWGoes
    <2> QED
      BY <2>2 DEF VW!None
  <1>1. VWTypes'
    BY <1>0, <1>a, <1>b, VWFrameTypes DEF VWTypes
  <1>2. VWLocks'
    BY <1>0, <1>a, <1>b, VWFrameLocks DEF VWLocks
  <1>3. VWWaits'
    BY <1>0, <1>a, <1>b DEF VWWaits, VWThread, VW!None
  <1>4. VWPalettes'
    BY <1>0, <1>a, <1>b, VWFramePalettes DEF VWPalettes
  <1>5. VWColours'
    BY <1>0, <1>a, <1>b, VWFrameColours DEF VWColours, VW!imageVars
  <1> QED
    BY <1>1, <1>2, <1>3, <1>4, <1>5 DEF VWInv

LEMMA VWDropsSent ==
  ASSUME VWInv, NEW m \in vw_inbox, m = <<"realize", "stream">>, ~vw_hwnd, VWRealizePalette(m)
  PROVE  VWInv'
  <1>0. VWTypes /\ VWLocks /\ VWWaits /\ VWPalettes /\ VWColours
    BY DEF VWInv
  <1>a. /\ vw_thread.window = "pump"
        /\ vw_inbox' = vw_inbox \ {m} /\ vw_exists' = vw_exists
        /\ UNCHANGED <<vw_window, vw_palette>>
        /\ UNCHANGED <<vw_wpal, vw_hpal, vw_live>>
        /\ UNCHANGED VW!imageVars
        /\ vw_thread.stream = "sent" /\ vw_thread.app = "idle"
    BY <1>0 DEF VWRealizePalette, VW!At, VW!windowVars, VW!imageVars, VWWaits
  <1>b. VWThread("pump", "set", vw_thread.app)
    <2>1. VW!Answered("stream")
      BY DEF VWRealizePalette
    <2>2. VWThread("pump", IF "stream" = "stream" THEN "set" ELSE vw_thread.stream, vw_thread.app)
      BY <1>0, <2>1, VWGoes
    <2> QED
      BY <2>2
  <1>1. VWTypes'
    BY <1>0, <1>a, <1>b, VWFrameTypes DEF VWTypes
  <1>2. VWLocks'
    BY <1>0, <1>a, <1>b, VWFrameLocks DEF VWLocks
  <1>3. VWWaits'
    BY <1>0, <1>a, <1>b DEF VWWaits, VWThread, VW!None
  <1>4. VWPalettes'
    BY <1>0, <1>a, <1>b, VWFramePalettes DEF VWPalettes
  <1>5. VWColours'
    BY <1>0, <1>a, <1>b, VWFrameColours DEF VWColours, VW!imageVars
  <1> QED
    BY <1>1, <1>2, <1>3, <1>4, <1>5 DEF VWInv

LEMMA VWWindowThread ==
  ASSUME VWInv, VW!WindowThread
  PROVE  VWInv'
  <1>1. CASE VW!PrepareWindow
    BY <1>1, VWPrepare
  <1>2. CASE VW!OnRealizePalette
    <2>1. PICK m \in vw_inbox : VWRealizePalette(m)
      BY <1>2 DEF VW!OnRealizePalette, VWRealizePalette
    <2>2. m = <<"realize", VW!None>> \/ m = <<"realize", "stream">>
      BY <2>1 DEF VWInv, VWTypes, VWMessages, VWRealizePalette
    <2> QED
      BY <2>1, <2>2, VWTakesPost, VWTakesSent, VWDropsPost, VWDropsSent
  <1>3. CASE VW!DoRealisePalette
    <2>1. vw_thread.window = "realise" \/ vw_thread.window = "answer"
      BY <1>3 DEF VW!DoRealisePalette
    <2> QED
      BY <1>3, <2>1, VWRealises, VWAnswers
  <1>4. CASE VW!OnDestroy
    BY <1>4, VWDestroys
  <1> QED
    BY <1>1, <1>2, <1>3, <1>4 DEF VW!WindowThread

LEMMA VWStep ==
  ASSUME VWInv, [VW!Next]_(VW!vars)
  PROVE  VWInv'
  <1>1. CASE UNCHANGED VW!vars
    BY <1>1
       DEF VW!vars, VWInv, VWTypes, VWLocks, VWWaits, VWPalettes, VWColours,
           VW!RightColours
  <1>2. CASE VW!WindowThread
    BY <1>2, VWWindowThread
  <1>3. CASE VW!PreparePalette
    <2>1. CASE VW!LockToRemove("stream", "remove", "make")
      BY <2>1, VWNoPaletteToRemoveStream, VWLockToRemoveStream
    <2>2. CASE VW!MakePalette
      BY <2>2, VWMake, VWMakeNone
    <2>3. CASE VW!SetPalette
      <3>1. \/ VW!Goes("stream", "set") /\ UNCHANGED vw_inbox
            \/ VW!Goes("stream", "sent") /\ vw_exists /\ vw_inbox' = vw_inbox \cup {<<"realize", "stream">>}
        BY <2>3 DEF VW!SetPalette
      <3> QED
        BY <2>3, <3>1, VWSelects, VWSends
    <2> QED
      BY <1>3, <2>1, <2>2, <2>3, VWUnsetStream, VWDeleteStream, VWLockWindow,
         VWIncrement DEF VW!PreparePalette
  <1>4. CASE VW!Streaming
    <2>1. CASE VW!ChangeFormat
      <3>1. VW!Goes("stream", "remove") \/ (UNCHANGED vw_thread /\ vw_format' = vw_format)
        BY <2>1 DEF VW!ChangeFormat, VW!ShouldUpdate
      <3> QED
        BY <2>1, <3>1, VWChangeFormat, VWChangeFormatSame
    <2> QED
      BY <1>4, <2>1, VWAlloc, VWFree, VWDraw DEF VW!Streaming
  <1>5. CASE VW!Closing
    <2>1. CASE VW!LockToRemove("app", "remove", "close")
      BY <2>1, VWNoPaletteToRemoveApp, VWLockToRemoveApp
    <2>2. CASE VW!DoneWithWindow
      BY <2>2, VWAsksToClose, VWNothingToClose
    <2> QED
      BY <1>5, <2>1, <2>2, VWUnsetApp, VWDeleteApp, VWDone DEF VW!Closing
  <1> QED
    BY <1>1, <1>2, <1>3, <1>4, <1>5, VWActivate, VWPut, VWBreak DEF VW!Next

LEMMA VWSafe == VWInv => VW!PaletteLives /\ VW!RightColours
  BY DEF VWInv, VWPalettes, VWColours, VW!PaletteLives

(* A lock is held by a thread that has got all it needs for its next step, or *)
(* that only waits for the other lock, which is then free.                   *)
LEMMA VWNotStuck == VWInv => VW!NobodyStuck
  <1> SUFFICES ASSUME VWInv, vw_thread.stream # "idle" \/ vw_thread.app \notin {"idle", "done"}
               PROVE  VW!CanGoOn
    BY DEF VW!NobodyStuck
  <1>0. VWTypes /\ VWLocks /\ VWWaits
    BY DEF VWInv
  <1>a. vw_thread.window \in VWWindow /\ vw_thread.stream \in VWStream
        /\ vw_thread.app \in VWApp
    BY <1>0 DEF VWTypes
  <1>1. CASE vw_palette # VW!None
    <2>1. \/ vw_thread.stream \in {"unset", "delete"} /\ vw_palette = "stream"
          \/ vw_thread.app \in {"unset", "delete"} /\ vw_palette = "app"
      BY <1>0, <1>1 DEF VWLocks
    <2>2. vw_window = VW!None
      BY <1>0, <2>1 DEF VWLocks, VWWaits
    <2> QED
      BY <2>1, <2>2 DEF VW!CanGoOn
  <1>2. CASE vw_palette = VW!None /\ vw_inbox # {} /\ vw_thread.window = "pump"
    <2>1. vw_exists
      BY <1>0, <1>2 DEF VWWaits
    <2>2. \E m \in vw_inbox : VW!Received(m)
      BY <1>2 DEF VW!Received
    <2> QED
      BY <1>2, <2>1, <2>2 DEF VW!CanGoOn, VW!At
  <1>3. CASE vw_palette = VW!None /\ vw_thread.window # "pump"
    BY <1>3, <1>a DEF VW!CanGoOn, VW!At, VWWindow
  <1>4. CASE vw_palette = VW!None /\ vw_inbox = {} /\ vw_thread.window = "pump"
    <2>1. vw_thread.stream # "sent" /\ vw_thread.app # "waits"
      BY <1>0, <1>4 DEF VWWaits
    <2>2. vw_window = VW!None \/ vw_thread.stream = "install2"
      BY <1>0 DEF VWLocks
    <2>3. CASE vw_thread.stream # "idle"
      BY <1>4, <1>a, <2>1, <2>2, <2>3 DEF VW!CanGoOn, VWStream
    <2>4. CASE vw_thread.stream = "idle" /\ vw_thread.app \notin {"idle", "done"}
      BY <1>4, <1>a, <2>1, <2>2, <2>4 DEF VW!CanGoOn, VWApp
    <2> QED
      BY <2>3, <2>4
  <1> QED
    BY <1>1, <1>2, <1>3, <1>4

-----------------------------------------------------------------------------
(***************************************************************************)
(* The units together.                                                     *)
(***************************************************************************)

(* Every step of the composite is a step of this unit or leaves it alone.  *)

LEMMA BAMoves == [MCNext]_all => [BA!Next]_(BA!vars)
  <1>1. unit # "audio" /\ Rest => UNCHANGED BA!vars
    BY DEF Rest, baVars, BA!vars, BA!streams, BA!settings
  <1>2. UNCHANGED all => UNCHANGED BA!vars
    BY DEF all, baVars, BA!vars, BA!streams, BA!settings
  <1>3. MCNext => BA!Next \/ (unit # "audio" /\ Rest)
    BY DEF MCNext
  <1> QED
    BY <1>1, <1>2, <1>3

LEMMA SCMoves == [MCNext]_all => [SC!Next]_(SC!vars)
  <1>1. unit # "control" /\ Rest => UNCHANGED SC!vars
    BY DEF Rest, scVars, SC!vars, SC!settings, SC!asked
  <1>2. UNCHANGED all => UNCHANGED SC!vars
    BY DEF all, scVars, SC!vars, SC!settings, SC!asked
  <1>3. MCNext => SC!Next \/ (unit # "control" /\ Rest)
    BY DEF MCNext
  <1> QED
    BY <1>1, <1>2, <1>3

LEMMA OLMoves == [MCNext]_all => [OL!Next]_(OL!vars)
  <1>1. unit # "object" /\ Rest => UNCHANGED OL!vars
    BY DEF Rest, olVars, OL!vars, OL!objects, OL!counts
  <1>2. UNCHANGED all => UNCHANGED OL!vars
    BY DEF all, olVars, OL!vars, OL!objects, OL!counts
  <1>3. MCNext => OL!Next \/ (unit # "object" /\ Rest)
    BY DEF MCNext
  <1> QED
    BY <1>1, <1>2, <1>3

LEMMA MYMoves == [MCNext]_all => [MY!Next]_(MY!vars)
  <1>1. unit # "types" /\ Rest => UNCHANGED MY!vars
    BY DEF Rest, myVars, MY!vars
  <1>2. UNCHANGED all => UNCHANGED MY!vars
    BY DEF all, myVars, MY!vars
  <1>3. MCNext => MY!Next \/ (unit # "types" /\ Rest)
    BY DEF MCNext
  <1> QED
    BY <1>1, <1>2, <1>3

LEMMA RGMoves == [MCNext]_all => [RG!Next]_(RG!vars)
  <1>1. unit # "registry" /\ Rest => UNCHANGED RG!vars
    BY DEF Rest, rgVars, RG!vars
  <1>2. UNCHANGED all => UNCHANGED RG!vars
    BY DEF all, rgVars, RG!vars
  <1>3. MCNext => RG!Next \/ (unit # "registry" /\ Rest)
    BY DEF MCNext
  <1> QED
    BY <1>1, <1>2, <1>3

LEMMA WCMoves == [MCNext]_all => [WC!Next]_(WC!vars)
  <1>1. unit # "place" /\ Rest => UNCHANGED WC!vars
    BY DEF Rest, wcVars, WC!vars
  <1>2. UNCHANGED all => UNCHANGED WC!vars
    BY DEF all, wcVars, WC!vars
  <1>3. MCNext => WC!Next \/ (unit # "place" /\ Rest)
    BY DEF MCNext
  <1> QED
    BY <1>1, <1>2, <1>3

LEMMA VCMoves == [MCNext]_all => [VC!Next]_(VC!vars)
  <1>1. unit # "rectangles" /\ Rest => UNCHANGED VC!vars
    BY DEF Rest, vcVars, VC!vars
  <1>2. UNCHANGED all => UNCHANGED VC!vars
    BY DEF all, vcVars, VC!vars
  <1>3. MCNext => VC!Next \/ (unit # "rectangles" /\ Rest)
    BY DEF MCNext
  <1> QED
    BY <1>1, <1>2, <1>3

LEMMA VQMoves == [MCNext]_all => [VQ!Next]_(VQ!vars)
  <1>1. unit # "quality" /\ Rest => UNCHANGED VQ!vars
    BY DEF Rest, vqVars, VQ!vars
  <1>2. UNCHANGED all => UNCHANGED VQ!vars
    BY DEF all, vqVars, VQ!vars
  <1>3. MCNext => VQ!Next \/ (unit # "quality" /\ Rest)
    BY DEF MCNext
  <1> QED
    BY <1>1, <1>2, <1>3

LEMMA VTMoves == [MCNext]_all => [VT!Next]_(VT!vars)
  <1>1. unit # "key_frames" /\ Rest => UNCHANGED VT!vars
    BY DEF Rest, vtVars, VT!vars
  <1>2. UNCHANGED all => UNCHANGED VT!vars
    BY DEF all, vtVars, VT!vars
  <1>3. MCNext => VT!Next \/ (unit # "key_frames" /\ Rest)
    BY DEF MCNext
  <1> QED
    BY <1>1, <1>2, <1>3

LEMMA TIMoves == [MCNext]_all => [TI!Next]_(TI!vars)
  <1>1. unit # "in_place" /\ Rest => UNCHANGED TI!vars
    BY DEF Rest, tiVars, TI!vars, TI!choice, TI!pending
  <1>2. UNCHANGED all => UNCHANGED TI!vars
    BY DEF all, tiVars, TI!vars, TI!choice, TI!pending
  <1>3. MCNext => TI!Next \/ (unit # "in_place" /\ Rest)
    BY DEF MCNext
  <1> QED
    BY <1>1, <1>2, <1>3

LEMMA CQMoves == [MCNext]_all => [CQ!Next]_(CQ!vars)
  <1>1. unit # "commands" /\ Rest => UNCHANGED CQ!vars
    BY DEF Rest, cqVars, CQ!vars
  <1>2. UNCHANGED all => UNCHANGED CQ!vars
    BY DEF all, cqVars, CQ!vars
  <1>3. MCNext => CQ!Next \/ (unit # "commands" /\ Rest)
    BY DEF MCNext
  <1> QED
    BY <1>1, <1>2, <1>3

LEMMA VWMoves == [MCNext]_all => [VW!Next]_(VW!vars)
  <1>1. unit # "window" /\ Rest => UNCHANGED VW!vars
    BY DEF Rest, vwVars, VW!vars
  <1>2. UNCHANGED all => UNCHANGED VW!vars
    BY DEF all, vwVars, VW!vars
  <1>3. MCNext => VW!Next \/ (unit # "window" /\ Rest)
    BY DEF MCNext
  <1> QED
    BY <1>1, <1>2, <1>3

LEMMA MDMoves == [MCNext]_all => [MD!Next]_(MD!vars)
  <1>1. unit # "arithmetic" /\ Rest => UNCHANGED MD!vars
    BY DEF Rest, mdVars, MD!vars
  <1>2. UNCHANGED all => UNCHANGED MD!vars
    BY DEF all, mdVars, MD!vars
  <1>3. MCNext => MD!Next \/ (unit # "arithmetic" /\ Rest)
    BY DEF MCNext
  <1> QED
    BY <1>1, <1>2, <1>3

(* Unless two calls raced, the source plays with the volume put last,       *)
(* whoever put it and whether or not there was a source then; and the size  *)
(* of a frame is the one AL takes for its format (COpenALStream).           *)
THEOREM DeviceSoundCorrect == MCSpec => []DeviceSound
  <1>1. MCInit => BAInv
    BY BAStart DEF MCInit
  <1>2. BAInv /\ [MCNext]_all => BAInv'
    BY BAMoves, BAStep
  <1>3. BAInv => DeviceSound
    BY BAVolume, BAFrames DEF DeviceSound
  <1> QED
    BY <1>1, <1>2, <1>3, PTL DEF MCSpec

(* No step of CheckStreamState answers a sample otherwise than the comment  *)
(* of CheckSampleTimes promises for the times that are set (strmctl.cpp),   *)
(* and a worker takes the earliest of the commands that are due (cmdqueue   *)
(* in ctlutil.cpp).                                                         *)
THEOREM DoneInTimeCorrect == MCSpec => DoneInTime
  <1> DEFINE Inv == SCInv /\ CQInv
  <1>1. MCInit => Inv
    BY SCStart, CQStart DEF MCInit
  <1>2. Inv /\ [MCNext]_all => Inv'
    BY SCMoves, SCStep, CQMoves, CQStep
  <1>3. Inv /\ [MCNext]_all =>
          [/\ unit = "control" => SC!TypeOK /\ SC!PendingStop /\ SC!SampleIsTold
           /\ unit = "commands" => CQ!TakesEarliest]_all
    BY SCMoves, SCSafe, SCTold, CQMoves, CQSafe
  <1> QED
    BY <1>1, <1>2, <1>3, PTL DEF MCSpec, DoneInTime

(* An object and the library live as long as somebody refers to them and no *)
(* longer, a media type owns its format and its reference alone, whichever  *)
(* allocation fails, and a filter is registered no longer than its server   *)
(* (combase.cpp, dllentry.cpp, mtype.cpp, dllsetup.cpp).                    *)
THEOREM ObjectsLastCorrect == MCSpec => []ObjectsLast
  <1> DEFINE Inv == OLInv /\ MYInv /\ RGInv
  <1>1. MCInit => Inv
    BY OLStart, MYStart, RGStart, RGTableOK DEF MCInit
  <1>2. Inv /\ [MCNext]_all => Inv'
    BY OLMoves, OLStep, MYMoves, MYStep, RGMoves, RGStep, RGTableOK
  <1>3. Inv => ObjectsLast
    BY OLLasts, MYSafe DEF RGInv, ObjectsLast
  <1> QED
    BY <1>1, <1>2, <1>3, PTL DEF MCSpec

(* The window is where and as visible as it was asked to be last, also while *)
(* its style changes; the source of a picture lies in it and neither         *)
(* rectangle is inverted, however what is asked for wraps (winctrl.cpp).     *)
THEOREM GeometrySoundCorrect == MCSpec => []GeometrySound
  <1> DEFINE Inv == WCInv /\ VCInv
  <1>1. MCInit => Inv
    BY WCStart, VCStart DEF MCInit
  <1>2. Inv /\ [MCNext]_all => Inv'
    BY WCMoves, WCStep, VCMoves, VCStep
  <1>3. Inv => GeometrySound
    BY WCSafe, VCSafe DEF GeometrySound
  <1> QED
    BY <1>1, <1>2, <1>3, PTL DEF MCSpec

(* A late renderer shows a frame within a second, and its figures mean       *)
(* something (renbase.cpp); a late decoder shows no frame that it cannot     *)
(* make whole (vtrans.cpp); and a filter in place copies exactly when it     *)
(* must (transip.cpp).                                                       *)
THEOREM PictureSoundCorrect == MCSpec => []PictureSound
  <1> DEFINE Inv == VQInv /\ VTInv /\ TIInv
  <1>1. MCInit => Inv
    BY VQStart, VTStart, TIStart DEF MCInit
  <1>2. Inv /\ [MCNext]_all => Inv'
    BY VQMoves, VQStep, VTMoves, VTStep, TIMoves, TIStep
  <1>3. Inv => PictureSound
    BY VQSafe, VTSafe, TISafe DEF PictureSound
  <1> QED
    BY <1>1, <1>2, <1>3, PTL DEF MCSpec

(* No thread uses a palette that was deleted or waits for ever with a lock   *)
(* that another needs, and no image has the colours of an earlier format,    *)
(* however streaming, window and application interleave (winutil.cpp).       *)
THEOREM WindowSoundCorrect == MCSpec => []WindowSound
  <1>1. MCInit => VWInv
    BY VWStart DEF MCInit
  <1>2. VWInv /\ [MCNext]_all => VWInv'
    BY VWMoves, VWStep
  <1>3. VWInv => WindowSound
    BY VWSafe, VWNotStuck DEF WindowSound
  <1> QED
    BY <1>1, <1>2, <1>3, PTL DEF MCSpec

(* a * b + d divided by c is exact whenever the quotient fits, for numbers   *)
(* of every width, though computed by halves and bit by bit (arithutil.cpp). *)
THEOREM ArithmeticExactCorrect == MCSpec => []ArithmeticExact
  <1>1. MCInit => MD!QuotientExact
    BY MDStart DEF MCInit
  <1>2. MD!QuotientExact /\ [MCNext]_all => MD!QuotientExact'
    BY MDMoves, MDStep
  <1>3. MD!QuotientExact => ArithmeticExact
    BY DEF ArithmeticExact
  <1> QED
    BY <1>1, <1>2, <1>3, PTL DEF MCSpec
=============================================================================
