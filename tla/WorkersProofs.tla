--------------------------- MODULE WorkersProofs ----------------------------
(***************************************************************************)
(* Proofs about the units of MCWorkers: the frame hand-over of the mixer   *)
(* (which MCWorkers extends), the workers of a source, of a pulling pin    *)
(* and of a message thread, the block of a dynamic pin, the streaming      *)
(* thread of a transform filter and the seeks of a source, for every value *)
(* of the constants.  Each unit has its inductive invariant, XXInv, with   *)
(* XXStart, XXStep and what follows from it; the last part puts them       *)
(* together: a step of MCNext is a step of one unit and a stutter of the   *)
(* others.                                                                 *)
(***************************************************************************)
EXTENDS MCWorkers, FiniteSetTheorems, SequenceTheorems, TLAPS

-----------------------------------------------------------------------------
(***************************************************************************)
(* Source stream.  Each pin's worker answers the one request that its client*)
(* waits for (SSThreads, SSCall); the loops of Pause and Stop leave the pins*)
(* before the one reached live, or clean, and the pins after it as they were*)
(* (SSLoop).                                                               *)
(***************************************************************************)

LEMMA SSThread ==
  ASSUME NEW t \in SS!T!Threads
  PROVE  /\ \A c \in SS!Commands :
              /\ SS!T!Called(t, c) \in SS!T!Threads
              /\ SS!T!Called(t, c).sent /\ SS!T!Called(t, c).param = c
              /\ SS!T!Called(t, c).complete = t.complete
              /\ SS!T!Called(t, c).result = t.result
              /\ SS!T!Called(t, c).exists = t.exists
              /\ SS!T!Called(t, c).running = t.running
         /\ /\ SS!T!Created(t) \in SS!T!Threads
            /\ SS!T!Created(t).exists /\ SS!T!Created(t).running
            /\ SS!T!Created(t).sent = t.sent /\ SS!T!Created(t).complete = t.complete
         /\ /\ SS!T!Returned(t) \in SS!T!Threads /\ ~SS!T!Returned(t).complete
            /\ SS!T!Returned(t).exists = t.exists /\ SS!T!Returned(t).running = t.running
            /\ SS!T!Returned(t).sent = t.sent /\ SS!T!Returned(t).param = t.param
         /\ \A r \in SS!Results :
            /\ SS!T!Replied(t, r) \in SS!T!Threads /\ SS!T!Replied(t, r).result = r
            /\ SS!T!Replied(t, r).complete /\ ~SS!T!Replied(t, r).sent
            /\ SS!T!Replied(t, r).exists = t.exists
            /\ SS!T!Replied(t, r).running = t.running
            /\ SS!T!Replied(t, r).param = t.param
         /\ /\ SS!T!Exited(t) \in SS!T!Threads /\ ~SS!T!Exited(t).running
            /\ SS!T!Exited(t).exists = t.exists /\ SS!T!Exited(t).complete = t.complete
            /\ SS!T!Exited(t).sent = t.sent /\ SS!T!Exited(t).param = t.param
            /\ SS!T!Exited(t).result = t.result
         /\ /\ SS!T!Closed(t) \in SS!T!Threads /\ ~SS!T!Closed(t).exists
            /\ SS!T!Closed(t).running = t.running /\ SS!T!Closed(t).complete = t.complete
            /\ SS!T!Closed(t).sent = t.sent /\ SS!T!Closed(t).param = t.param
  BY
     DEF SS!T!Threads, SS!T!Called, SS!T!Created, SS!T!Returned, SS!T!Replied,
         SS!T!Exited, SS!T!Closed,
         SS!Commands, SS!Results

SSPlaces == {"none", "init", "get", "check", "buffer", "fill", "deliver", "exit"}

SSTypes ==
  /\ ss_state \in {"Stopped", "Paused", "Running"}
  /\ ss_cpc \in {"idle", "commit", "create", "init", "pause", "command", "decommit",
                 "stop", "exit", "close"}
  /\ ss_pin \in SS!Each /\ ss_faults \in 0..ss_FaultsMax /\ ss_halfway \in BOOLEAN
  /\ ss_thread \in [SS!Each -> SS!T!Threads]
  /\ ss_wpc \in [SS!Each -> SSPlaces]
  /\ ss_committed \in [SS!Each -> BOOLEAN]

SSLive(p) ==
  ss_thread[p].exists /\ ss_wpc[p] \in {"get", "check", "buffer", "fill", "deliver"}

SSClean(p) ==
  /\ ss_wpc[p] = "none" /\ ~ss_committed[p] /\ ~ss_thread[p].exists /\ ~ss_thread[p].running
  /\ ~ss_thread[p].sent /\ ~ss_thread[p].complete

SSThreads ==
  \A p \in SS!Each :
    /\ ~ss_thread[p].exists => ~ss_thread[p].running /\ ~ss_thread[p].sent /\ ~ss_thread[p].complete
    /\ ~ss_thread[p].running => ss_wpc[p] = "none"
    /\ ~(ss_thread[p].sent /\ ss_thread[p].complete)
    /\ ss_thread[p].sent \/ ss_thread[p].complete =>
         p = ss_pin /\ ss_cpc \in {"init", "pause", "command", "stop", "exit"}

SSCall ==
  /\ ss_cpc = "init" =>
       IF ss_thread[ss_pin].complete
         THEN ss_thread[ss_pin].result # "FAILED" => SSLive(ss_pin)
         ELSE ss_thread[ss_pin].exists /\ ss_wpc[ss_pin] = "init"
  /\ ss_cpc \in {"pause", "command"} =>
       SSLive(ss_pin)
       /\ (ss_thread[ss_pin].sent => ss_thread[ss_pin].param \in {"PAUSE", "RUN"})
  /\ ss_cpc = "stop" =>
       IF ss_thread[ss_pin].complete
         THEN ss_wpc[ss_pin] = "get"
         ELSE SSLive(ss_pin) /\ ss_thread[ss_pin].sent /\ ss_thread[ss_pin].param = "STOP"
  /\ ss_cpc = "exit" =>
       IF ss_thread[ss_pin].complete
         THEN ss_thread[ss_pin].result # "FAILED" /\ ss_wpc[ss_pin] \in {"exit", "none"}
         ELSE ss_thread[ss_pin].sent /\ ss_thread[ss_pin].param = "EXIT" /\ ss_wpc[ss_pin] = "get"
  /\ ss_cpc = "close" => ss_wpc[ss_pin] \in {"exit", "none"}

SSLoop ==
  /\ ss_cpc = "idle" => ss_pin = 1
  /\ ss_cpc = "idle" /\ ss_state = "Stopped" /\ ~ss_halfway => \A p \in SS!Each : SSClean(p)
  /\ ss_cpc \in {"idle", "command"} /\ ss_state # "Stopped" => \A p \in SS!Each : SSLive(p)
  /\ ss_cpc = "command" => ss_state # "Stopped"
  /\ ss_cpc \in {"commit", "create", "init", "pause"} =>
       ss_state = "Stopped" /\ \A p \in SS!Each : p < ss_pin => SSLive(p)
  /\ ss_cpc \in {"decommit", "stop", "exit", "close"} =>
       /\ ss_state # "Stopped"
       /\ \A p \in SS!Each : (p < ss_pin => SSClean(p)) /\ (p > ss_pin => SSLive(p))
  /\ ss_cpc = "decommit" => SSLive(ss_pin)
  /\ ss_cpc \in {"stop", "exit", "close"} => ss_thread[ss_pin].exists /\ ~ss_committed[ss_pin]

SSInv == SSTypes /\ SSThreads /\ SSCall /\ SSLoop

LEMMA SSSafe == SSInv => SS!TypeOK /\ SS!NothingLeft
  BY DEF SSInv, SSTypes, SSLoop, SSClean, SSPlaces, SS!TypeOK, SS!NothingLeft

LEMMA SSStart == SS!Init => SSInv
  <1> SUFFICES ASSUME SS!Init PROVE SSInv
    OBVIOUS
  <1>1. /\ SS!T!NoThread("NOERROR") \in SS!T!Threads /\ ~SS!T!NoThread("NOERROR").exists
        /\ ~SS!T!NoThread("NOERROR").running /\ ~SS!T!NoThread("NOERROR").sent
        /\ ~SS!T!NoThread("NOERROR").complete
    BY DEF SS!T!Threads, SS!T!NoThread, SS!T!NoCommand, SS!Results
  <1>2. ss_pin \in SS!Each /\ ss_faults \in 0..ss_FaultsMax
    BY SourceAssumption DEF SS!Init, SS!Each
  <1>3. \A p \in SS!Each : ss_thread[p] = SS!T!NoThread("NOERROR") /\ ss_wpc[p] = "none" /\ ~ss_committed[p]
    BY DEF SS!Init
  <1>4. SSTypes
    BY <1>1, <1>2 DEF SS!Init, SSTypes, SSPlaces
  <1>5. SSThreads /\ SSCall /\ SSLoop
    BY <1>1, <1>3 DEF SS!Init, SSThreads, SSCall, SSLoop, SSClean
  <1> QED
    BY <1>4, <1>5 DEF SSInv

LEMMA SSNext ==
  ASSUME SSTypes, NEW loop \in {"commit", "decommit"}, NEW final \in {"Stopped", "Paused"},
         SS!NextPin(loop, final)
  PROVE  /\ ss_pin' \in SS!Each
         /\ \/ /\ ss_pin' = ss_pin + 1 /\ ss_cpc' = loop /\ UNCHANGED <<ss_state,
                                                                        ss_halfway>>
               /\ \A p \in SS!Each : /\ p < ss_pin' <=> p < ss_pin \/ p = ss_pin
                                     /\ p >= ss_pin' => p > ss_pin
            \/ /\ ss_pin' = 1 /\ ss_cpc' = "idle" /\ ss_state' = final /\ ss_halfway' = FALSE
               /\ \A p \in SS!Each : p < ss_pin \/ p = ss_pin
  BY SourceAssumption DEF SSTypes, SS!NextPin, SS!Each, SS!Last


LEMMA SSStep == SSInv /\ [SS!Next]_(SS!vars) => SSInv'
  <1> SUFFICES ASSUME SSInv, [SS!Next]_(SS!vars) PROVE SSInv'
    OBVIOUS
  <1>a. /\ \A p \in SS!Each : /\ ss_thread[p] \in SS!T!Threads /\ ss_wpc[p] \in SSPlaces
                              /\ ss_committed[p] \in BOOLEAN
                              /\ ss_thread[p].exists \in BOOLEAN
                              /\ ss_thread[p].running \in BOOLEAN
                              /\ ss_thread[p].sent \in BOOLEAN
                              /\ ss_thread[p].complete \in BOOLEAN /\ p \in Nat /\ 1 <= p
        /\ ss_pin \in SS!Each /\ 1 \in SS!Each
    BY SourceAssumption DEF SSInv, SSTypes, SS!T!Threads, SS!Each
  <1>1. CASE SS!Pause
    <2>a. ss_committed' \in [SS!Each -> BOOLEAN]
      BY <1>1, <1>a DEF SS!Pause, SSInv, SSTypes
    <2>b. ss_faults' \in 0..ss_FaultsMax
      BY <1>1, SourceAssumption DEF SS!Pause, SS!Fault, SSInv, SSTypes
    <2>1. ss_thread' \in [SS!Each -> SS!T!Threads] /\ ss_wpc' \in [SS!Each -> SSPlaces]
      BY <1>1, <1>a, SSThread DEF SS!Pause, SSInv, SSTypes, SSPlaces, SS!Commands
    <2>2. SSTypes'
      BY <1>1, <1>a, <2>1, <2>a, <2>b DEF SS!Pause, SS!PauseFails, SSInv, SSTypes
    <2>3. SSThreads'
      BY <1>1, <1>a, <2>2, SSThread
         DEF SS!Pause, SS!PauseFails, SSInv, SSTypes, SSThreads, SSCall, SSLoop, SSLive,
             SSClean, SS!Commands
    <2>4. SSCall'
      BY <1>1, <1>a, <2>2, SSThread
         DEF SS!Pause, SS!PauseFails, SSInv, SSTypes, SSThreads, SSCall, SSLoop, SSLive,
             SSClean, SS!Commands
    <2>5. SSLoop'
      BY <1>1, <1>a, <2>2, SSThread
         DEF SS!Pause, SS!PauseFails, SSInv, SSTypes, SSThreads, SSCall, SSLoop, SSLive,
             SSClean, SS!Commands
    <2> QED
      BY <2>2, <2>3, <2>4, <2>5 DEF SSInv
  <1>2. CASE SS!CommitAllocator
    <2>a. ss_committed' \in [SS!Each -> BOOLEAN]
      BY <1>2, <1>a DEF SS!CommitAllocator, SSInv, SSTypes
    <2>b. ss_faults' \in 0..ss_FaultsMax
      BY <1>2, SourceAssumption DEF SS!CommitAllocator, SS!Fault, SSInv, SSTypes
    <2>1. ss_thread' \in [SS!Each -> SS!T!Threads] /\ ss_wpc' \in [SS!Each -> SSPlaces]
      BY <1>2, <1>a, SSThread
         DEF SS!CommitAllocator, SSInv, SSTypes, SSPlaces, SS!Commands
    <2>2. SSTypes'
      BY <1>2, <1>a, <2>1, <2>a, <2>b
         DEF SS!CommitAllocator, SS!PauseFails, SSInv, SSTypes
    <2>3. SSThreads'
      BY <1>2, <1>a, <2>2, SSThread
         DEF SS!CommitAllocator, SS!PauseFails, SSInv, SSTypes, SSThreads, SSCall,
             SSLoop, SSLive, SSClean, SS!Commands
    <2>4. SSCall'
      BY <1>2, <1>a, <2>2, SSThread
         DEF SS!CommitAllocator, SS!PauseFails, SSInv, SSTypes, SSThreads, SSCall,
             SSLoop, SSLive, SSClean, SS!Commands
    <2>5. SSLoop'
      BY <1>2, <1>a, <2>2, SSThread
         DEF SS!CommitAllocator, SS!PauseFails, SSInv, SSTypes, SSThreads, SSCall,
             SSLoop, SSLive, SSClean, SS!Commands
    <2> QED
      BY <2>2, <2>3, <2>4, <2>5 DEF SSInv
  <1>3. CASE SS!Create
    <2>a. ss_committed' \in [SS!Each -> BOOLEAN]
      BY <1>3, <1>a DEF SS!Create, SSInv, SSTypes
    <2>b. ss_faults' \in 0..ss_FaultsMax
      BY <1>3, SourceAssumption DEF SS!Create, SS!Fault, SSInv, SSTypes
    <2>1. ss_thread' \in [SS!Each -> SS!T!Threads] /\ ss_wpc' \in [SS!Each -> SSPlaces]
      BY <1>3, <1>a, SSThread DEF SS!Create, SSInv, SSTypes, SSPlaces, SS!Commands
    <2>2. SSTypes'
      BY <1>3, <1>a, <2>1, <2>a, <2>b DEF SS!Create, SS!PauseFails, SSInv, SSTypes
    <2>3. SSThreads'
      BY <1>3, <1>a, <2>2, SSThread
         DEF SS!Create, SS!PauseFails, SSInv, SSTypes, SSThreads, SSCall, SSLoop,
             SSLive, SSClean, SS!Commands
    <2>4. SSCall'
      BY <1>3, <1>a, <2>2, SSThread
         DEF SS!Create, SS!PauseFails, SSInv, SSTypes, SSThreads, SSCall, SSLoop,
             SSLive, SSClean, SS!Commands
    <2>5. SSLoop'
      BY <1>3, <1>a, <2>2, SSThread
         DEF SS!Create, SS!PauseFails, SSInv, SSTypes, SSThreads, SSCall, SSLoop,
             SSLive, SSClean, SS!Commands
    <2> QED
      BY <2>2, <2>3, <2>4, <2>5 DEF SSInv
  <1>4. CASE SS!InitReturns
    <2>a. ss_committed' \in [SS!Each -> BOOLEAN]
      BY <1>4, <1>a DEF SS!InitReturns, SSInv, SSTypes
    <2>b. ss_faults' \in 0..ss_FaultsMax
      BY <1>4, SourceAssumption DEF SS!InitReturns, SS!Fault, SSInv, SSTypes
    <2>1. ss_thread' \in [SS!Each -> SS!T!Threads] /\ ss_wpc' \in [SS!Each -> SSPlaces]
      BY <1>4, <1>a, SSThread DEF SS!InitReturns, SSInv, SSTypes, SSPlaces, SS!Commands
    <2>2. SSTypes'
      BY <1>4, <1>a, <2>1, <2>a, <2>b DEF SS!InitReturns, SS!PauseFails, SSInv, SSTypes
    <2>3. SSThreads'
      BY <1>4, <1>a, <2>2, SSThread
         DEF SS!InitReturns, SS!PauseFails, SSInv, SSTypes, SSThreads, SSCall, SSLoop,
             SSLive, SSClean, SS!Commands
    <2>4. SSCall'
      BY <1>4, <1>a, <2>2, SSThread
         DEF SS!InitReturns, SS!PauseFails, SSInv, SSTypes, SSThreads, SSCall, SSLoop,
             SSLive, SSClean, SS!Commands
    <2>5. SSLoop'
      BY <1>4, <1>a, <2>2, SSThread
         DEF SS!InitReturns, SS!PauseFails, SSInv, SSTypes, SSThreads, SSCall, SSLoop,
             SSLive, SSClean, SS!Commands
    <2> QED
      BY <2>2, <2>3, <2>4, <2>5 DEF SSInv
  <1>5. CASE SS!PauseReturns
    <2>a. ss_committed' \in [SS!Each -> BOOLEAN]
      BY <1>5, <1>a DEF SS!PauseReturns, SSInv, SSTypes
    <2>b. ss_faults' \in 0..ss_FaultsMax
      BY <1>5, SourceAssumption DEF SS!PauseReturns, SS!Fault, SSInv, SSTypes
    <2>1. ss_thread' \in [SS!Each -> SS!T!Threads] /\ ss_wpc' \in [SS!Each -> SSPlaces]
      BY <1>5, <1>a, SSThread DEF SS!PauseReturns, SSInv, SSTypes, SSPlaces, SS!Commands
    <2>2. SSTypes'
      BY <1>5, <1>a, <2>1, <2>a, <2>b, SSNext
         DEF SS!PauseReturns, SS!PauseFails, SSInv, SSTypes
    <2>3. SSThreads'
      BY <1>5, <1>a, <2>2, SSThread, SSNext
         DEF SS!PauseReturns, SS!PauseFails, SSInv, SSTypes, SSThreads, SSCall, SSLoop,
             SSLive, SSClean, SS!Commands
    <2>4. SSCall'
      BY <1>5, <1>a, <2>2, SSThread, SSNext
         DEF SS!PauseReturns, SS!PauseFails, SSInv, SSTypes, SSThreads, SSCall, SSLoop,
             SSLive, SSClean, SS!Commands
    <2>5. CASE SS!NextPin("commit", "Paused")
      <3>1. CASE ss_pin' = ss_pin + 1
        <4>1. ss_cpc' = "commit" /\ UNCHANGED <<ss_state, ss_halfway>>
              /\ \A p \in SS!Each : /\ p < ss_pin' <=> p < ss_pin \/ p = ss_pin
                                    /\ p >= ss_pin' => p > ss_pin
          <5>1. ss_pin' # 1
            BY <1>a, <3>1
          <5> QED
            BY <2>5, <5>1, SSNext DEF SSInv
        <4> QED
          BY <1>5, <1>a, <2>2, <4>1, SSThread
             DEF SS!PauseReturns, SSInv, SSTypes, SSThreads, SSCall, SSLoop, SSLive,
                 SSClean
      <3>2. CASE /\ ss_pin' = 1 /\ ss_cpc' = "idle" /\ ss_state' = "Paused"
                 /\ ss_halfway' = FALSE
                 /\ \A p \in SS!Each : p < ss_pin \/ p = ss_pin
        BY <1>5, <1>a, <2>2, <3>2, SSThread
           DEF SS!PauseReturns, SSInv, SSTypes, SSThreads, SSCall, SSLoop, SSLive,
               SSClean
      <3> QED
        BY <2>5, <3>1, <3>2, SSNext DEF SSInv
    <2>6. CASE ~SS!NextPin("commit", "Paused")
      BY <1>5, <1>a, <2>2, <2>6, SSThread
         DEF SS!PauseReturns, SSInv, SSTypes, SSThreads, SSCall, SSLoop, SSLive,
             SSClean, SS!Commands
    <2> QED
      BY <2>2, <2>3, <2>4, <2>5, <2>6 DEF SSInv
  <1>6. CASE SS!Command
    <2>a. ss_committed' \in [SS!Each -> BOOLEAN]
      BY <1>6, <1>a DEF SS!Command, SSInv, SSTypes
    <2>b. ss_faults' \in 0..ss_FaultsMax
      BY <1>6, SourceAssumption DEF SS!Command, SS!Fault, SSInv, SSTypes
    <2>1. ss_thread' \in [SS!Each -> SS!T!Threads] /\ ss_wpc' \in [SS!Each -> SSPlaces]
      BY <1>6, <1>a, SSThread DEF SS!Command, SSInv, SSTypes, SSPlaces, SS!Commands
    <2>2. SSTypes'
      BY <1>6, <1>a, <2>1, <2>a, <2>b DEF SS!Command, SS!PauseFails, SSInv, SSTypes
    <2>3. SSThreads'
      BY <1>6, <1>a, <2>2, SSThread
         DEF SS!Command, SS!PauseFails, SSInv, SSTypes, SSThreads, SSCall, SSLoop,
             SSLive, SSClean, SS!Commands
    <2>4. SSCall'
      BY <1>6, <1>a, <2>2, SSThread
         DEF SS!Command, SS!PauseFails, SSInv, SSTypes, SSThreads, SSCall, SSLoop,
             SSLive, SSClean, SS!Commands
    <2>5. SSLoop'
      BY <1>6, <1>a, <2>2, SSThread
         DEF SS!Command, SS!PauseFails, SSInv, SSTypes, SSThreads, SSCall, SSLoop,
             SSLive, SSClean, SS!Commands
    <2> QED
      BY <2>2, <2>3, <2>4, <2>5 DEF SSInv
  <1>7. CASE SS!CommandReturns
    <2>a. ss_committed' \in [SS!Each -> BOOLEAN]
      BY <1>7, <1>a DEF SS!CommandReturns, SSInv, SSTypes
    <2>b. ss_faults' \in 0..ss_FaultsMax
      BY <1>7, SourceAssumption DEF SS!CommandReturns, SS!Fault, SSInv, SSTypes
    <2>1. ss_thread' \in [SS!Each -> SS!T!Threads] /\ ss_wpc' \in [SS!Each -> SSPlaces]
      BY <1>7, <1>a, SSThread
         DEF SS!CommandReturns, SSInv, SSTypes, SSPlaces, SS!Commands
    <2>2. SSTypes'
      BY <1>7, <1>a, <2>1, <2>a, <2>b
         DEF SS!CommandReturns, SS!PauseFails, SSInv, SSTypes
    <2>3. SSThreads'
      BY <1>7, <1>a, <2>2, SSThread
         DEF SS!CommandReturns, SS!PauseFails, SSInv, SSTypes, SSThreads, SSCall,
             SSLoop, SSLive, SSClean, SS!Commands
    <2>4. SSCall'
      BY <1>7, <1>a, <2>2, SSThread
         DEF SS!CommandReturns, SS!PauseFails, SSInv, SSTypes, SSThreads, SSCall,
             SSLoop, SSLive, SSClean, SS!Commands
    <2>5. SSLoop'
      BY <1>7, <1>a, <2>2, SSThread
         DEF SS!CommandReturns, SS!PauseFails, SSInv, SSTypes, SSThreads, SSCall,
             SSLoop, SSLive, SSClean, SS!Commands
    <2> QED
      BY <2>2, <2>3, <2>4, <2>5 DEF SSInv
  <1>8. CASE SS!Stop
    <2>a. ss_committed' \in [SS!Each -> BOOLEAN]
      BY <1>8, <1>a DEF SS!Stop, SSInv, SSTypes
    <2>b. ss_faults' \in 0..ss_FaultsMax
      BY <1>8, SourceAssumption DEF SS!Stop, SS!Fault, SSInv, SSTypes
    <2>1. ss_thread' \in [SS!Each -> SS!T!Threads] /\ ss_wpc' \in [SS!Each -> SSPlaces]
      BY <1>8, <1>a, SSThread DEF SS!Stop, SSInv, SSTypes, SSPlaces, SS!Commands
    <2>2. SSTypes'
      BY <1>8, <1>a, <2>1, <2>a, <2>b DEF SS!Stop, SS!PauseFails, SSInv, SSTypes
    <2>3. SSThreads'
      BY <1>8, <1>a, <2>2, SSThread
         DEF SS!Stop, SS!PauseFails, SSInv, SSTypes, SSThreads, SSCall, SSLoop, SSLive,
             SSClean, SS!Commands
    <2>4. SSCall'
      BY <1>8, <1>a, <2>2, SSThread
         DEF SS!Stop, SS!PauseFails, SSInv, SSTypes, SSThreads, SSCall, SSLoop, SSLive,
             SSClean, SS!Commands
    <2>5. SSLoop'
      BY <1>8, <1>a, <2>2, SSThread
         DEF SS!Stop, SS!PauseFails, SSInv, SSTypes, SSThreads, SSCall, SSLoop, SSLive,
             SSClean, SS!Commands
    <2> QED
      BY <2>2, <2>3, <2>4, <2>5 DEF SSInv
  <1>9. CASE SS!Decommit
    <2>a. ss_committed' \in [SS!Each -> BOOLEAN]
      BY <1>9, <1>a DEF SS!Decommit, SSInv, SSTypes
    <2>b. ss_faults' \in 0..ss_FaultsMax
      BY <1>9, SourceAssumption DEF SS!Decommit, SS!Fault, SSInv, SSTypes
    <2>1. ss_thread' \in [SS!Each -> SS!T!Threads] /\ ss_wpc' \in [SS!Each -> SSPlaces]
      BY <1>9, <1>a, SSThread DEF SS!Decommit, SSInv, SSTypes, SSPlaces, SS!Commands
    <2>2. SSTypes'
      BY <1>9, <1>a, <2>1, <2>a, <2>b, SSNext
         DEF SS!Decommit, SS!PauseFails, SSInv, SSTypes
    <2>3. SSThreads'
      BY <1>9, <1>a, <2>2, SSThread, SSNext
         DEF SS!Decommit, SS!PauseFails, SSInv, SSTypes, SSThreads, SSCall, SSLoop,
             SSLive, SSClean, SS!Commands
    <2>4. SSCall'
      BY <1>9, <1>a, <2>2, SSThread, SSNext
         DEF SS!Decommit, SS!PauseFails, SSInv, SSTypes, SSThreads, SSCall, SSLoop,
             SSLive, SSClean, SS!Commands
    <2>5. CASE SS!NextPin("decommit", "Stopped")
      <3>1. CASE ss_pin' = ss_pin + 1
        <4>1. ss_cpc' = "decommit" /\ UNCHANGED <<ss_state, ss_halfway>>
              /\ \A p \in SS!Each : /\ p < ss_pin' <=> p < ss_pin \/ p = ss_pin
                                    /\ p >= ss_pin' => p > ss_pin
          <5>1. ss_pin' # 1
            BY <1>a, <3>1
          <5> QED
            BY <2>5, <5>1, SSNext DEF SSInv
        <4> QED
          BY <1>9, <1>a, <2>2, <4>1, SSThread
             DEF SS!Decommit, SSInv, SSTypes, SSThreads, SSCall, SSLoop, SSLive,
                 SSClean
      <3>2. CASE /\ ss_pin' = 1 /\ ss_cpc' = "idle" /\ ss_state' = "Stopped"
                 /\ ss_halfway' = FALSE
                 /\ \A p \in SS!Each : p < ss_pin \/ p = ss_pin
        BY <1>9, <1>a, <2>2, <3>2, SSThread
           DEF SS!Decommit, SSInv, SSTypes, SSThreads, SSCall, SSLoop, SSLive, SSClean
      <3> QED
        BY <2>5, <3>1, <3>2, SSNext DEF SSInv
    <2>6. CASE ~SS!NextPin("decommit", "Stopped")
      BY <1>9, <1>a, <2>2, <2>6, SSThread
         DEF SS!Decommit, SSInv, SSTypes, SSThreads, SSCall, SSLoop, SSLive, SSClean,
             SS!Commands
    <2> QED
      BY <2>2, <2>3, <2>4, <2>5, <2>6 DEF SSInv
  <1>10. CASE SS!StopReturns
    <2>a. ss_committed' \in [SS!Each -> BOOLEAN]
      BY <1>10, <1>a DEF SS!StopReturns, SSInv, SSTypes
    <2>b. ss_faults' \in 0..ss_FaultsMax
      BY <1>10, SourceAssumption DEF SS!StopReturns, SS!Fault, SSInv, SSTypes
    <2>1. ss_thread' \in [SS!Each -> SS!T!Threads] /\ ss_wpc' \in [SS!Each -> SSPlaces]
      BY <1>10, <1>a, SSThread DEF SS!StopReturns, SSInv, SSTypes, SSPlaces, SS!Commands
    <2>2. SSTypes'
      BY <1>10, <1>a, <2>1, <2>a, <2>b DEF SS!StopReturns, SS!PauseFails, SSInv, SSTypes
    <2>3. SSThreads'
      BY <1>10, <1>a, <2>2, SSThread
         DEF SS!StopReturns, SS!PauseFails, SSInv, SSTypes, SSThreads, SSCall, SSLoop,
             SSLive, SSClean, SS!Commands
    <2>4. SSCall'
      BY <1>10, <1>a, <2>2, SSThread
         DEF SS!StopReturns, SS!PauseFails, SSInv, SSTypes, SSThreads, SSCall, SSLoop,
             SSLive, SSClean, SS!Commands
    <2>5. SSLoop'
      BY <1>10, <1>a, <2>2, SSThread
         DEF SS!StopReturns, SS!PauseFails, SSInv, SSTypes, SSThreads, SSCall, SSLoop,
             SSLive, SSClean, SS!Commands
    <2> QED
      BY <2>2, <2>3, <2>4, <2>5 DEF SSInv
  <1>11. CASE SS!ExitReturns
    <2>a. ss_committed' \in [SS!Each -> BOOLEAN]
      BY <1>11, <1>a DEF SS!ExitReturns, SSInv, SSTypes
    <2>b. ss_faults' \in 0..ss_FaultsMax
      BY <1>11, SourceAssumption DEF SS!ExitReturns, SS!Fault, SSInv, SSTypes
    <2>1. ss_thread' \in [SS!Each -> SS!T!Threads] /\ ss_wpc' \in [SS!Each -> SSPlaces]
      BY <1>11, <1>a, SSThread DEF SS!ExitReturns, SSInv, SSTypes, SSPlaces, SS!Commands
    <2>2. SSTypes'
      BY <1>11, <1>a, <2>1, <2>a, <2>b, SSNext
         DEF SS!ExitReturns, SS!PauseFails, SSInv, SSTypes
    <2>3. SSThreads'
      BY <1>11, <1>a, <2>2, SSThread, SSNext
         DEF SS!ExitReturns, SS!PauseFails, SSInv, SSTypes, SSThreads, SSCall, SSLoop,
             SSLive, SSClean, SS!Commands
    <2>4. SSCall'
      BY <1>11, <1>a, <2>2, SSThread, SSNext
         DEF SS!ExitReturns, SS!PauseFails, SSInv, SSTypes, SSThreads, SSCall, SSLoop,
             SSLive, SSClean, SS!Commands
    <2>5. CASE SS!NextPin("decommit", "Stopped")
      <3>1. CASE ss_pin' = ss_pin + 1
        <4>1. ss_cpc' = "decommit" /\ UNCHANGED <<ss_state, ss_halfway>>
              /\ \A p \in SS!Each : /\ p < ss_pin' <=> p < ss_pin \/ p = ss_pin
                                    /\ p >= ss_pin' => p > ss_pin
          <5>1. ss_pin' # 1
            BY <1>a, <3>1
          <5> QED
            BY <2>5, <5>1, SSNext DEF SSInv
        <4> QED
          BY <1>11, <1>a, <2>2, <4>1, SSThread
             DEF SS!ExitReturns, SSInv, SSTypes, SSThreads, SSCall, SSLoop, SSLive,
                 SSClean
      <3>2. CASE /\ ss_pin' = 1 /\ ss_cpc' = "idle" /\ ss_state' = "Stopped"
                 /\ ss_halfway' = FALSE
                 /\ \A p \in SS!Each : p < ss_pin \/ p = ss_pin
        BY <1>11, <1>a, <2>2, <3>2, SSThread
           DEF SS!ExitReturns, SSInv, SSTypes, SSThreads, SSCall, SSLoop, SSLive,
               SSClean
      <3> QED
        BY <2>5, <3>1, <3>2, SSNext DEF SSInv
    <2>6. CASE ~SS!NextPin("decommit", "Stopped")
      BY <1>11, <1>a, <2>2, <2>6, SSThread
         DEF SS!ExitReturns, SSInv, SSTypes, SSThreads, SSCall, SSLoop, SSLive, SSClean,
             SS!Commands
    <2> QED
      BY <2>2, <2>3, <2>4, <2>5, <2>6 DEF SSInv
  <1>12. CASE SS!Close
    <2>a. ss_committed' \in [SS!Each -> BOOLEAN]
      BY <1>12, <1>a DEF SS!Close, SSInv, SSTypes
    <2>b. ss_faults' \in 0..ss_FaultsMax
      BY <1>12, SourceAssumption DEF SS!Close, SS!Fault, SSInv, SSTypes
    <2>1. ss_thread' \in [SS!Each -> SS!T!Threads] /\ ss_wpc' \in [SS!Each -> SSPlaces]
      BY <1>12, <1>a, SSThread DEF SS!Close, SSInv, SSTypes, SSPlaces, SS!Commands
    <2>2. SSTypes'
      BY <1>12, <1>a, <2>1, <2>a, <2>b, SSNext
         DEF SS!Close, SS!PauseFails, SSInv, SSTypes
    <2>3. SSThreads'
      BY <1>12, <1>a, <2>2, SSThread, SSNext
         DEF SS!Close, SS!PauseFails, SSInv, SSTypes, SSThreads, SSCall, SSLoop, SSLive,
             SSClean, SS!Commands
    <2>4. SSCall'
      BY <1>12, <1>a, <2>2, SSThread, SSNext
         DEF SS!Close, SS!PauseFails, SSInv, SSTypes, SSThreads, SSCall, SSLoop, SSLive,
             SSClean, SS!Commands
    <2>5. CASE SS!NextPin("decommit", "Stopped")
      <3>1. CASE ss_pin' = ss_pin + 1
        <4>1. ss_cpc' = "decommit" /\ UNCHANGED <<ss_state, ss_halfway>>
              /\ \A p \in SS!Each : /\ p < ss_pin' <=> p < ss_pin \/ p = ss_pin
                                    /\ p >= ss_pin' => p > ss_pin
          <5>1. ss_pin' # 1
            BY <1>a, <3>1
          <5> QED
            BY <2>5, <5>1, SSNext DEF SSInv
        <4> QED
          BY <1>12, <1>a, <2>2, <4>1, SSThread
             DEF SS!Close, SSInv, SSTypes, SSThreads, SSCall, SSLoop, SSLive, SSClean
      <3>2. CASE /\ ss_pin' = 1 /\ ss_cpc' = "idle" /\ ss_state' = "Stopped"
                 /\ ss_halfway' = FALSE
                 /\ \A p \in SS!Each : p < ss_pin \/ p = ss_pin
        BY <1>12, <1>a, <2>2, <3>2, SSThread
           DEF SS!Close, SSInv, SSTypes, SSThreads, SSCall, SSLoop, SSLive, SSClean
      <3> QED
        BY <2>5, <3>1, <3>2, SSNext DEF SSInv
    <2>6. CASE ~SS!NextPin("decommit", "Stopped")
      BY <1>12, <1>a, <2>2, <2>6, SSThread
         DEF SS!Close, SSInv, SSTypes, SSThreads, SSCall, SSLoop, SSLive, SSClean,
             SS!Commands
    <2> QED
      BY <2>2, <2>3, <2>4, <2>5, <2>6 DEF SSInv
  <1>13. ASSUME NEW p \in SS!Each, SS!ThreadInit(p) PROVE SSInv'
    <2>1. ss_thread' \in [SS!Each -> SS!T!Threads] /\ ss_wpc' \in [SS!Each -> SSPlaces]
          /\ UNCHANGED ss_committed
      BY <1>13, <1>a, SSThread
         DEF SS!ThreadInit, SS!Reply, SS!Goto, SS!Control, SSInv, SSTypes, SSPlaces,
             SS!Results
    <2>2. SSTypes'
      BY <1>13, <1>a, <2>1, SourceAssumption
         DEF SS!ThreadInit, SS!Fault, SS!Control, SSInv, SSTypes
    <2>3. SSThreads'
      BY <1>13, <1>a, <2>1, SSThread
         DEF SS!ThreadInit, SS!Reply, SS!Goto, SS!Control, SSInv, SSTypes, SSThreads,
             SSPlaces, SS!Results, SS!T!Requested
    <2>4. SSCall'
      BY <1>13, <1>a, <2>1, SSThread
         DEF SS!ThreadInit, SS!Reply, SS!Goto, SS!Control, SSInv, SSTypes, SSThreads,
             SSCall, SSLive, SSPlaces, SS!Results, SS!T!Requested
    <2>5. SSLoop'
      BY <1>13, <1>a, <2>1, SSThread
         DEF SS!ThreadInit, SS!Reply, SS!Goto, SS!Control, SSInv, SSTypes, SSThreads,
             SSCall, SSLoop, SSLive, SSClean, SSPlaces, SS!Results, SS!T!Requested
    <2> QED
      BY <2>2, <2>3, <2>4, <2>5 DEF SSInv
  <1>14. ASSUME NEW p \in SS!Each, SS!GetRequest(p) PROVE SSInv'
    <2>1. ss_thread' \in [SS!Each -> SS!T!Threads] /\ ss_wpc' \in [SS!Each -> SSPlaces]
          /\ UNCHANGED ss_committed
      BY <1>14, <1>a, SSThread
         DEF SS!GetRequest, SS!Reply, SS!Goto, SS!Control, SSInv, SSTypes, SSPlaces,
             SS!Results
    <2>2. SSTypes'
      BY <1>14, <1>a, <2>1, SourceAssumption
         DEF SS!GetRequest, SS!Fault, SS!Control, SSInv, SSTypes
    <2>3. SSThreads'
      BY <1>14, <1>a, <2>1, SSThread
         DEF SS!GetRequest, SS!Reply, SS!Goto, SS!Control, SSInv, SSTypes, SSThreads,
             SSPlaces, SS!Results, SS!T!Requested
    <2>4. SSCall'
      BY <1>14, <1>a, <2>1, SSThread
         DEF SS!GetRequest, SS!Reply, SS!Goto, SS!Control, SSInv, SSTypes, SSThreads,
             SSCall, SSLive, SSPlaces, SS!Results, SS!T!Requested
    <2>5. SSLoop'
      BY <1>14, <1>a, <2>1, SSThread
         DEF SS!GetRequest, SS!Reply, SS!Goto, SS!Control, SSInv, SSTypes, SSThreads,
             SSCall, SSLoop, SSLive, SSClean, SSPlaces, SS!Results, SS!T!Requested
    <2> QED
      BY <2>2, <2>3, <2>4, <2>5 DEF SSInv
  <1>15. ASSUME NEW p \in SS!Each, SS!ThreadExit(p) PROVE SSInv'
    <2>1. ss_thread' \in [SS!Each -> SS!T!Threads] /\ ss_wpc' \in [SS!Each -> SSPlaces]
          /\ UNCHANGED ss_committed
      BY <1>15, <1>a, SSThread
         DEF SS!ThreadExit, SS!Reply, SS!Goto, SS!Control, SSInv, SSTypes, SSPlaces,
             SS!Results
    <2>2. SSTypes'
      BY <1>15, <1>a, <2>1, SourceAssumption
         DEF SS!ThreadExit, SS!Fault, SS!Control, SSInv, SSTypes
    <2>3. SSThreads'
      BY <1>15, <1>a, <2>1, SSThread
         DEF SS!ThreadExit, SS!Reply, SS!Goto, SS!Control, SSInv, SSTypes, SSThreads,
             SSPlaces, SS!Results, SS!T!Requested
    <2>4. SSCall'
      BY <1>15, <1>a, <2>1, SSThread
         DEF SS!ThreadExit, SS!Reply, SS!Goto, SS!Control, SSInv, SSTypes, SSThreads,
             SSCall, SSLive, SSPlaces, SS!Results, SS!T!Requested
    <2>5. SSLoop'
      BY <1>15, <1>a, <2>1, SSThread
         DEF SS!ThreadExit, SS!Reply, SS!Goto, SS!Control, SSInv, SSTypes, SSThreads,
             SSCall, SSLoop, SSLive, SSClean, SSPlaces, SS!Results, SS!T!Requested
    <2> QED
      BY <2>2, <2>3, <2>4, <2>5 DEF SSInv
  <1>16. ASSUME NEW p \in SS!Each, SS!CheckRequest(p) PROVE SSInv'
    <2>1. ss_thread' \in [SS!Each -> SS!T!Threads] /\ ss_wpc' \in [SS!Each -> SSPlaces]
          /\ UNCHANGED ss_committed
      BY <1>16, <1>a, SSThread
         DEF SS!CheckRequest, SS!Reply, SS!Goto, SS!Control, SSInv, SSTypes, SSPlaces,
             SS!Results
    <2>2. SSTypes'
      BY <1>16, <1>a, <2>1, SourceAssumption
         DEF SS!CheckRequest, SS!Fault, SS!Control, SSInv, SSTypes
    <2>3. SSThreads'
      BY <1>16, <1>a, <2>1, SSThread
         DEF SS!CheckRequest, SS!Reply, SS!Goto, SS!Control, SSInv, SSTypes, SSThreads,
             SSPlaces, SS!Results, SS!T!Requested
    <2>4. SSCall'
      BY <1>16, <1>a, <2>1, SSThread
         DEF SS!CheckRequest, SS!Reply, SS!Goto, SS!Control, SSInv, SSTypes, SSThreads,
             SSCall, SSLive, SSPlaces, SS!Results, SS!T!Requested
    <2>5. SSLoop'
      BY <1>16, <1>a, <2>1, SSThread
         DEF SS!CheckRequest, SS!Reply, SS!Goto, SS!Control, SSInv, SSTypes, SSThreads,
             SSCall, SSLoop, SSLive, SSClean, SSPlaces, SS!Results, SS!T!Requested
    <2> QED
      BY <2>2, <2>3, <2>4, <2>5 DEF SSInv
  <1>17. ASSUME NEW p \in SS!Each, SS!NoBuffer(p) PROVE SSInv'
    <2>1. ss_thread' \in [SS!Each -> SS!T!Threads] /\ ss_wpc' \in [SS!Each -> SSPlaces]
          /\ UNCHANGED ss_committed
      BY <1>17, <1>a, SSThread
         DEF SS!NoBuffer, SS!Reply, SS!Goto, SS!Control, SSInv, SSTypes, SSPlaces,
             SS!Results
    <2>2. SSTypes'
      BY <1>17, <1>a, <2>1, SourceAssumption
         DEF SS!NoBuffer, SS!Fault, SS!Control, SSInv, SSTypes
    <2>3. SSThreads'
      BY <1>17, <1>a, <2>1, SSThread
         DEF SS!NoBuffer, SS!Reply, SS!Goto, SS!Control, SSInv, SSTypes, SSThreads,
             SSPlaces, SS!Results, SS!T!Requested
    <2>4. SSCall'
      BY <1>17, <1>a, <2>1, SSThread
         DEF SS!NoBuffer, SS!Reply, SS!Goto, SS!Control, SSInv, SSTypes, SSThreads,
             SSCall, SSLive, SSPlaces, SS!Results, SS!T!Requested
    <2>5. SSLoop'
      BY <1>17, <1>a, <2>1, SSThread
         DEF SS!NoBuffer, SS!Reply, SS!Goto, SS!Control, SSInv, SSTypes, SSThreads,
             SSCall, SSLoop, SSLive, SSClean, SSPlaces, SS!Results, SS!T!Requested
    <2> QED
      BY <2>2, <2>3, <2>4, <2>5 DEF SSInv
  <1>18. ASSUME NEW p \in SS!Each, SS!GetBuffer(p) PROVE SSInv'
    <2>1. ss_thread' \in [SS!Each -> SS!T!Threads] /\ ss_wpc' \in [SS!Each -> SSPlaces]
          /\ UNCHANGED ss_committed
      BY <1>18, <1>a, SSThread
         DEF SS!GetBuffer, SS!Reply, SS!Goto, SS!Control, SSInv, SSTypes, SSPlaces,
             SS!Results
    <2>2. SSTypes'
      BY <1>18, <1>a, <2>1, SourceAssumption
         DEF SS!GetBuffer, SS!Fault, SS!Control, SSInv, SSTypes
    <2>3. SSThreads'
      BY <1>18, <1>a, <2>1, SSThread
         DEF SS!GetBuffer, SS!Reply, SS!Goto, SS!Control, SSInv, SSTypes, SSThreads,
             SSPlaces, SS!Results, SS!T!Requested
    <2>4. SSCall'
      BY <1>18, <1>a, <2>1, SSThread
         DEF SS!GetBuffer, SS!Reply, SS!Goto, SS!Control, SSInv, SSTypes, SSThreads,
             SSCall, SSLive, SSPlaces, SS!Results, SS!T!Requested
    <2>5. SSLoop'
      BY <1>18, <1>a, <2>1, SSThread
         DEF SS!GetBuffer, SS!Reply, SS!Goto, SS!Control, SSInv, SSTypes, SSThreads,
             SSCall, SSLoop, SSLive, SSClean, SSPlaces, SS!Results, SS!T!Requested
    <2> QED
      BY <2>2, <2>3, <2>4, <2>5 DEF SSInv
  <1>19. ASSUME NEW p \in SS!Each, SS!FillBuffer(p) PROVE SSInv'
    <2>1. ss_thread' \in [SS!Each -> SS!T!Threads] /\ ss_wpc' \in [SS!Each -> SSPlaces]
          /\ UNCHANGED ss_committed
      BY <1>19, <1>a, SSThread
         DEF SS!FillBuffer, SS!Reply, SS!Goto, SS!Control, SSInv, SSTypes, SSPlaces,
             SS!Results
    <2>2. SSTypes'
      BY <1>19, <1>a, <2>1, SourceAssumption
         DEF SS!FillBuffer, SS!Fault, SS!Control, SSInv, SSTypes
    <2>3. SSThreads'
      BY <1>19, <1>a, <2>1, SSThread
         DEF SS!FillBuffer, SS!Reply, SS!Goto, SS!Control, SSInv, SSTypes, SSThreads,
             SSPlaces, SS!Results, SS!T!Requested
    <2>4. SSCall'
      BY <1>19, <1>a, <2>1, SSThread
         DEF SS!FillBuffer, SS!Reply, SS!Goto, SS!Control, SSInv, SSTypes, SSThreads,
             SSCall, SSLive, SSPlaces, SS!Results, SS!T!Requested
    <2>5. SSLoop'
      BY <1>19, <1>a, <2>1, SSThread
         DEF SS!FillBuffer, SS!Reply, SS!Goto, SS!Control, SSInv, SSTypes, SSThreads,
             SSCall, SSLoop, SSLive, SSClean, SSPlaces, SS!Results, SS!T!Requested
    <2> QED
      BY <2>2, <2>3, <2>4, <2>5 DEF SSInv
  <1>20. ASSUME NEW p \in SS!Each, SS!Deliver(p) PROVE SSInv'
    <2>1. ss_thread' \in [SS!Each -> SS!T!Threads] /\ ss_wpc' \in [SS!Each -> SSPlaces]
          /\ UNCHANGED ss_committed
      BY <1>20, <1>a, SSThread
         DEF SS!Deliver, SS!Reply, SS!Goto, SS!Control, SSInv, SSTypes, SSPlaces,
             SS!Results
    <2>2. SSTypes'
      BY <1>20, <1>a, <2>1, SourceAssumption
         DEF SS!Deliver, SS!Fault, SS!Control, SSInv, SSTypes
    <2>3. SSThreads'
      BY <1>20, <1>a, <2>1, SSThread
         DEF SS!Deliver, SS!Reply, SS!Goto, SS!Control, SSInv, SSTypes, SSThreads,
             SSPlaces, SS!Results, SS!T!Requested
    <2>4. SSCall'
      BY <1>20, <1>a, <2>1, SSThread
         DEF SS!Deliver, SS!Reply, SS!Goto, SS!Control, SSInv, SSTypes, SSThreads,
             SSCall, SSLive, SSPlaces, SS!Results, SS!T!Requested
    <2>5. SSLoop'
      BY <1>20, <1>a, <2>1, SSThread
         DEF SS!Deliver, SS!Reply, SS!Goto, SS!Control, SSInv, SSTypes, SSThreads,
             SSCall, SSLoop, SSLive, SSClean, SSPlaces, SS!Results, SS!T!Requested
    <2> QED
      BY <2>2, <2>3, <2>4, <2>5 DEF SSInv
  <1>21. CASE UNCHANGED SS!vars
    BY <1>21 DEF SS!vars, SSInv, SSTypes, SSThreads, SSCall, SSLoop, SSLive, SSClean
  <1> QED
    BY <1>1, <1>2, <1>3, <1>4, <1>5, <1>6, <1>7, <1>8, <1>9, <1>10, <1>11, <1>12, <1>13,
       <1>14, <1>15, <1>16, <1>17, <1>18, <1>19, <1>20, <1>21
       DEF SS!Next, SS!Goes, SS!Work

-----------------------------------------------------------------------------
(***************************************************************************)
(* Pulling pin.  The client's call and the worker's place (PPControl); which*)
(* requests the reader keeps (PPReader); while Process runs, the positions *)
(* asked for follow one another from the first not delivered to tCurrent   *)
(* (PPChain).                                                              *)
(***************************************************************************)

LEMMA PPAlign ==
  ASSUME NEW p \in Nat
  PROVE  /\ PP!AlignDown(p) \in Nat /\ PP!AlignDown(p) <= p
         /\ PP!AlignUp(p) \in Nat /\ p <= PP!AlignUp(p) /\ PP!AlignUp(p) <= p + pp_Align - 1
  <1>1. \A q \in Nat : q % pp_Align \in 0 .. pp_Align - 1 /\ q % pp_Align <= q
    BY PullAssumption
  <1>2. \A q \in Nat : PP!AlignDown(q) \in Nat /\ PP!AlignDown(q) <= q /\ q - pp_Align + 1 <= PP!AlignDown(q)
    BY <1>1, PullAssumption DEF PP!AlignDown
  <1>3. p + pp_Align - 1 \in Nat
    BY PullAssumption
  <1> QED
    BY <1>2, <1>3, PullAssumption DEF PP!AlignUp

PPRange == 0..(pp_Length + pp_Align)

LEMMA PPEnd ==
  ASSUME pp_stop \in Nat
  PROVE  /\ PP!StopAt \in 0..pp_Length /\ PP!AlignStop \in PPRange
         /\ PP!StopAt <= PP!AlignStop
         /\ \A p \in PPRange : PP!Till(p) \in PPRange
  <1>1. PP!StopAt \in 0..pp_Length
    BY PullAssumption DEF PP!StopAt
  <1>2. PP!AlignStop \in PPRange /\ PP!StopAt <= PP!AlignStop
    BY <1>1, PPAlign, PullAssumption DEF PP!AlignStop, PPRange
  <1>3. \A p \in PPRange : PP!Till(p) \in PPRange
    BY <1>2, PullAssumption DEF PP!Till, PPRange
  <1> QED
    BY <1>1, <1>2, <1>3

LEMMA PPSame ==
  ASSUME pp_stop' = pp_stop
  PROVE  PP!StopAt' = PP!StopAt /\ PP!AlignStop' = PP!AlignStop
  BY DEF PP!StopAt, PP!AlignStop, PP!AlignUp, PP!AlignDown

LEMMA PPThread ==
  ASSUME NEW t \in PP!T!Threads
  PROVE  /\ \A c \in PP!Commands :
              /\ PP!T!Called(t, c) \in PP!T!Threads
              /\ PP!T!Called(t, c).sent /\ PP!T!Called(t, c).param = c
              /\ PP!T!Called(t, c).complete = t.complete
              /\ PP!T!Called(t, c).exists = t.exists
              /\ PP!T!Called(t, c).running = t.running
         /\ /\ PP!T!Created(t) \in PP!T!Threads
            /\ PP!T!Created(t).exists /\ PP!T!Created(t).running
            /\ PP!T!Created(t).sent = t.sent /\ PP!T!Created(t).complete = t.complete
         /\ /\ PP!T!Returned(t) \in PP!T!Threads /\ ~PP!T!Returned(t).complete
            /\ PP!T!Returned(t).exists = t.exists /\ PP!T!Returned(t).running = t.running
            /\ PP!T!Returned(t).sent = t.sent /\ PP!T!Returned(t).param = t.param
         /\ /\ PP!T!Replied(t, "S_OK") \in PP!T!Threads
            /\ PP!T!Replied(t, "S_OK").complete /\ ~PP!T!Replied(t, "S_OK").sent
            /\ PP!T!Replied(t, "S_OK").exists = t.exists
            /\ PP!T!Replied(t, "S_OK").running = t.running
            /\ PP!T!Replied(t, "S_OK").param = t.param
         /\ /\ PP!T!Exited(t) \in PP!T!Threads /\ ~PP!T!Exited(t).running
            /\ PP!T!Exited(t).exists = t.exists /\ PP!T!Exited(t).complete = t.complete
            /\ PP!T!Exited(t).sent = t.sent /\ PP!T!Exited(t).param = t.param
         /\ /\ PP!T!Closed(t) \in PP!T!Threads /\ ~PP!T!Closed(t).exists
            /\ PP!T!Closed(t).running = t.running /\ PP!T!Closed(t).complete = t.complete
            /\ PP!T!Closed(t).sent = t.sent /\ PP!T!Closed(t).param = t.param
  BY
     DEF PP!T!Threads, PP!T!Called, PP!T!Created, PP!T!Returned, PP!T!Replied,
         PP!T!Exited, PP!T!Closed,
         PP!Commands, PP!Results

PPTypes ==
  /\ pp_cpc \in {"idle", "start", "exit", "close", "pause"}
  /\ pp_state \in PP!Commands /\ pp_start \in 0..pp_Length /\ pp_stop \in 0..(pp_Length + 1)
  /\ pp_sync \in BOOLEAN /\ pp_second \in BOOLEAN /\ pp_cancelled \in BOOLEAN
  /\ pp_committed \in BOOLEAN /\ pp_flushing \in BOOLEAN /\ pp_refused \in BOOLEAN
  /\ pp_thread \in PP!T!Threads
  /\ pp_wpc \in {"none", "get", "exit", "flush", "process", "outer", "buffer",
                 "collect", "deliver"}
  /\ pp_current \in PPRange /\ pp_next \in PPRange
  /\ pp_requests \in Seq(PPRange) /\ pp_held \in Nat
  /\ pp_held + Len(pp_requests) <= pp_cBuffers
  /\ pp_ended \in {"no", "end", "other"} /\ pp_seeks \in 0..pp_Seeks

PPControl ==
  /\ ~pp_thread.exists => pp_wpc = "none" /\ ~pp_thread.sent /\ ~pp_thread.complete
  /\ ~pp_thread.running => pp_wpc = "none"
  /\ pp_cpc \in {"idle", "close"} => ~pp_thread.sent /\ ~pp_thread.complete
  /\ pp_cpc = "idle" => pp_state \in {"Exit", "Start"} /\ (pp_thread.exists <=> pp_state = "Start")
  /\ pp_cpc \in {"start", "pause", "exit"} =>
       pp_thread.exists /\ ~(pp_thread.sent /\ pp_thread.complete)
  /\ pp_cpc = "start" => pp_state = "Start" /\ (pp_thread.sent => pp_thread.param = "Start")
  /\ pp_cpc = "pause" => /\ pp_state = "Pause" /\ (pp_thread.sent => pp_thread.param = "Pause")
                         /\ pp_thread.complete => pp_wpc \in {"flush", "get"}
  /\ pp_cpc = "exit" => /\ pp_state = "Exit" /\ (pp_thread.sent => pp_thread.param = "Exit")
                        /\ pp_thread.complete => pp_wpc \in {"exit", "none"}
  /\ pp_cpc = "close" => pp_state = "Exit" /\ pp_wpc \in {"exit", "none"}

PPReader ==
  /\ pp_wpc \in {"none", "get", "exit", "process", "outer"} => pp_requests = <<>>
  /\ pp_wpc = "deliver" => pp_requests # <<>>
  /\ pp_sync => IF pp_wpc = "deliver" THEN Len(pp_requests) = 1 ELSE pp_requests = <<>>

PPChain ==
  /\ pp_ended = "no"
  /\ \A i \in 1 .. Len(pp_requests) - 1 : pp_requests[i + 1] = PP!Till(pp_requests[i])
  /\ IF pp_requests = <<>>
       THEN pp_current = pp_next \/ (pp_wpc = "outer" /\ pp_refused /\ pp_current >= PP!AlignStop)
       ELSE pp_requests[1] = pp_next /\ PP!Till(pp_requests[Len(pp_requests)]) = pp_current

PPOrder ==
  /\ pp_wpc \in {"outer", "buffer", "collect", "deliver"} => PPChain
  /\ PP!EndAfterAll

PPInv == PPTypes /\ PPControl /\ PPReader /\ PPOrder

LEMMA PPSafe == PPInv => PP!TypeOK /\ PP!NoneOutstanding /\ PP!InOrder
  <1> SUFFICES ASSUME PPInv PROVE PP!TypeOK /\ PP!NoneOutstanding /\ PP!InOrder
    OBVIOUS
  <1>1. {pp_sync, pp_second, pp_cancelled, pp_committed, pp_flushing, pp_refused} \subseteq BOOLEAN
    BY DEF PPInv, PPTypes
  <1>2. PP!InUse \in 0..pp_cBuffers
    BY PullAssumption DEF PPInv, PPTypes, PP!InUse
  <1>3. PP!TypeOK
    BY <1>1, <1>2 DEF PPInv, PPTypes, PP!TypeOK, PPRange
  <1>4. PP!NoneOutstanding
    BY DEF PPInv, PPReader, PP!NoneOutstanding
  <1>5. pp_wpc = "deliver" => Head(pp_requests) = pp_next
    BY DEF PPInv, PPTypes, PPReader, PPOrder, PPChain
  <1>6. PP!InOrder
    BY <1>5 DEF PPInv, PPOrder, PP!InOrder, PP!Contiguous
  <1> QED
    BY <1>3, <1>4, <1>6

LEMMA PPStart == PP!Init => PPInv
  <1> SUFFICES ASSUME PP!Init PROVE PPInv
    OBVIOUS
  <1>1. pp_thread \in PP!T!Threads /\ ~pp_thread.exists /\ ~pp_thread.sent
        /\ ~pp_thread.complete
    BY DEF PP!Init, PP!T!Threads, PP!T!NoThread, PP!T!NoCommand, PP!Results
  <1>2. pp_requests \in Seq(PPRange)
    BY DEF PP!Init
  <1>3. PPTypes
    <2>1. pp_stop \in 0..(pp_Length + 1) /\ pp_start \in 0..pp_Length
          /\ pp_current \in PPRange
          /\ pp_next \in PPRange /\ pp_held \in Nat
          /\ pp_held + Len(pp_requests) <= pp_cBuffers
          /\ pp_seeks \in 0..pp_Seeks
      BY PullAssumption DEF PP!Init, PPRange
    <2> QED
      BY <1>1, <1>2, <2>1 DEF PP!Init, PPTypes, PP!Commands
  <1>4. PPControl /\ PPReader /\ PPOrder
    BY <1>1 DEF PP!Init, PPControl, PPReader, PPOrder, PP!EndAfterAll
  <1> QED
    BY <1>3, <1>4 DEF PPInv


LEMMA PPStep == PPInv /\ [PP!Next]_(PP!vars) => PPInv'
  <1> SUFFICES ASSUME PPInv, [PP!Next]_(PP!vars) PROVE PPInv'
    OBVIOUS
  <1> USE DEF PPInv, PP!control, PP!reader
  <1>a. pp_stop \in Nat /\ PP!AlignStop \in PPRange /\ PP!StopAt <= PP!AlignStop
        /\ PP!StopAt \in 0..pp_Length
        /\ \A p \in PPRange : PP!Till(p) \in PPRange
    BY PPEnd DEF PPTypes
  <1>b. pp_thread \in PP!T!Threads /\ pp_thread.exists \in BOOLEAN
        /\ pp_thread.sent \in BOOLEAN
        /\ pp_thread.complete \in BOOLEAN /\ pp_thread.running \in BOOLEAN
    BY DEF PPTypes, PP!T!Threads
  <1>1. CASE PP!Active
    <2>1. UNCHANGED <<pp_start, pp_stop, pp_sync, pp_current, pp_second, pp_requests,
                      pp_held, pp_next, pp_ended, pp_refused>>
      BY <1>1 DEF PP!Active, PP!StartThread
    <2>a. pp_thread' \in PP!T!Threads
      BY <1>1, <1>b, PPThread DEF PP!Active, PP!StartThread, PP!Commands
    <2>b. pp_seeks' \in 0..pp_Seeks
      BY <1>1, PullAssumption DEF PPTypes, PP!Active, PP!StartThread
    <2>2. PPTypes'
      BY <1>1, <2>1, <2>a, <2>b DEF PPTypes, PP!Active, PP!StartThread, PP!Commands
    <2>3. PPControl' /\ PPReader'
      BY <1>1, <1>b, <2>1, PPThread
         DEF PPControl, PPReader, PPTypes, PP!Active, PP!StartThread, PP!Commands
    <2>4. PPOrder'
      <3>1. PP!StopAt' = PP!StopAt /\ PP!AlignStop' = PP!AlignStop
        BY <2>1, PPSame
      <3>2. pp_wpc' = pp_wpc \/ pp_wpc' = "get"
        BY <1>1 DEF PP!Active, PP!StartThread
      <3> QED
        BY <2>1, <3>1, <3>2 DEF PPOrder, PPChain, PP!EndAfterAll, PP!Till
    <2> QED
      BY <2>2, <2>3, <2>4
  <1>2. CASE PP!StartReturns
    <2>1. UNCHANGED <<pp_start, pp_stop, pp_sync, pp_current, pp_second, pp_requests,
                      pp_held, pp_next, pp_ended, pp_refused>>
      BY <1>2 DEF PP!StartReturns
    <2>a. pp_thread' \in PP!T!Threads
      BY <1>2, <1>b, PPThread DEF PP!StartReturns, PP!Commands
    <2>b. pp_seeks' \in 0..pp_Seeks
      BY <1>2, PullAssumption DEF PPTypes, PP!StartReturns
    <2>2. PPTypes'
      BY <1>2, <2>1, <2>a, <2>b DEF PPTypes, PP!StartReturns, PP!Commands
    <2>3. PPControl' /\ PPReader'
      BY <1>2, <1>b, <2>1, PPThread
         DEF PPControl, PPReader, PPTypes, PP!StartReturns, PP!Commands
    <2>4. PPOrder'
      <3>1. PP!StopAt' = PP!StopAt /\ PP!AlignStop' = PP!AlignStop
        BY <2>1, PPSame
      <3>2. pp_wpc' = pp_wpc \/ pp_wpc' = "get"
        BY <1>2 DEF PP!StartReturns
      <3> QED
        BY <2>1, <3>1, <3>2 DEF PPOrder, PPChain, PP!EndAfterAll, PP!Till
    <2> QED
      BY <2>2, <2>3, <2>4
  <1>3. CASE PP!Inactive
    <2>1. UNCHANGED <<pp_start, pp_stop, pp_sync, pp_current, pp_second, pp_requests,
                      pp_held, pp_next, pp_ended, pp_refused>>
      BY <1>3 DEF PP!Inactive
    <2>a. pp_thread' \in PP!T!Threads
      BY <1>3, <1>b, PPThread DEF PP!Inactive, PP!Commands
    <2>b. pp_seeks' \in 0..pp_Seeks
      BY <1>3, PullAssumption DEF PPTypes, PP!Inactive
    <2>2. PPTypes'
      BY <1>3, <2>1, <2>a, <2>b DEF PPTypes, PP!Inactive, PP!Commands
    <2>3. PPControl' /\ PPReader'
      BY <1>3, <1>b, <2>1, PPThread
         DEF PPControl, PPReader, PPTypes, PP!Inactive, PP!Commands
    <2>4. PPOrder'
      <3>1. PP!StopAt' = PP!StopAt /\ PP!AlignStop' = PP!AlignStop
        BY <2>1, PPSame
      <3>2. pp_wpc' = pp_wpc \/ pp_wpc' = "get"
        BY <1>3 DEF PP!Inactive
      <3> QED
        BY <2>1, <3>1, <3>2 DEF PPOrder, PPChain, PP!EndAfterAll, PP!Till
    <2> QED
      BY <2>2, <2>3, <2>4
  <1>4. CASE PP!ExitReturns
    <2>1. UNCHANGED <<pp_start, pp_stop, pp_sync, pp_current, pp_second, pp_requests,
                      pp_held, pp_next, pp_ended, pp_refused>>
      BY <1>4 DEF PP!ExitReturns
    <2>a. pp_thread' \in PP!T!Threads
      BY <1>4, <1>b, PPThread DEF PP!ExitReturns, PP!Commands
    <2>b. pp_seeks' \in 0..pp_Seeks
      BY <1>4, PullAssumption DEF PPTypes, PP!ExitReturns
    <2>2. PPTypes'
      BY <1>4, <2>1, <2>a, <2>b DEF PPTypes, PP!ExitReturns, PP!Commands
    <2>3. PPControl' /\ PPReader'
      BY <1>4, <1>b, <2>1, PPThread
         DEF PPControl, PPReader, PPTypes, PP!ExitReturns, PP!Commands
    <2>4. PPOrder'
      <3>1. PP!StopAt' = PP!StopAt /\ PP!AlignStop' = PP!AlignStop
        BY <2>1, PPSame
      <3>2. pp_wpc' = pp_wpc \/ pp_wpc' = "get"
        BY <1>4 DEF PP!ExitReturns
      <3> QED
        BY <2>1, <3>1, <3>2 DEF PPOrder, PPChain, PP!EndAfterAll, PP!Till
    <2> QED
      BY <2>2, <2>3, <2>4
  <1>5. CASE PP!Close
    <2>1. UNCHANGED <<pp_start, pp_stop, pp_sync, pp_current, pp_second, pp_requests,
                      pp_held, pp_next, pp_ended, pp_refused>>
      BY <1>5 DEF PP!Close
    <2>a. pp_thread' \in PP!T!Threads
      BY <1>5, <1>b, PPThread DEF PP!Close, PP!Commands
    <2>b. pp_seeks' \in 0..pp_Seeks
      BY <1>5, PullAssumption DEF PPTypes, PP!Close
    <2>2. PPTypes'
      BY <1>5, <2>1, <2>a, <2>b DEF PPTypes, PP!Close, PP!Commands
    <2>3. PPControl' /\ PPReader'
      BY <1>5, <1>b, <2>1, PPThread
         DEF PPControl, PPReader, PPTypes, PP!Close, PP!Commands
    <2>4. PPOrder'
      <3>1. PP!StopAt' = PP!StopAt /\ PP!AlignStop' = PP!AlignStop
        BY <2>1, PPSame
      <3>2. pp_wpc' = pp_wpc \/ pp_wpc' = "get"
        BY <1>5 DEF PP!Close
      <3> QED
        BY <2>1, <3>1, <3>2 DEF PPOrder, PPChain, PP!EndAfterAll, PP!Till
    <2> QED
      BY <2>2, <2>3, <2>4
  <1>6. CASE PP!SeekStarted
    <2>1. UNCHANGED <<pp_start, pp_stop, pp_sync, pp_current, pp_second, pp_requests,
                      pp_held, pp_next, pp_ended, pp_refused>>
      BY <1>6 DEF PP!SeekStarted
    <2>a. pp_thread' \in PP!T!Threads
      BY <1>6, <1>b, PPThread DEF PP!SeekStarted, PP!Commands
    <2>b. pp_seeks' \in 0..pp_Seeks
      BY <1>6, PullAssumption DEF PPTypes, PP!SeekStarted
    <2>2. PPTypes'
      BY <1>6, <2>1, <2>a, <2>b DEF PPTypes, PP!SeekStarted, PP!Commands
    <2>3. PPControl' /\ PPReader'
      BY <1>6, <1>b, <2>1, PPThread
         DEF PPControl, PPReader, PPTypes, PP!SeekStarted, PP!Commands
    <2>4. PPOrder'
      <3>1. PP!StopAt' = PP!StopAt /\ PP!AlignStop' = PP!AlignStop
        BY <2>1, PPSame
      <3>2. pp_wpc' = pp_wpc \/ pp_wpc' = "get"
        BY <1>6 DEF PP!SeekStarted
      <3> QED
        BY <2>1, <3>1, <3>2 DEF PPOrder, PPChain, PP!EndAfterAll, PP!Till
    <2> QED
      BY <2>2, <2>3, <2>4
  <1>7. CASE PP!SeekStopped
    <2>1. /\ pp_start' \in 0..pp_Length /\ pp_stop' \in 0..(pp_Length + 1)
          /\ pp_next' = PP!AlignDown(pp_start')
          /\ pp_ended' = "no" /\ pp_refused' = FALSE
      BY <1>7 DEF PP!SeekStopped, PP!NewRange
    <2>a. pp_thread' \in PP!T!Threads /\ pp_seeks' \in 0..pp_Seeks
      BY <1>7, <1>b, PPThread, PullAssumption DEF PPTypes, PP!SeekStopped, PP!Commands
    <2>2. pp_next' \in PPRange
      BY <2>1, PPAlign, PullAssumption DEF PPRange
    <2>3. PPTypes'
      BY <1>7, <2>1, <2>2, <2>a DEF PPTypes, PP!SeekStopped, PP!Commands
    <2>4. PPControl' /\ PPReader'
      BY <1>7, <1>b, PPThread
         DEF PPControl, PPReader, PPTypes, PP!SeekStopped, PP!Commands
    <2>5. pp_wpc' \notin {"outer", "buffer", "collect", "deliver"}
      BY <1>7, <1>b DEF PPControl, PPTypes, PP!SeekStopped
    <2> QED
      BY <2>1, <2>3, <2>4, <2>5 DEF PPOrder, PP!EndAfterAll
  <1>8. CASE PP!SeekRestarts
    <2>1. /\ pp_start' \in 0..pp_Length /\ pp_stop' \in 0..(pp_Length + 1)
          /\ pp_next' = PP!AlignDown(pp_start')
          /\ pp_ended' = "no" /\ pp_refused' = FALSE
      BY <1>8 DEF PP!SeekRestarts, PP!NewRange
    <2>a. pp_thread' \in PP!T!Threads /\ pp_seeks' \in 0..pp_Seeks
      BY <1>8, <1>b, PPThread, PullAssumption DEF PPTypes, PP!SeekRestarts, PP!Commands
    <2>2. pp_next' \in PPRange
      BY <2>1, PPAlign, PullAssumption DEF PPRange
    <2>3. PPTypes'
      BY <1>8, <2>1, <2>2, <2>a DEF PPTypes, PP!SeekRestarts, PP!Commands
    <2>4. PPControl' /\ PPReader'
      BY <1>8, <1>b, PPThread
         DEF PPControl, PPReader, PPTypes, PP!SeekRestarts, PP!Commands
    <2>5. pp_wpc' \notin {"outer", "buffer", "collect", "deliver"}
      BY <1>8, <1>b DEF PPControl, PPTypes, PP!SeekRestarts
    <2> QED
      BY <2>1, <2>3, <2>4, <2>5 DEF PPOrder, PP!EndAfterAll
  <1>9. CASE PP!GetRequest
    <2>1. UNCHANGED <<PP!control, pp_committed, pp_current, pp_second, pp_next, pp_ended,
                      pp_refused>>
      BY <1>9 DEF PP!GetRequest
    <2>a. pp_thread' \in PP!T!Threads
      BY <1>9, <1>b, PPThread DEF PP!GetRequest
    <2>b. pp_requests' \in Seq(PPRange) /\ pp_held' \in Nat
          /\ pp_held' + Len(pp_requests') <= pp_cBuffers
      BY <1>9, PullAssumption DEF PPTypes, PP!GetRequest
    <2>c. pp_wpc' \in {"none", "get", "exit", "flush", "process", pp_wpc}
      BY <1>9, <1>b DEF PPControl, PPTypes, PP!GetRequest
    <2>2. PPTypes'
      BY <1>9, <2>1, <2>a, <2>b, <2>c DEF PPTypes, PP!GetRequest
    <2>3. PPControl' /\ PPReader'
      BY <1>9, <1>b, <2>1, PPThread
         DEF PPControl, PPReader, PPTypes, PP!GetRequest, PP!Commands
    <2>4. PPOrder'
      <3>1. PP!StopAt' = PP!StopAt /\ PP!AlignStop' = PP!AlignStop
        BY <2>1, PPSame
      <3>2. UNCHANGED <<pp_wpc, pp_requests>> \/ pp_wpc' \notin {"outer", "buffer",
                        "collect", "deliver"}
        BY <1>9 DEF PP!GetRequest, PPControl, PPTypes, PP!T!Threads
      <3> QED
        BY <2>1, <3>1, <3>2 DEF PPOrder, PPChain, PP!EndAfterAll, PP!Till
    <2> QED
      BY <2>2, <2>3, <2>4
  <1>10. CASE PP!ThreadExit
    <2>1. UNCHANGED <<PP!control, pp_committed, pp_current, pp_second, pp_next, pp_ended,
                      pp_refused>>
      BY <1>10 DEF PP!ThreadExit
    <2>a. pp_thread' \in PP!T!Threads
      BY <1>10, <1>b, PPThread DEF PP!ThreadExit
    <2>b. pp_requests' \in Seq(PPRange) /\ pp_held' \in Nat
          /\ pp_held' + Len(pp_requests') <= pp_cBuffers
      BY <1>10, PullAssumption DEF PPTypes, PP!ThreadExit
    <2>c. pp_wpc' \in {"none", "get", "exit", "flush", "process", pp_wpc}
      BY <1>10, <1>b DEF PPControl, PPTypes, PP!ThreadExit
    <2>2. PPTypes'
      BY <1>10, <2>1, <2>a, <2>b, <2>c DEF PPTypes, PP!ThreadExit
    <2>3. PPControl' /\ PPReader'
      BY <1>10, <1>b, <2>1, PPThread
         DEF PPControl, PPReader, PPTypes, PP!ThreadExit, PP!Commands
    <2>4. PPOrder'
      <3>1. PP!StopAt' = PP!StopAt /\ PP!AlignStop' = PP!AlignStop
        BY <2>1, PPSame
      <3>2. UNCHANGED <<pp_wpc, pp_requests>> \/ pp_wpc' \notin {"outer", "buffer",
                        "collect", "deliver"}
        BY <1>10 DEF PP!ThreadExit, PPControl, PPTypes, PP!T!Threads
      <3> QED
        BY <2>1, <3>1, <3>2 DEF PPOrder, PPChain, PP!EndAfterAll, PP!Till
    <2> QED
      BY <2>2, <2>3, <2>4
  <1>11. CASE PP!FlushReader
    <2>1. UNCHANGED <<PP!control, pp_committed, pp_current, pp_second, pp_next, pp_ended,
                      pp_refused>>
      BY <1>11 DEF PP!FlushReader
    <2>a. pp_thread' \in PP!T!Threads
      BY <1>11, <1>b, PPThread DEF PP!FlushReader
    <2>b. pp_requests' \in Seq(PPRange) /\ pp_held' \in Nat
          /\ pp_held' + Len(pp_requests') <= pp_cBuffers
      BY <1>11, PullAssumption DEF PPTypes, PP!FlushReader
    <2>c. pp_wpc' \in {"none", "get", "exit", "flush", "process", pp_wpc}
      BY <1>11, <1>b DEF PPControl, PPTypes, PP!FlushReader
    <2>2. PPTypes'
      BY <1>11, <2>1, <2>a, <2>b, <2>c DEF PPTypes, PP!FlushReader
    <2>3. PPControl' /\ PPReader'
      BY <1>11, <1>b, <2>1, PPThread
         DEF PPControl, PPReader, PPTypes, PP!FlushReader, PP!Commands
    <2>4. PPOrder'
      <3>1. PP!StopAt' = PP!StopAt /\ PP!AlignStop' = PP!AlignStop
        BY <2>1, PPSame
      <3>2. UNCHANGED <<pp_wpc, pp_requests>> \/ pp_wpc' \notin {"outer", "buffer",
                        "collect", "deliver"}
        BY <1>11 DEF PP!FlushReader, PPControl, PPTypes, PP!T!Threads
      <3> QED
        BY <2>1, <3>1, <3>2 DEF PPOrder, PPChain, PP!EndAfterAll, PP!Till
    <2> QED
      BY <2>2, <2>3, <2>4
  <1>12. CASE PP!Process
    <2>a. PP!AlignDown(pp_start) \in PPRange
      <3>1. pp_start \in Nat /\ pp_start <= pp_Length
        BY PullAssumption DEF PPTypes
      <3> HIDE DEF PPInv
      <3> QED
        BY <3>1, PPAlign, PullAssumption DEF PPRange
    <2>1. UNCHANGED <<PP!control, pp_committed, pp_thread, pp_requests, pp_cancelled,
                      pp_held>>
      BY <1>12 DEF PP!Process
    <2>2. PPTypes'
      BY <1>12, <2>a, <2>1 DEF PPTypes, PP!Process, PP!Ends
    <2>3. PPControl' /\ PPReader'
      BY <1>12, <1>b, <2>1 DEF PPControl, PPReader, PPTypes, PP!Process, PP!Ends
    <2>4. PPOrder'
      BY <1>12, <2>1
         DEF PPOrder, PPChain, PPReader, PPTypes, PP!EndAfterAll, PP!StopAt, PP!Process,
             PP!Ends
    <2> QED
      BY <2>2, <2>3, <2>4
  <1>13. CASE PP!Outer
    <2>1. UNCHANGED <<PP!control, pp_committed, pp_thread, pp_requests, pp_cancelled,
                      pp_current, pp_held, pp_next, pp_refused>>
      BY <1>13 DEF PP!Outer
    <2>2. PPTypes'
      BY <1>13, <2>1 DEF PPTypes, PP!Outer, PP!Ends
    <2>3. PPControl' /\ PPReader'
      BY <1>13, <1>b, <2>1 DEF PPControl, PPReader, PPTypes, PP!Outer, PP!Ends
    <2>4. PP!StopAt' = PP!StopAt /\ PP!AlignStop' = PP!AlignStop
      BY <2>1, PPSame
    <2>5. PPChain /\ pp_wpc = "outer" /\ pp_requests = <<>>
      BY <1>13 DEF PPOrder, PPReader, PP!Outer
    <2>9. pp_current \in Int /\ PP!AlignStop \in Int
      BY <1>a DEF PPTypes, PPRange
    <2>6. CASE pp_current >= PP!AlignStop
      <3>1. pp_wpc' = "flush" /\ pp_ended' = "end"
        BY <1>13, <2>6, <2>9 DEF PP!Outer, PP!Ends
      <3>2. pp_next >= PP!StopAt \/ pp_refused
        BY <1>a, <2>5, <2>6 DEF PPChain, PPTypes, PPRange
      <3> QED
        BY <2>1, <2>2, <2>3, <2>4, <3>1, <3>2 DEF PPOrder, PP!EndAfterAll
    <2>7. CASE pp_current < PP!AlignStop /\ pp_thread.sent
      BY <1>13, <2>2, <2>3, <2>7, <1>a
         DEF PP!Outer, PP!Ends, PPOrder, PP!EndAfterAll, PPTypes, PPRange
    <2>8. CASE pp_current < PP!AlignStop /\ ~pp_thread.sent
      <3>1. pp_wpc' = "buffer" /\ pp_ended' = pp_ended
        BY <1>13, <2>8, <1>a DEF PP!Outer, PPTypes, PPRange
      <3>2. pp_current = pp_next /\ pp_ended = "no"
        BY <2>5, <2>8, <1>a DEF PPChain, PPTypes, PPRange
      <3>3. PPOrder'
        BY <2>1, <2>5, <3>1, <3>2 DEF PPOrder, PPChain, PP!EndAfterAll
      <3> QED
        BY <2>2, <2>3, <3>3
    <2> QED
      BY <2>6, <2>7, <2>8, <2>9
  <1>14. CASE PP!QueueSample
    <2>1. /\ UNCHANGED <<PP!control, pp_committed, pp_thread, pp_cancelled, pp_held,
                         pp_next, pp_refused>>
          /\ pp_wpc = "buffer" /\ ~pp_sync /\ pp_held + Len(pp_requests) < pp_cBuffers
          /\ pp_current' = PP!Till(pp_current)
      BY <1>14 DEF PP!QueueSample, PP!InUse
    <2>2. pp_current' \in PPRange /\ pp_current \in PPRange
      BY <1>a, <2>1 DEF PPTypes
    <2>3. PP!StopAt' = PP!StopAt /\ PP!AlignStop' = PP!AlignStop
      BY <2>1, PPSame
    <2>4. PPChain
      BY <2>1 DEF PPOrder
    <2>5. CASE pp_cancelled
      <3>1. pp_requests' = <<>> /\ pp_wpc' = "flush" /\ pp_ended' = "other"
            /\ pp_second' = pp_second
        BY <1>14, <2>5 DEF PP!QueueSample, PP!Ends
      <3>2. pp_requests' \in Seq(PPRange) /\ Len(pp_requests') = 0
        BY <3>1
      <3>3. PPTypes'
        BY <2>1, <2>2, <3>1, <3>2, PullAssumption DEF PPTypes
      <3> QED
        BY <1>b, <2>1, <3>1, <3>3 DEF PPControl, PPReader, PPOrder, PP!EndAfterAll
    <2>6. CASE ~pp_cancelled
      <3>1. /\ pp_requests' = Append(pp_requests, pp_current) /\ pp_ended' = pp_ended
            /\ pp_second' = TRUE
            /\ pp_wpc' \in {"collect", "buffer"}
        BY <1>14, <2>6 DEF PP!QueueSample
      <3>2. /\ pp_requests' \in Seq(PPRange) /\ Len(pp_requests') = Len(pp_requests) + 1
            /\ pp_requests'[Len(pp_requests')] = pp_current /\ pp_requests' # <<>>
            /\ \A i \in 1 .. Len(pp_requests) : pp_requests'[i] = pp_requests[i]
        BY <2>2, <3>1 DEF PPTypes
      <3>3. PPTypes'
        BY <2>1, <2>2, <3>1, <3>2, PullAssumption DEF PPTypes
      <3>4. PPControl' /\ PPReader'
        BY <1>b, <2>1, <3>1, <3>2 DEF PPControl, PPReader
      <3>5. PPChain'
        <4>1. pp_ended' = "no"
          BY <2>4, <3>1 DEF PPChain
        <4>2. pp_requests'[1] = pp_next
          BY <2>1, <2>4, <3>2 DEF PPChain, PPTypes
        <4>3. ASSUME NEW i \in 1 .. Len(pp_requests') - 1
              PROVE  pp_requests'[i + 1] = PP!Till(pp_requests[i])
          BY <2>1, <2>4, <3>2 DEF PPChain, PPTypes
        <4>4. \A i \in 1 .. Len(pp_requests') - 1 : pp_requests'[i] = pp_requests[i]
          BY <3>2 DEF PPTypes
        <4> QED
          BY <2>1, <2>3, <3>2, <4>1, <4>2, <4>3, <4>4 DEF PPChain, PP!Till
      <3> QED
        BY <2>1, <2>4, <3>1, <3>3, <3>4, <3>5 DEF PPOrder, PP!EndAfterAll, PPChain
    <2> QED
      BY <2>5, <2>6
  <1>15. CASE PP!ReadSync
    <2>1. /\ UNCHANGED <<PP!control, pp_committed, pp_thread, pp_cancelled, pp_second,
                         pp_held, pp_next, pp_refused>>
          /\ pp_wpc = "buffer" /\ pp_sync /\ pp_held + Len(pp_requests) < pp_cBuffers
      BY <1>15 DEF PP!ReadSync, PP!InUse
    <2>2. PP!StopAt' = PP!StopAt /\ PP!AlignStop' = PP!AlignStop /\ PPChain
          /\ pp_requests = <<>>
      BY <2>1, PPSame DEF PPOrder, PPReader
    <2>3. CASE pp_requests' = <<pp_current>> /\ pp_current' = PP!Till(pp_current)
               /\ pp_wpc' = "deliver" /\ pp_ended' = pp_ended
      <3>1. pp_requests' \in Seq(PPRange) /\ Len(pp_requests') = 1
            /\ pp_requests'[1] = pp_current /\ pp_requests' # <<>>
        BY <2>3 DEF PPTypes
      <3>2. pp_current' \in PPRange /\ pp_held + Len(pp_requests') <= pp_cBuffers
        BY <1>a, <2>1, <2>2, <2>3, <3>1, PullAssumption DEF PPTypes
      <3>3. PPTypes'
        BY <2>1, <2>3, <3>1, <3>2 DEF PPTypes
      <3>4. PPControl' /\ PPReader'
        BY <1>b, <2>1, <2>3, <3>1 DEF PPControl, PPReader
      <3>5. PPChain'
        BY <2>1, <2>2, <2>3, <3>1 DEF PPChain, PP!Till
      <3> QED
        BY <2>1, <2>2, <2>3, <3>3, <3>4, <3>5 DEF PPOrder, PP!EndAfterAll, PPChain
    <2>4. CASE pp_wpc' = "flush" /\ pp_ended' = "other"
               /\ UNCHANGED <<pp_requests, pp_current>>
      <3>1. PPTypes'
        BY <2>1, <2>4 DEF PPTypes
      <3> QED
        BY <1>b, <2>1, <2>4, <3>1 DEF PPControl, PPReader, PPOrder, PP!EndAfterAll
    <2> QED
      BY <1>15, <2>3, <2>4 DEF PP!ReadSync, PP!Ends
  <1>16. CASE PP!Collect
    <2>1. /\ UNCHANGED <<PP!control, pp_committed, pp_thread, pp_cancelled, pp_current,
                         pp_second, pp_held, pp_next, pp_refused>>
          /\ pp_wpc = "collect"
      BY <1>16 DEF PP!Collect
    <2>2. PP!StopAt' = PP!StopAt /\ PP!AlignStop' = PP!AlignStop /\ PPChain
      BY <2>1, PPSame DEF PPOrder
    <2>3. CASE pp_requests' = <<>> /\ pp_wpc' = "flush" /\ pp_ended' = "other"
      <3>1. pp_requests' \in Seq(PPRange) /\ pp_held + Len(pp_requests') <= pp_cBuffers
        BY <2>3, PullAssumption DEF PPTypes
      <3>2. PPTypes'
        BY <2>1, <2>3, <3>1 DEF PPTypes
      <3> QED
        BY <1>b, <2>1, <2>3, <3>2 DEF PPControl, PPReader, PPOrder, PP!EndAfterAll
    <2>4. CASE pp_requests # <<>> /\ pp_wpc' = "deliver"
               /\ UNCHANGED <<pp_requests, pp_ended>>
      <3>1. PPTypes'
        BY <2>1, <2>4 DEF PPTypes
      <3>2. PPControl' /\ PPReader'
        BY <1>b, <2>1, <2>4 DEF PPControl, PPReader
      <3>3. PPChain'
        BY <2>1, <2>2, <2>4 DEF PPChain, PP!Till
      <3> QED
        BY <2>1, <2>2, <2>4, <3>1, <3>2, <3>3 DEF PPOrder, PP!EndAfterAll, PPChain
    <2> QED
      BY <1>16, <2>3, <2>4 DEF PP!Collect, PP!Ends
  <1>17. CASE PP!Deliver
    <2>1. /\ UNCHANGED <<PP!control, pp_committed, pp_thread, pp_cancelled, pp_current,
                         pp_second>>
          /\ pp_wpc = "deliver" /\ pp_requests # <<>> /\ pp_requests' = Tail(pp_requests)
          /\ Head(pp_requests) = pp_requests[1]
      BY <1>17 DEF PP!Deliver, PPReader, PPTypes
    <2>2. PP!StopAt' = PP!StopAt /\ PP!AlignStop' = PP!AlignStop /\ PPChain
      BY <2>1, PPSame DEF PPOrder
    <2>3. /\ pp_requests' \in Seq(PPRange) /\ Len(pp_requests') = Len(pp_requests) - 1
          /\ Len(pp_requests) \in Nat \ {0}
          /\ \A i \in 1 .. Len(pp_requests') : pp_requests'[i] = pp_requests[i + 1]
          /\ pp_requests[1] \in PPRange /\ PP!Till(pp_requests[1]) \in PPRange
      BY <1>a, <2>1 DEF PPTypes
    <2>4. pp_sync => pp_requests' = <<>>
      BY <2>1, <2>3 DEF PPReader, PPTypes
    <2>a. pp_held + Len(pp_requests') <= pp_cBuffers
      BY <2>3, PullAssumption DEF PPTypes
    <2>5. CASE pp_wpc' = "flush" /\ pp_ended' = "other" /\ pp_refused' = TRUE
               /\ UNCHANGED <<pp_held, pp_next>>
      <3>1. PPTypes'
        BY <2>1, <2>3, <2>5, <2>a DEF PPTypes
      <3> QED
        BY <1>b, <2>1, <2>4, <2>5, <3>1 DEF PPControl, PPReader, PPOrder, PP!EndAfterAll
    <2>6. CASE /\ pp_refused' = TRUE /\ ~pp_sync /\ pp_current >= PP!AlignStop
               /\ Len(pp_requests) = 1
               /\ PP!GoesOn /\ UNCHANGED <<pp_held, pp_next>>
      <3>1. pp_requests' = <<>>
        BY <2>3, <2>6
      <3>2. pp_wpc' = "outer" /\ pp_ended' = pp_ended
        BY <1>a, <2>1, <2>6, <3>1 DEF PP!GoesOn, PPTypes, PPRange
      <3>3. PPTypes'
        BY <2>1, <2>3, <2>6, <2>a, <3>2 DEF PPTypes
      <3>4. PPControl' /\ PPReader'
        BY <1>b, <2>1, <3>1, <3>2 DEF PPControl, PPReader
      <3>5. PPChain'
        <4>1. pp_ended' = "no" /\ Len(pp_requests') = 0
          BY <2>2, <3>1, <3>2 DEF PPChain
        <4>2. pp_refused' /\ pp_current' >= PP!AlignStop'
          BY <2>1, <2>2, <2>6
        <4> QED
          BY <3>1, <3>2, <4>1, <4>2 DEF PPChain
      <3> QED
        BY <2>2, <3>2, <3>3, <3>4, <3>5 DEF PPOrder, PP!EndAfterAll, PPChain
    <2>7. CASE /\ pp_held' \in {pp_held, pp_held + 1}
               /\ pp_next' = PP!Till(Head(pp_requests)) /\ PP!GoesOn
               /\ UNCHANGED pp_refused
      <3>1. /\ pp_ended' = pp_ended /\ pp_wpc' \in {"outer", "buffer", "collect"}
            /\ pp_wpc' = "outer" => pp_requests' = <<>>
        BY <2>1, <2>4, <2>7 DEF PP!GoesOn
      <3>2. pp_held' \in Nat /\ pp_held' + Len(pp_requests') <= pp_cBuffers
            /\ pp_next' \in PPRange
        BY <2>1, <2>3, <2>7, PullAssumption DEF PPTypes
      <3>3. PPTypes'
        BY <2>1, <2>3, <2>7, <3>1, <3>2 DEF PPTypes
      <3>4. PPControl' /\ PPReader'
        BY <1>b, <2>1, <2>4, <3>1 DEF PPControl, PPReader
      <3>5. PPChain'
        <4>1. pp_ended' = "no" /\ pp_next' = PP!Till(pp_requests[1])
          BY <2>1, <2>2, <2>7, <3>1 DEF PPChain
        <4>2. ASSUME NEW i \in 1 .. Len(pp_requests') - 1
              PROVE  pp_requests'[i + 1] = PP!Till(pp_requests[i + 1])
                     /\ pp_requests'[i] = pp_requests[i + 1]
          <5>1. i + 1 \in 1 .. Len(pp_requests) - 1 /\ i + 1 \in 1 .. Len(pp_requests')
                /\ i \in 1 .. Len(pp_requests')
            BY <2>3
          <5> QED
            BY <2>2, <2>3, <5>1 DEF PPChain
        <4>3. CASE pp_requests' = <<>>
          <5>1. Len(pp_requests) = 1
            BY <2>3, <4>3
          <5>2. pp_current' = pp_next' /\ Len(pp_requests') = 0
            BY <2>1, <2>2, <4>1, <4>3, <5>1 DEF PPChain
          <5> QED
            BY <4>1, <4>3, <5>2 DEF PPChain
        <4>4. CASE pp_requests' # <<>>
          <5>1. Len(pp_requests') \in Nat \ {0} /\ Len(pp_requests) >= 2
            BY <2>3, <4>4
          <5>2. pp_requests'[1] = pp_requests[2] /\ pp_requests[2] = PP!Till(pp_requests[1])
            BY <2>2, <2>3, <5>1 DEF PPChain
          <5>3. pp_requests'[Len(pp_requests')] = pp_requests[Len(pp_requests)]
            BY <2>3, <5>1
          <5>4. PP!Till(pp_requests[Len(pp_requests)]) = pp_current
            BY <2>1, <2>2 DEF PPChain
          <5> QED
            BY <2>1, <2>2, <4>1, <4>2, <4>4, <5>2, <5>3, <5>4 DEF PPChain, PP!Till
        <4> QED
          BY <4>3, <4>4
      <3> QED
        BY <2>2, <3>1, <3>3, <3>4, <3>5 DEF PPOrder, PP!EndAfterAll, PPChain
    <2> QED
      BY <1>17, <2>5, <2>6, <2>7 DEF PP!Deliver, PP!Ends
  <1>18. CASE PP!Release
    <2>1. UNCHANGED <<PP!control, pp_committed, pp_current, pp_second, pp_next, pp_ended,
                      pp_refused>>
      BY <1>18 DEF PP!Release
    <2>a. pp_thread' \in PP!T!Threads
      BY <1>18, <1>b, PPThread DEF PP!Release
    <2>b. pp_requests' \in Seq(PPRange) /\ pp_held' \in Nat
          /\ pp_held' + Len(pp_requests') <= pp_cBuffers
      BY <1>18, PullAssumption DEF PPTypes, PP!Release
    <2>c. pp_wpc' \in {"none", "get", "exit", "flush", "process", pp_wpc}
      BY <1>18, <1>b DEF PPControl, PPTypes, PP!Release
    <2>2. PPTypes'
      BY <1>18, <2>1, <2>a, <2>b, <2>c DEF PPTypes, PP!Release
    <2>3. PPControl' /\ PPReader'
      BY <1>18, <1>b, <2>1, PPThread
         DEF PPControl, PPReader, PPTypes, PP!Release, PP!Commands
    <2>4. PPOrder'
      <3>1. PP!StopAt' = PP!StopAt /\ PP!AlignStop' = PP!AlignStop
        BY <2>1, PPSame
      <3>2. UNCHANGED <<pp_wpc, pp_requests>> \/ pp_wpc' \notin {"outer", "buffer",
                        "collect", "deliver"}
        BY <1>18 DEF PP!Release, PPControl, PPTypes, PP!T!Threads
      <3> QED
        BY <2>1, <3>1, <3>2 DEF PPOrder, PPChain, PP!EndAfterAll, PP!Till
    <2> QED
      BY <2>2, <2>3, <2>4
  <1>19. CASE UNCHANGED PP!vars
    <2>1. UNCHANGED <<PP!control, pp_committed, pp_current, pp_second, pp_next, pp_ended,
                      pp_refused>>
      BY <1>19 DEF PP!vars
    <2>a. pp_thread' \in PP!T!Threads
      BY <1>19, <1>b, PPThread DEF PP!vars
    <2>b. pp_requests' \in Seq(PPRange) /\ pp_held' \in Nat
          /\ pp_held' + Len(pp_requests') <= pp_cBuffers
      BY <1>19, PullAssumption DEF PPTypes, PP!vars
    <2>c. pp_wpc' \in {"none", "get", "exit", "flush", "process", pp_wpc}
      BY <1>19, <1>b DEF PPControl, PPTypes, PP!vars
    <2>2. PPTypes'
      BY <1>19, <2>1, <2>a, <2>b, <2>c DEF PPTypes, PP!vars
    <2>3. PPControl' /\ PPReader'
      BY <1>19, <1>b, <2>1, PPThread
         DEF PPControl, PPReader, PPTypes, PP!vars, PP!Commands
    <2>4. PPOrder'
      <3>1. PP!StopAt' = PP!StopAt /\ PP!AlignStop' = PP!AlignStop
        BY <2>1, PPSame
      <3>2. UNCHANGED <<pp_wpc, pp_requests>> \/ pp_wpc' \notin {"outer", "buffer",
                        "collect", "deliver"}
        BY <1>19 DEF PP!vars, PPControl, PPTypes, PP!T!Threads
      <3> QED
        BY <2>1, <3>1, <3>2 DEF PPOrder, PPChain, PP!EndAfterAll, PP!Till
    <2> QED
      BY <2>2, <2>3, <2>4
  <1> QED
    BY <1>1, <1>2, <1>3, <1>4, <1>5, <1>6, <1>7, <1>8, <1>9, <1>10, <1>11, <1>12, <1>13,
       <1>14, <1>15, <1>16, <1>17, <1>18, <1>19 DEF PP!Next, PP!Goes, PP!Work

-----------------------------------------------------------------------------
(***************************************************************************)
(* Message thread: what has been put is what was handled and what is queued.*)
(***************************************************************************)

MTTypes ==
  /\ mt_m_ThreadQueue \in Seq(mt_Messages) /\ mt_put \in Seq(mt_Messages)
  /\ mt_handled \in Seq(mt_Messages)
  /\ mt_thread \in {"none", "get", "wait", "ended"}
  /\ mt_owner \in {"alive", "destructor", "gone"}
  /\ mt_owner = "gone" => mt_thread \in {"none", "ended"}

MTInv == MTTypes /\ MT!HandledInOrder

LEMMA MTStart == MT!Init => MTInv
  BY DEF MT!Init, MTInv, MTTypes, MT!HandledInOrder

LEMMA MTPrefix ==
  ASSUME NEW S, NEW s \in Seq(S), NEW t \in Seq(S)
  PROVE  s = SubSeq(s \o t, 1, Len(s)) /\ Len(s) <= Len(s \o t) /\ s \o t \in Seq(S)
  <1> DEFINE p == SubSeq(s \o t, 1, Len(s))
  <1>1. s \o t \in Seq(S) /\ Len(s \o t) = Len(s) + Len(t) /\ Len(s) \in Nat
        /\ Len(t) \in Nat
    OBVIOUS
  <1>2. \A i \in 1 .. Len(s) : (s \o t)[i] = s[i] /\ (s \o t)[i] \in S
    BY <1>1, ElementOfSeq
  <1>3. p \in Seq(S) /\ Len(p) = Len(s) /\ \A i \in 1 .. Len(s) : p[i] = s[i]
    BY <1>1, <1>2
  <1>4. p = s
    BY <1>3, SeqEqual
  <1> QED
    BY <1>1, <1>4

LEMMA MTMove ==
  ASSUME NEW S, NEW s \in Seq(S), NEW q \in Seq(S), q # << >>
  PROVE  /\ Append(s, Head(q)) \in Seq(S) /\ Tail(q) \in Seq(S)
         /\ Append(s, Head(q)) \o Tail(q) = s \o q
  <1> DEFINE u == Append(s, Head(q)) \o Tail(q)
             v == s \o q
  <1>1. Append(s, Head(q)) \in Seq(S) /\ Tail(q) \in Seq(S) /\ Len(q) \in Nat \ {0}
        /\ Len(s) \in Nat
    OBVIOUS
  <1>2. /\ Len(Append(s, Head(q))) = Len(s) + 1 /\ Len(Tail(q)) = Len(q) - 1
        /\ u \in Seq(S) /\ v \in Seq(S) /\ Len(v) = Len(s) + Len(q)
    BY <1>1
  <1>3. Len(u) = Len(s) + Len(q)
    BY <1>1, <1>2, ConcatProperties
  <1>4. ASSUME NEW i \in 1 .. Len(u) PROVE u[i] = v[i]
    <2>1. u[i] = IF i <= Len(s) + 1 THEN Append(s, Head(q))[i] ELSE Tail(q)[i - (Len(s) + 1)]
      BY <1>1, <1>2, <1>3, ConcatProperties
    <2>2. v[i] = IF i <= Len(s) THEN s[i] ELSE q[i - Len(s)]
      BY <1>1, <1>2, <1>3, ConcatProperties
    <2>3. CASE i <= Len(s)
      BY <1>1, <2>1, <2>2, <2>3
    <2>4. CASE i = Len(s) + 1
      BY <1>1, <2>1, <2>2, <2>4
    <2>5. CASE i > Len(s) + 1
      BY <1>1, <1>2, <1>3, <2>1, <2>2, <2>5
    <2> QED
      BY <1>1, <1>3, <2>3, <2>4, <2>5
  <1>5. u = v
    BY <1>2, <1>3, <1>4, SeqEqual
  <1> QED
    BY <1>1, <1>5

LEMMA MTAdd ==
  ASSUME NEW S, NEW s \in Seq(S), NEW q \in Seq(S), NEW m \in S
  PROVE  Append(q, m) \in Seq(S) /\ s \o Append(q, m) = Append(s \o q, m)
  OBVIOUS

LEMMA MTStep == MTInv /\ [MT!Next]_(MT!vars) => MTInv'
  <1> SUFFICES ASSUME MTInv, [MT!Next]_(MT!vars) PROVE MTInv'
    OBVIOUS
  <1> USE DEF MTInv, MT!queue
  <1>1. CASE MT!CreateThread \/ MT!GetNothing \/ MT!Wake \/ MT!Destroy
    <2>1. MTTypes'
      BY <1>1 DEF MTTypes, MT!CreateThread, MT!GetNothing, MT!Wake, MT!Destroy
    <2>2. UNCHANGED <<mt_put, mt_handled, mt_m_ThreadQueue>>
          /\ (mt_owner' # "gone" => mt_owner # "gone")
      BY <1>1 DEF MTTypes, MT!CreateThread, MT!GetNothing, MT!Wake, MT!Destroy
    <2> QED
      BY <2>1, <2>2 DEF MT!HandledInOrder
  <1>5. CASE MT!Destroyed
    BY <1>5 DEF MTTypes, MT!HandledInOrder, MT!Destroyed
  <1>2. CASE MT!GetThreadMsg
    <2>1. /\ mt_m_ThreadQueue # << >> /\ mt_owner # "gone"
          /\ mt_handled' = Append(mt_handled, Head(mt_m_ThreadQueue))
          /\ mt_m_ThreadQueue' = Tail(mt_m_ThreadQueue)
          /\ mt_thread' \in {"get", "ended"} /\ UNCHANGED <<mt_put, mt_owner>>
      BY <1>2 DEF MT!GetThreadMsg, MTTypes
    <2>2. mt_put = mt_handled' \o mt_m_ThreadQueue'
      <3>1. mt_put = mt_handled \o mt_m_ThreadQueue
        BY <2>1 DEF MT!HandledInOrder
      <3>2. Append(mt_handled, Head(mt_m_ThreadQueue)) \o Tail(mt_m_ThreadQueue) = mt_handled \o mt_m_ThreadQueue
        BY <2>1, MTMove DEF MTTypes
      <3> QED
        BY <2>1, <3>1, <3>2
    <2>3. mt_m_ThreadQueue' \in Seq(mt_Messages) /\ mt_handled' \in Seq(mt_Messages)
      BY <2>1, MTMove DEF MTTypes
    <2>4. mt_handled' = SubSeq(mt_handled' \o mt_m_ThreadQueue', 1, Len(mt_handled'))
      BY <2>3, MTPrefix
    <2>5. MT!HandledInOrder'
      BY <2>1, <2>2, <2>4 DEF MT!HandledInOrder
    <2> QED
      BY <2>1, <2>3, <2>5 DEF MTTypes
  <1>3. ASSUME NEW m \in mt_Messages, MT!PutThreadMsg(m) PROVE MTInv'
    <2>1. /\ mt_owner = "alive" /\ mt_put' = Append(mt_put, m)
          /\ mt_m_ThreadQueue' = Append(mt_m_ThreadQueue, m)
          /\ UNCHANGED <<mt_handled, mt_thread, mt_owner>>
      BY <1>3 DEF MT!PutThreadMsg
    <2>2. mt_m_ThreadQueue' \in Seq(mt_Messages) /\ mt_put' \in Seq(mt_Messages)
          /\ mt_handled \in Seq(mt_Messages)
      BY <2>1 DEF MTTypes
    <2>3. mt_put' = mt_handled \o mt_m_ThreadQueue'
      <3>1. mt_put = mt_handled \o mt_m_ThreadQueue
        BY <2>1 DEF MT!HandledInOrder
      <3>2. mt_handled \o Append(mt_m_ThreadQueue, m) = Append(mt_handled \o mt_m_ThreadQueue, m)
        BY MTAdd DEF MTTypes
      <3> QED
        BY <2>1, <3>1, <3>2
    <2>4. mt_handled = SubSeq(mt_handled \o mt_m_ThreadQueue', 1, Len(mt_handled))
      BY <2>2, MTPrefix
    <2>5. MT!HandledInOrder'
      BY <2>1, <2>3, <2>4 DEF MT!HandledInOrder
    <2> QED
      BY <2>1, <2>2, <2>5 DEF MTTypes
  <1>4. CASE UNCHANGED MT!vars
    BY <1>4 DEF MT!vars, MTTypes, MT!HandledInOrder
  <1> QED
    BY <1>1, <1>2, <1>3, <1>4, <1>5 DEF MT!Next

-----------------------------------------------------------------------------
(***************************************************************************)
(* Dynamic pin: m_dwNumOutstandingOutputPinUsers counts the streaming threads*)
(* that are using the pin.                                                 *)
(***************************************************************************)

LEMMA DPAssumption ==
  /\ IsFiniteSet(dp_Streams) /\ DP!Nobody \notin dp_Callers
  /\ DP!Cardinality(dp_Streams) = Cardinality(dp_Streams)
  <1>1. DP!Cardinality(dp_Streams) = Cardinality(dp_Streams)
    BY DEF DP!Cardinality, Cardinality
  <1> QED
    BY <1>1, PinAssumption DEF DP!Nobody

DPInUse == {s \in dp_Streams : dp_spc[s] = "in"}

DPInv ==
  /\ DP!TypeOK
  /\ DP!Valid
  /\ dp_users = Cardinality(DPInUse)
  /\ dp_block = "PENDING" => dp_notify = dp_caller

LEMMA DPCount ==
  ASSUME NEW f \in [dp_Streams -> {"out", "wait", "in"}], NEW s \in dp_Streams,
         NEW v \in {"out", "wait", "in"}
  PROVE  LET S == {x \in dp_Streams : f[x] = "in"}
             g == [f EXCEPT ![s] = v]
             R == {x \in dp_Streams : g[x] = "in"}
         IN  /\ Cardinality(S) \in 0 .. Cardinality(dp_Streams)
             /\ Cardinality(S) = 0 <=> S = {}
             /\ f[s] # "in" /\ v = "in" =>
                  Cardinality(R) = Cardinality(S) + 1
                  /\ Cardinality(R) <= Cardinality(dp_Streams)
             /\ f[s] = "in" /\ v # "in" => Cardinality(R) = Cardinality(S) - 1
             /\ f[s] # "in" /\ v # "in" => R = S
PROOF
  <1> DEFINE S == {x \in dp_Streams : f[x] = "in"}
             g == [f EXCEPT ![s] = v]
             R == {x \in dp_Streams : g[x] = "in"}
  <1>1. S \subseteq dp_Streams /\ R \subseteq dp_Streams
    OBVIOUS
  <1>2. IsFiniteSet(S) /\ IsFiniteSet(R)
    BY <1>1, DPAssumption, FS_Subset
  <1>3. Cardinality(S) \in Nat /\ Cardinality(R) \in Nat /\ Cardinality(dp_Streams) \in Nat
    BY <1>2, DPAssumption, FS_CardinalityType
  <1>4. Cardinality(S) <= Cardinality(dp_Streams)
        /\ Cardinality(R) <= Cardinality(dp_Streams)
    BY <1>1, DPAssumption, FS_Subset
  <1>5. Cardinality(S) = 0 <=> S = {}
    BY <1>2, FS_EmptySet
  <1>6. f[s] # "in" /\ v = "in" => R = S \cup {s} /\ s \notin S
    OBVIOUS
  <1>7. f[s] = "in" /\ v # "in" => R = S \ {s} /\ s \in S
    OBVIOUS
  <1>8. f[s] # "in" /\ v # "in" => R = S
    OBVIOUS
  <1>9. f[s] # "in" /\ v = "in" => Cardinality(R) = Cardinality(S) + 1
    BY <1>2, <1>6, FS_AddElement
  <1>10. f[s] = "in" /\ v # "in" => Cardinality(R) = Cardinality(S) - 1
    BY <1>2, <1>7, FS_RemoveElement
  <1> HIDE DEF S, R, g
  <1> QED
    BY <1>3, <1>4, <1>5, <1>8, <1>9, <1>10 DEF S, R, g

LEMMA DPStart == DP!Init => DPInv
  <1>1. ASSUME DP!Init PROVE DPInUse = {}
    BY <1>1 DEF DP!Init, DPInUse
  <1>2. Cardinality({}) = 0 /\ Cardinality(dp_Streams) \in Nat
    BY DPAssumption, FS_EmptySet, FS_CardinalityType
  <1> SUFFICES ASSUME DP!Init PROVE DPInv
    OBVIOUS
  <1>3. DP!TypeOK
    <2>1. dp_block \in {"NOT_BLOCKED"} /\ {dp_unblock, dp_stop} \subseteq BOOLEAN
      BY DEF DP!Init
    <2>2. dp_users \in 0 .. Cardinality(dp_Streams)
      BY <1>2 DEF DP!Init
    <2> QED
      BY <2>1, <2>2, DPAssumption DEF DP!Init, DP!TypeOK
  <1>4. DP!Valid
    BY DEF DP!Init, DP!Valid
  <1> QED
    BY <1>1, <1>2, <1>3, <1>4 DEF DP!Init, DPInv

LEMMA DPStep == DPInv /\ [DP!Next]_(DP!vars) => DPInv'
  <1> SUFFICES ASSUME DPInv, [DP!Next]_(DP!vars) PROVE DPInv'
    OBVIOUS
  <1> USE DPAssumption DEF DPInv, DP!TypeOK, DP!Valid, DP!blocking
  <1>1. ASSUME NEW c \in dp_Callers, DP!Block(c) PROVE DPInv'
    <2>1. dp_spc' = dp_spc /\ DPInUse' = DPInUse
      BY <1>1 DEF DP!Block, DPInUse
    <2>2. dp_users = 0 => DPInUse = {}
      <3>1. IsFiniteSet(DPInUse)
        BY FS_Subset DEF DPInUse
      <3> QED BY <3>1, FS_EmptySet
    <2>3. dp_users = 0 => \A s \in dp_Streams : dp_spc[s] # "in"
      BY <2>2 DEF DPInUse
    <2> QED
      BY <1>1, <2>1, <2>3 DEF DP!Block, DP!BlockOutputPin
  <1>2. ASSUME NEW c \in dp_Callers, DP!BlockReturns(c) \/ DP!Unblock(c) PROVE DPInv'
    <2>1. DPInUse' = DPInUse
      BY <1>2 DEF DP!BlockReturns, DP!Unblock, DPInUse
    <2>2. CASE DP!BlockReturns(c)
      BY <2>1, <2>2 DEF DP!BlockReturns
    <2>3. CASE DP!Unblock(c)
      <3>1. DP!TypeOK'
        <4>1. dp_event' \in [dp_Callers -> BOOLEAN]
          BY <2>3 DEF DP!Unblock
        <4> QED
          BY <2>3, <4>1 DEF DP!Unblock
      <3>2. DP!Valid'
        BY <2>3 DEF DP!Unblock
      <3> QED
        BY <2>1, <2>3, <3>1, <3>2 DEF DP!Unblock
    <2> QED
      BY <1>2, <2>2, <2>3
  <1>3. ASSUME NEW s \in dp_Streams, DP!StartUsing(s) \/ DP!WaitEnds(s) PROVE DPInv'
    <2>1. PICK v \in {"out", "wait", "in"} :
            /\ dp_spc' = [dp_spc EXCEPT ![s] = v]
            /\ IF v = "in" THEN dp_users' = dp_users + 1 /\ dp_block # "BLOCKED" ELSE dp_users' = dp_users
      BY <1>3 DEF DP!StartUsing, DP!WaitEnds
    <2>2. dp_spc[s] # "in" /\ UNCHANGED <<DP!blocking, dp_stop, dp_cpc, dp_event>>
      BY <1>3 DEF DP!StartUsing, DP!WaitEnds
    <2>3. dp_users' = Cardinality(DPInUse') /\ dp_users' \in 0 .. Cardinality(dp_Streams)
      <3>1. CASE v = "in"
        <4>1. dp_users' = dp_users + 1 /\ dp_spc' = [dp_spc EXCEPT ![s] = "in"]
          BY <2>1, <3>1
        <4>2. Cardinality(DPInUse') = Cardinality(DPInUse) + 1
              /\ Cardinality(DPInUse') <= Cardinality(dp_Streams)
          BY <2>2, <4>1, DPCount DEF DPInUse
        <4> QED
          BY <4>1, <4>2
      <3>2. CASE v # "in"
        <4>1. DPInUse' = DPInUse
          BY <2>1, <2>2, <3>2 DEF DPInUse
        <4> QED
          BY <2>1, <3>2, <4>1
      <3> QED
        BY <3>1, <3>2
    <2> QED
      BY <2>1, <2>2, <2>3
  <1>4. ASSUME NEW s \in dp_Streams, DP!StopUsing(s) PROVE DPInv'
    <2>1. /\ dp_spc[s] = "in" /\ dp_spc' = [dp_spc EXCEPT ![s] = "out"]
          /\ dp_users' = dp_users - 1 /\ UNCHANGED <<dp_stop, dp_cpc>>
      BY <1>4 DEF DP!StopUsing
    <2>2. dp_users' = Cardinality(DPInUse') /\ dp_users' \in 0 .. Cardinality(dp_Streams)
      <3>1. dp_users' = Cardinality(DPInUse') /\ dp_users \in 0 .. Cardinality(dp_Streams)
        BY <2>1, DPCount DEF DPInUse
      <3>2. IsFiniteSet(DPInUse')
        BY FS_Subset DEF DPInUse
      <3>3. dp_users' \in Nat /\ Cardinality(dp_Streams) \in Nat
        BY <3>1, <3>2, FS_CardinalityType
      <3> QED BY <2>1, <3>1, <3>3
    <2>3. dp_users' = 0 => \A x \in dp_Streams : dp_spc'[x] # "in"
      <3>1. IsFiniteSet(DPInUse')
        BY FS_Subset DEF DPInUse
      <3>2. dp_users' = 0 => DPInUse' = {}
        BY <2>2, <3>1, FS_EmptySet
      <3> QED BY <3>2 DEF DPInUse
    <2>4. dp_block # "BLOCKED"
      BY <2>1
    <2> QED
      BY <1>4, <2>1, <2>2, <2>3, <2>4 DEF DP!StopUsing, DP!BlockOutputPin
  <1>5. CASE DP!SetStopEvent
    <2>1. DPInUse' = DPInUse
      BY <1>5 DEF DP!SetStopEvent, DPInUse
    <2> QED
      BY <1>5, <2>1 DEF DP!SetStopEvent
  <1>6. CASE UNCHANGED DP!vars
    <2>1. DPInUse' = DPInUse
      BY <1>6 DEF DP!vars, DPInUse
    <2> QED
      BY <1>6, <2>1 DEF DP!vars
  <1> QED
    BY <1>1, <1>2, <1>3, <1>4, <1>5, <1>6 DEF DP!Next

-----------------------------------------------------------------------------
(***************************************************************************)
(* Transform filter: the streaming thread is inside the filter only while  *)
(* both pins are connected and the filter is not stopped.                  *)
(***************************************************************************)

TFTypes ==
  /\ tf_in \in BOOLEAN /\ tf_out \in BOOLEAN /\ tf_flushing \in BOOLEAN
  /\ tf_runTimeError \in BOOLEAN
  /\ tf_committed \in BOOLEAN /\ tf_eosDelivered \in BOOLEAN /\ tf_skipped \in BOOLEAN
  /\ tf_quality \in BOOLEAN /\ tf_downFlushing \in BOOLEAN
  /\ tf_state \in {"Stopped", "Paused", "Running"}
  /\ tf_down \in {"Stopped", "Paused", "Running"}
  /\ tf_cpc \in {"idle", "stop", "pause"}
  /\ tf_rpc \in {"out", "buffer", "transform", "deliver", "pass"}
  /\ tf_held \in 0..tf_cBuffers

TFInv ==
  /\ TFTypes
  /\ ~(tf_in /\ tf_out) => tf_rpc = "out"
  /\ tf_cpc = "stop" => tf_state # "Stopped"
  /\ tf_state = "Stopped" => tf_rpc = "out"

LEMMA TFQuiet == TFInv => TF!TypeOK /\ TF!QuietWhenStopped
  <1> SUFFICES ASSUME TFInv PROVE TF!TypeOK /\ TF!QuietWhenStopped
    OBVIOUS
  <1>1. /\ {tf_in, tf_out, tf_flushing, tf_runTimeError, tf_committed, tf_eosDelivered, tf_skipped, tf_quality,
            tf_downFlushing} \subseteq BOOLEAN
        /\ {tf_state, tf_down} \subseteq {"Stopped", "Paused", "Running"}
    BY DEF TFInv, TFTypes
  <1> QED
    BY <1>1 DEF TFInv, TFTypes, TF!TypeOK, TF!QuietWhenStopped

LEMMA TFStart == TF!Init => TFInv
  <1> SUFFICES ASSUME TF!Init PROVE TFInv
    OBVIOUS
  <1>1. tf_held \in 0..tf_cBuffers
    BY TransformAssumption DEF TF!Init
  <1>2. TFTypes
    BY <1>1 DEF TF!Init, TFTypes
  <1> QED
    BY <1>2 DEF TF!Init, TFInv

LEMMA TFStep == TFInv /\ [TF!Next]_(TF!vars) => TFInv'
  <1> SUFFICES ASSUME TFInv, [TF!Next]_(TF!vars) PROVE TFInv'
    OBVIOUS
  <1> USE TransformAssumption DEF TFInv, TF!pins, TF!streaming, TF!downstream
  <1>1. CASE TF!DownStop
    <2>1. TFTypes'
      <3>1. tf_held' \in 0..tf_cBuffers
        BY <1>1 DEF TF!DownStop, TFTypes
      <3>2. tf_committed' \in BOOLEAN
        BY <1>1 DEF TF!DownStop, TFTypes
      <3> QED
        BY <1>1, <3>1, <3>2 DEF TF!DownStop, TFTypes
    <2> QED
      BY <1>1, <2>1 DEF TF!DownStop, TFTypes
  <1>2. CASE TF!DownStart
    <2>1. TFTypes'
      BY <1>2 DEF TF!DownStart, TFTypes
    <2> QED
      BY <1>2, <2>1 DEF TF!DownStart, TFTypes
  <1>3. CASE TF!DownRelease
    <2>1. TFTypes'
      BY <1>3 DEF TF!DownRelease, TFTypes
    <2> QED
      BY <1>3, <2>1 DEF TF!DownRelease, TFTypes
  <1>4. CASE TF!StopUnconnected
    <2>1. TFTypes'
      BY <1>4 DEF TF!StopUnconnected, TFTypes
    <2> QED
      BY <1>4, <2>1 DEF TF!StopUnconnected, TFTypes
  <1>5. CASE TF!Stop
    <2>1. TFTypes'
      BY <1>5 DEF TF!Stop, TFTypes
    <2> QED
      BY <1>5, <2>1 DEF TF!Stop, TFTypes
  <1>6. CASE TF!PauseUnconnected
    <2>1. TFTypes'
      BY <1>6 DEF TF!PauseUnconnected, TFTypes
    <2> QED
      BY <1>6, <2>1 DEF TF!PauseUnconnected, TFTypes
  <1>7. CASE TF!Pause
    <2>1. TFTypes'
      BY <1>7 DEF TF!Pause, TFTypes
    <2> QED
      BY <1>7, <2>1 DEF TF!Pause, TFTypes
  <1>8. CASE TF!StopReceived
    <2>1. TFTypes'
      BY <1>8 DEF TF!StopReceived, TF!Stopped, TFTypes
    <2> QED
      BY <1>8, <2>1 DEF TF!StopReceived, TF!Stopped, TFTypes
  <1>9. CASE TF!PauseReceived
    <2>1. TFTypes'
      BY <1>9 DEF TF!PauseReceived, TFTypes
    <2> QED
      BY <1>9, <2>1 DEF TF!PauseReceived, TFTypes
  <1>10. CASE TF!Run
    <2>1. TFTypes'
      BY <1>10 DEF TF!Run, TFTypes
    <2> QED
      BY <1>10, <2>1 DEF TF!Run, TFTypes
  <1>11. CASE TF!BeginFlush
    <2>1. TFTypes'
      BY <1>11 DEF TF!BeginFlush, TFTypes
    <2> QED
      BY <1>11, <2>1 DEF TF!BeginFlush, TFTypes
  <1>12. CASE TF!EndFlush
    <2>1. TFTypes'
      BY <1>12 DEF TF!EndFlush, TFTypes
    <2> QED
      BY <1>12, <2>1 DEF TF!EndFlush, TFTypes
  <1>13. CASE TF!Receive
    <2>1. TFTypes'
      BY <1>13 DEF TF!Receive, TF!CheckStreaming, TFTypes
    <2> QED
      BY <1>13, <2>1 DEF TF!Receive, TF!CheckStreaming, TFTypes
  <1>14. CASE TF!ReceiveBadType
    <2>1. TFTypes'
      BY <1>14 DEF TF!ReceiveBadType, TFTypes
    <2> QED
      BY <1>14, <2>1 DEF TF!ReceiveBadType, TFTypes
  <1>15. CASE TF!GetBuffer
    <2>1. TFTypes'
      BY <1>15 DEF TF!GetBuffer, TFTypes
    <2> QED
      BY <1>15, <2>1 DEF TF!GetBuffer, TFTypes
  <1>16. CASE TF!TransformSample
    <2>1. TFTypes'
      <3>1. tf_skipped' \in BOOLEAN /\ tf_quality' \in BOOLEAN
        BY <1>16 DEF TF!TransformSample, TFTypes
      <3> QED
        BY <1>16, <3>1 DEF TF!TransformSample, TFTypes
    <2> QED
      BY <1>16, <2>1 DEF TF!TransformSample, TFTypes
  <1>17. CASE TF!Deliver
    <2>1. TFTypes'
      BY <1>17 DEF TF!Deliver, TFTypes
    <2> QED
      BY <1>17, <2>1 DEF TF!Deliver, TFTypes
  <1>18. CASE UNCHANGED TF!vars
    <2>1. TFTypes'
      BY <1>18 DEF TF!vars, TFTypes
    <2> QED
      BY <1>18, <2>1 DEF TF!vars, TFTypes
  <1> QED
    BY <1>1, <1>2, <1>3, <1>4, <1>5, <1>6, <1>7, <1>8, <1>9, <1>10, <1>11, <1>12, <1>13,
       <1>14, <1>15, <1>16, <1>17, <1>18 DEF TF!Next, TF!Goes, TF!Streaming

-----------------------------------------------------------------------------
(***************************************************************************)
(* Seeking: the position the renderer reports is not before the start of the*)
(* present segment, and the segment begins at m_rtStart once nobody seeks. *)
(***************************************************************************)

LEMMA SKAssumption == sk_Duration \in Nat /\ SK!Nobody \notin sk_Callers
  BY SeekingAssumption DEF SK!Nobody

SKTypes ==
  /\ sk_m_rtStart \in Nat /\ sk_m_rtStop \in Nat /\ sk_began \in Nat /\ sk_pos \in Nat
  /\ sk_m_StartMedia \in Nat /\ sk_llStop \in Nat
  /\ sk_caller \in [sk_Callers -> SUBSET {"start", "stop"}]
  /\ sk_flusher \in sk_Callers \cup {SK!Nobody}
  /\ sk_streaming \in BOOLEAN /\ sk_m_bReset \in BOOLEAN

SKInv ==
  /\ SKTypes
  /\ sk_streaming => sk_eos = "none" /\ sk_flusher = SK!Nobody
  /\ sk_flusher # SK!Nobody => sk_eos = "none" /\ "start" \in sk_caller[sk_flusher]
  /\ sk_began <= sk_pos
  /\ (\A c \in sk_Callers : "start" \notin sk_caller[c]) => sk_began = sk_m_rtStart
  /\ sk_flusher = SK!Nobody /\ sk_eos # "told" /\ ~sk_m_bReset => sk_began <= sk_m_StartMedia

LEMMA SKStart == SK!Init => SKInv
  BY SKAssumption DEF SK!Init, SKInv, SKTypes

LEMMA SKStep == SKInv /\ [SK!Next]_(SK!vars) => SKInv'
  <1> SUFFICES ASSUME SKInv, [SK!Next]_(SK!vars) PROVE SKInv'
    OBVIOUS
  <1> USE SKAssumption DEF SKInv, SK!source, SK!stream, SK!renderer
  <1>1. ASSUME NEW c \in sk_Callers, SK!SetPositions(c) PROVE SKInv'
    <2>1. PICK StartBits \in SK!Positioning \ {"incremental"}, StopBits \in SK!Positioning,
               current \in SK!Times, to \in SK!Times :
            /\ sk_m_rtStart' = CASE StartBits = "absolute" -> current
                                 [] StartBits = "relative" -> sk_m_rtStart + current
                                 [] OTHER -> sk_m_rtStart
            /\ sk_m_rtStop' = CASE StopBits = "absolute" -> to
                                [] StopBits = "incremental" -> sk_m_rtStart' + to
                                [] StopBits = "relative" -> sk_m_rtStop + to
                                [] OTHER -> sk_m_rtStop
            /\ sk_caller' = [sk_caller EXCEPT ![c] = {x \in {"start", "stop"} :
                               IF x = "start" THEN StartBits # "none" ELSE StopBits # "none"}]
      <3>1. PICK StartBits, StopBits \in SK!Positioning, current, to \in SK!Times :
              SK!SetPositions(c)!2!(StartBits, StopBits, current, to)
        BY <1>1 DEF SK!SetPositions
      <3> QED BY <3>1
    <2>2. sk_m_rtStart' \in Nat
      BY <2>1 DEF SK!Positioning, SK!Times, SKTypes
    <2>3. sk_m_rtStop' \in Nat
      BY <2>1, <2>2 DEF SK!Positioning, SK!Times, SKTypes
    <2>4. sk_caller' \in [sk_Callers -> SUBSET {"start", "stop"}]
      <3> DEFINE bits == {x \in {"start", "stop"} :
                            IF x = "start" THEN StartBits # "none" ELSE StopBits # "none"}
      <3>1. bits \in SUBSET {"start", "stop"} /\ sk_caller' = [sk_caller EXCEPT ![c] = bits]
        BY <2>1
      <3> HIDE DEF bits
      <3> QED
        BY <3>1 DEF SKTypes
    <2>5. "start" \notin sk_caller'[c] => sk_m_rtStart' = sk_m_rtStart
      BY <2>1 DEF SK!Positioning, SKTypes
    <2>6. sk_caller[c] = {} /\ \A d \in sk_Callers \ {c} : sk_caller'[d] = sk_caller[d]
      BY <1>1, <2>1 DEF SK!SetPositions, SKTypes
    <2>7. UNCHANGED <<SK!stream, SK!renderer, sk_flusher>>
      BY <1>1 DEF SK!SetPositions
    <2> QED
      BY <2>2, <2>3, <2>4, <2>5, <2>6, <2>7 DEF SKTypes
  <1>2. ASSUME NEW c \in sk_Callers, SK!ChangeStop(c) PROVE SKInv'
    <2>1. SKTypes'
      BY <1>2 DEF SK!ChangeStop, SKTypes
    <2> QED
      BY <1>2, <2>1 DEF SK!ChangeStop, SKTypes
  <1>3. ASSUME NEW c \in sk_Callers, SK!BeginFlush(c) PROVE SKInv'
    <2>1. SKTypes'
      BY <1>3 DEF SK!BeginFlush, SKTypes
    <2> QED
      BY <1>3, <2>1 DEF SK!BeginFlush, SKTypes
  <1>4. ASSUME NEW c \in sk_Callers, SK!EndFlush(c) PROVE SKInv'
    <2>1. SKTypes'
      BY <1>4 DEF SK!EndFlush, SKTypes
    <2> QED
      BY <1>4, <2>1 DEF SK!EndFlush, SKTypes
  <1>5. CASE SK!Receive
    <2>1. SKTypes'
      <3>1. sk_pos' \in Nat /\ sk_m_StartMedia' \in Nat
        BY <1>5 DEF SK!Receive, SKTypes
      <3> QED
        BY <1>5, <3>1 DEF SK!Receive, SKTypes
    <2> QED
      BY <1>5, <2>1 DEF SK!Receive, SKTypes
  <1>6. CASE SK!EndOfStream
    <2>1. SKTypes'
      BY <1>6 DEF SK!EndOfStream, SKTypes
    <2> QED
      BY <1>6, <2>1 DEF SK!EndOfStream, SKTypes
  <1>7. CASE SK!AskForStop
    <2>1. SKTypes'
      BY <1>7 DEF SK!AskForStop, SKTypes
    <2> QED
      BY <1>7, <2>1 DEF SK!AskForStop, SKTypes
  <1>8. CASE SK!EOS
    <2>1. SKTypes'
      BY <1>8 DEF SK!EOS, SKTypes
    <2> QED
      BY <1>8, <2>1 DEF SK!EOS, SKTypes
  <1>9. CASE UNCHANGED SK!vars
    <2>1. SKTypes'
      BY <1>9 DEF SK!vars, SKTypes
    <2> QED
      BY <1>9, <2>1 DEF SK!vars, SKTypes
  <1> QED
    BY <1>1, <1>2, <1>3, <1>4, <1>5, <1>6, <1>7, <1>8, <1>9 DEF SK!Next

LEMMA SKSettles == SKInv => SK!SeekSettles
  BY DEF SKInv, SK!SeekSettles, SK!GetCurrentPosition, SKTypes

-----------------------------------------------------------------------------
(***************************************************************************)
(* The mixer.                                                              *)
(***************************************************************************)

(* CopyWaveform has frames to push, of the sample it was given, exactly    *)
(* while it is in its loop.                                                *)
LeftShape == IF rpc = "copy" THEN left > 0 /\ tag \in Tags ELSE left = 0

(* The pop loop starts at the first position.                              *)
PosShape == mpc # "pop" => pos = 1

Inductive == TypeOK /\ LeftShape /\ PosShape

(* Frames that may still reach the queue before Mix looks at it again: the *)
(* rest of a sample being copied or one whole sample, one more for a       *)
(* request not yet seen and one for a request about to be raised.          *)
InReceive  == IF rpc \in {"idle", "take"} THEN MaxSample ELSE left
ForRequest == IF request /\ rpc # "take" THEN MaxSample ELSE 0
ForCheck   == IF mpc = "request" THEN MaxSample ELSE 0
Credit ==
  Len(queue) + InReceive + ForRequest + ForCheck <= Desired - 1 + 3 * MaxSample

USE DEF ReceivePCs, WaitPCs, MixPCs, recvVars, mixVars

----------------------------------------------------------------------------
LEMMA InitInductive == Init => Inductive
<1> USE DesiredAssumption, MaxSampleAssumption DEF Init
<1> SUFFICES ASSUME Init PROVE Inductive
  OBVIOUS
<1>1. queue \in Seq(Tags)
  OBVIOUS
<1>2. left \in 0..MaxSample /\ pos \in 1..(Desired + 1)
  OBVIOUS
<1>3. samples \in [1..Desired -> Tags \cup {NoData}]
  OBVIOUS
<1>4. LeftShape /\ PosShape
  BY DEF LeftShape, PosShape
<1> QED
  BY <1>1, <1>2, <1>3, <1>4 DEF Inductive, TypeOK

LEMMA StepInductive == Inductive /\ [Next]_vars => Inductive'
<1> USE DesiredAssumption, MaxSampleAssumption, TagsAssumption
<1> SUFFICES ASSUME Inductive, [Next]_vars PROVE Inductive'
  OBVIOUS
<1> USE DEF Inductive, TypeOK, LeftShape, PosShape
<1>1. CASE StartStreaming \/ StopStreaming
  BY <1>1 DEF StartStreaming, StopStreaming
<1>2. ASSUME NEW n \in 0..MaxSample, NEW rest \in BOOLEAN, NEW t \in Tags,
             Receive(n, rest, t)
      PROVE  Inductive'
  BY <1>2 DEF Receive, MixerLockFree
<1>3. CASE Push
  <2>1. left' \in 0..MaxSample /\ LeftShape'
    BY <1>3 DEF Push
  <2>2. queue' \in Seq(Tags)
    BY <1>3 DEF Push
  <2> QED
    BY <1>3, <2>1, <2>2 DEF Push
<1>4. CASE SignalReady \/ SeeRequest \/ TakeRequest
  BY <1>4 DEF SignalReady, SeeRequest, TakeRequest
<1>5. CASE ClearOne
  BY <1>5 DEF ClearOne, PopOne
<1>6. ASSUME NEW b \in Bits, SetBits(b) \/ CallMix(b) PROVE Inductive'
  BY <1>6 DEF SetBits, WriteBits, CallMix
<1>7. CASE CheckQueue \/ RequestSamples \/ EnterWait
  BY <1>7 DEF CheckQueue, RequestSamples, EnterWait
<1>8. CASE TestReady \/ TakeReady \/ TestWait
  BY <1>8 DEF TestReady, TakeReady, TestWait
<1>9. CASE Pop
  <2>1. pos' \in 1..(Desired + 1) /\ PosShape'
    BY <1>9 DEF Pop
  <2>2. queue' \in Seq(Tags)
    <3>1. queue # << >> => Tail(queue) \in Seq(Tags)
      OBVIOUS
    <3> QED
      BY <1>9, <3>1 DEF Pop
  <2>3. samples' \in [1..Desired -> Tags \cup {NoData}]
    <3>1. CASE queue = << >>
      BY <1>9, <3>1 DEF Pop
    <3>2. CASE queue # << >>
      <4>1. Head(queue) \in Tags
        BY <3>2
      <4> QED
        BY <1>9, <3>2, <4>1 DEF Pop
    <3> QED
      BY <3>1, <3>2
  <2> QED
    BY <1>9, <2>1, <2>2, <2>3 DEF Pop
<1>10. CASE ReturnMix
  BY <1>10 DEF ReturnMix
<1>11. CASE UNCHANGED vars
  BY <1>11 DEF vars
<1> QED
  BY <1>1, <1>2, <1>3, <1>4, <1>5, <1>6, <1>7, <1>8, <1>9, <1>10, <1>11
  DEF Next, Control, Streaming, ReceiveSteps, Pin, Sound, MixSteps

(* Type correctness, with the shape of the two loops that it rests on.     *)
THEOREM InductiveCorrect == Spec => []Inductive
BY InitInductive, StepInductive, PTL DEF Spec

(* Every variable keeps to its type.                                       *)
THEOREM TypeCorrect == Spec => []TypeOK
<1>1. Inductive => TypeOK
  BY DEF Inductive
<1> QED
  BY <1>1, InductiveCorrect, PTL
----------------------------------------------------------------------------
(* No mutual wait: whoever waits second has just raised the flag the other *)
(* waits for, and only the waiter lowers it.                               *)
THEOREM NoMutualWaitCorrect == Spec => []NoMutualWait
<1>1. Init => NoMutualWait
  BY DEF Init, NoMutualWait
<1>2. Inductive /\ NoMutualWait /\ [Next]_vars => NoMutualWait'
  <2> SUFFICES ASSUME Inductive, NoMutualWait, [Next]_vars
               PROVE  NoMutualWait'
    OBVIOUS
  <2> USE DEF NoMutualWait, Inductive, TypeOK
  <2>1. CASE Control \/ Pin \/ UNCHANGED vars
    BY <2>1 DEF Control, Pin, StartStreaming, StopStreaming, ClearOne, PopOne, SetBits,
                WriteBits,
                vars
  <2>2. CASE Streaming
    BY <2>2 DEF Streaming, ReceiveSteps, Receive, Push, SignalReady,
                SeeRequest, TakeRequest
  <2>3. CASE Sound
    BY <2>3 DEF Sound, MixSteps, CallMix, CheckQueue, RequestSamples,
                EnterWait, TestReady, TakeReady, TestWait, Pop, ReturnMix
  <2> QED
    BY <2>1, <2>2, <2>3 DEF Next
<1> QED
  BY <1>1, <1>2, InductiveCorrect, PTL DEF Spec

----------------------------------------------------------------------------
(* The queue stays within what the hand-shake grants.  Credit is the       *)
(* inductive form: each sample spends a grant, and only a Mix that is      *)
(* short of frames gives one.                                              *)
LEMMA CreditTypes ==
  ASSUME Inductive
  PROVE  /\ Len(queue) \in Nat
         /\ InReceive \in 0..MaxSample
         /\ ForRequest \in 0..MaxSample
         /\ ForCheck \in 0..MaxSample
BY MaxSampleAssumption
DEF Inductive, TypeOK, InReceive, ForRequest, ForCheck

LEMMA CreditStep == Inductive /\ Credit /\ [Next]_vars => Credit'
<1> USE DesiredAssumption, MaxSampleAssumption
<1> SUFFICES ASSUME Inductive, Credit, [Next]_vars PROVE Credit'
  OBVIOUS
<1>1. /\ Inductive'
      /\ Len(queue) \in Nat /\ InReceive \in 0..MaxSample
      /\ ForRequest \in 0..MaxSample /\ ForCheck \in 0..MaxSample
  BY StepInductive, CreditTypes
<1>2. /\ Len(queue') \in Nat /\ InReceive' \in 0..MaxSample
      /\ ForRequest' \in 0..MaxSample /\ ForCheck' \in 0..MaxSample
  <2>1. Len(queue') \in Nat
    BY <1>1 DEF Inductive, TypeOK
  <2>2. InReceive' \in 0..MaxSample
    BY <1>1 DEF Inductive, TypeOK, InReceive
  <2>3. ForRequest' \in 0..MaxSample /\ ForCheck' \in 0..MaxSample
    BY <1>1 DEF Inductive, TypeOK, ForRequest, ForCheck
  <2> QED
    BY <2>1, <2>2, <2>3
<1>3. SUFFICES
        \/ Len(queue') + InReceive' + ForRequest' + ForCheck'
             <= Len(queue) + InReceive + ForRequest + ForCheck
        \/ Len(queue') <= Desired - 1
  BY <1>1, <1>2 DEF Credit
<1> USE DEF Inductive, TypeOK, LeftShape
<1>4. CASE Control \/ Pin \/ UNCHANGED vars
  <2>1. rpc' = rpc /\ left' = left /\ request' = request /\ mpc' = mpc
    BY <1>4 DEF Control, Pin, StartStreaming, StopStreaming, ClearOne,
                PopOne, SetBits, WriteBits, vars
  <2>2. InReceive' = InReceive /\ ForRequest' = ForRequest /\ ForCheck' = ForCheck
    BY <2>1 DEF InReceive, ForRequest, ForCheck
  <2>3. Len(queue') <= Len(queue)
    BY <1>4 DEF Control, Pin, StartStreaming, StopStreaming, ClearOne,
                PopOne, SetBits, WriteBits, vars
  <2> QED
    BY <1>1, <1>2, <2>2, <2>3
<1>5. ASSUME NEW n \in 0..MaxSample, NEW rest \in BOOLEAN, NEW t \in Tags,
             Receive(n, rest, t)
      PROVE  Len(queue') + InReceive' + ForRequest' + ForCheck'
               <= Len(queue) + InReceive + ForRequest + ForCheck
  <2>1. InReceive = MaxSample
    BY <1>5 DEF Receive, MixerLockFree, InReceive
  <2>2. queue' = queue /\ ForRequest' = ForRequest /\ ForCheck' = ForCheck
    BY <1>5 DEF Receive, MixerLockFree, ForRequest, ForCheck
  <2> QED
    BY <1>1, <1>2, <2>1, <2>2
<1>6. CASE Push
  <2>1. Len(queue') = Len(queue) + 1
    BY <1>6 DEF Push
  <2>2. InReceive' = InReceive - 1
    BY <1>6 DEF Push, InReceive
  <2>3. ForRequest' = ForRequest /\ ForCheck' = ForCheck
    BY <1>6 DEF Push, ForRequest, ForCheck
  <2> QED
    BY <1>1, <1>2, <2>1, <2>2, <2>3
<1>7. CASE SignalReady
  <2>1. InReceive' = InReceive /\ ForRequest' = ForRequest /\ ForCheck' = ForCheck
    BY <1>7 DEF SignalReady, InReceive, ForRequest, ForCheck
  <2> QED
    BY <1>1, <1>2, <1>7, <2>1 DEF SignalReady
<1>8. CASE SeeRequest
  <2>1. InReceive = 0 /\ InReceive' = MaxSample
    BY <1>8 DEF SeeRequest, InReceive
  <2>2. ForRequest = MaxSample /\ ForRequest' = 0 /\ ForCheck' = ForCheck
    BY <1>8 DEF SeeRequest, ForRequest, ForCheck
  <2> QED
    BY <1>1, <1>2, <1>8, <2>1, <2>2 DEF SeeRequest
<1>9. CASE TakeRequest
  <2>1. InReceive' = InReceive /\ ForRequest' = ForRequest /\ ForCheck' = ForCheck
    BY <1>9 DEF TakeRequest, InReceive, ForRequest, ForCheck
  <2> QED
    BY <1>1, <1>2, <1>9, <2>1 DEF TakeRequest
<1>10. CASE CheckQueue
  <2>1. Len(queue) <= Desired - 1 \/ mpc' = "pop"
    BY <1>10 DEF CheckQueue
  <2>2. queue' = queue /\ InReceive' = InReceive /\ ForRequest' = ForRequest
    BY <1>10 DEF CheckQueue, InReceive, ForRequest
  <2>3. mpc' = "pop" => ForCheck' = 0
    BY DEF ForCheck
  <2> QED
    BY <1>1, <1>2, <2>1, <2>2, <2>3
<1>11. CASE RequestSamples
  <2>1. ForCheck = MaxSample /\ ForCheck' = 0
    BY <1>11 DEF RequestSamples, ForCheck
  <2>2. queue' = queue /\ InReceive' = InReceive
    BY <1>11 DEF RequestSamples, InReceive
  <2> QED
    BY <1>1, <1>2, <2>1, <2>2
<1>12. CASE EnterWait \/ TestReady \/ TakeReady \/ TestWait \/ Pop \/ ReturnMix
  <2>1. rpc' = rpc /\ left' = left /\ request' = request
        /\ mpc # "request" /\ mpc' # "request"
    BY <1>12 DEF EnterWait, TestReady, TakeReady, TestWait, Pop, ReturnMix
  <2>2. InReceive' = InReceive /\ ForRequest' = ForRequest /\ ForCheck' = ForCheck
    BY <2>1 DEF InReceive, ForRequest, ForCheck
  <2>3. Len(queue') <= Len(queue)
    BY <1>12 DEF EnterWait, TestReady, TakeReady, TestWait, Pop, ReturnMix
  <2> QED
    BY <1>1, <1>2, <2>2, <2>3
<1>13. ASSUME NEW b \in Bits, CallMix(b)
       PROVE  Len(queue') + InReceive' + ForRequest' + ForCheck'
                <= Len(queue) + InReceive + ForRequest + ForCheck
  <2>1. InReceive' = InReceive /\ ForRequest' = ForRequest /\ ForCheck' = ForCheck
    BY <1>13 DEF CallMix, InReceive, ForRequest, ForCheck
  <2> QED
    BY <1>1, <1>2, <1>13, <2>1 DEF CallMix
<1> QED
  BY <1>4, <1>5, <1>6, <1>7, <1>8, <1>9, <1>10, <1>11, <1>12, <1>13
  DEF Next, Streaming, ReceiveSteps, Sound, MixSteps

THEOREM QueueBoundCorrect == Spec => []QueueBound
<1> USE DesiredAssumption, MaxSampleAssumption
<1>1. Init => Credit
  BY DEF Init, Credit, InReceive, ForRequest, ForCheck
<1>2. Inductive /\ Credit => QueueBound
  BY CreditTypes DEF Credit, QueueBound
<1> QED
  BY <1>1, <1>2, CreditStep, InductiveCorrect, PTL DEF Spec

----------------------------------------------------------------------------
(* A Mix that neither gave up its wait nor raced with a clear finds a      *)
(* frame for each position: only the streaming thread grows the queue and  *)
(* nobody but Mix and clear shrinks it.                                    *)
THEOREM NoUnderfillCorrect == Spec => []NoUnderfill
<1> USE DesiredAssumption, MaxSampleAssumption
<1>1. Init => NoUnderfill
  BY DEF Init, NoUnderfill
<1>2. Inductive /\ NoUnderfill /\ [Next]_vars => NoUnderfill'
  <2> SUFFICES ASSUME Inductive, NoUnderfill, [Next]_vars
               PROVE  NoUnderfill'
    OBVIOUS
  <2> USE DEF NoUnderfill, Inductive, TypeOK, PosShape
  <2>1. CASE Control \/ UNCHANGED vars
    BY <2>1 DEF Control, StartStreaming, StopStreaming, vars
  <2>2. CASE Streaming
    BY <2>2 DEF Streaming, ReceiveSteps, Receive, Push, SignalReady,
                SeeRequest, TakeRequest
  <2>3. CASE Pin
    BY <2>3 DEF Pin, ClearOne, PopOne, SetBits, WriteBits
  <2>4. CASE Pop
    <3>1. queue # << >> => Len(Tail(queue)) = Len(queue) - 1
      OBVIOUS
    <3> QED
      BY <2>4, <3>1 DEF Pop
  <2>5. CASE CheckQueue
    BY <2>5 DEF CheckQueue
  <2>6. CASE EnterWait \/ TestWait
    BY <2>6 DEF EnterWait, TestWait
  <2>7. CASE RequestSamples \/ TestReady \/ TakeReady \/ ReturnMix
    BY <2>7 DEF RequestSamples, TestReady, TakeReady, ReturnMix
  <2>8. ASSUME NEW b \in Bits, CallMix(b) PROVE NoUnderfill'
    BY <2>8 DEF CallMix
  <2> QED
    BY <2>1, <2>2, <2>3, <2>4, <2>5, <2>6, <2>7, <2>8
    DEF Next, Sound, MixSteps
<1> QED
  BY <1>1, <1>2, InductiveCorrect, PTL DEF Spec

(* The queue keeps its types, its bound and what Mix has waited for.       *)
THEOREM QueueSoundCorrect == Spec => []QueueSound
BY TypeCorrect, NoUnderfillCorrect, QueueBoundCorrect, PTL DEF QueueSound

HIDE DEF ReceivePCs, WaitPCs, MixPCs, recvVars, mixVars

-----------------------------------------------------------------------------
(***************************************************************************)
(* The units together.                                                     *)
(***************************************************************************)

(* Every step of the composite is a step of this unit or leaves it alone.  *)

LEMMA SSMoves == [MCNext]_all => [SS!Next]_(SS!vars)
  <1>1. unit # "source" /\ Rest => UNCHANGED SS!vars
    BY DEF Rest, ssVars, SS!vars
  <1>2. UNCHANGED all => UNCHANGED SS!vars
    BY DEF all, ssVars, SS!vars
  <1>3. MCNext => SS!Next \/ (unit # "source" /\ Rest)
    BY DEF MCNext
  <1> QED
    BY <1>1, <1>2, <1>3

LEMMA PPMoves == [MCNext]_all => [PP!Next]_(PP!vars)
  <1>1. unit # "pull" /\ Rest => UNCHANGED PP!vars
    BY DEF Rest, ppVars, PP!vars, PP!control, PP!reader
  <1>2. UNCHANGED all => UNCHANGED PP!vars
    BY DEF all, ppVars, PP!vars, PP!control, PP!reader
  <1>3. MCNext => PP!Next \/ (unit # "pull" /\ Rest)
    BY DEF MCNext
  <1> QED
    BY <1>1, <1>2, <1>3

LEMMA MTMoves == [MCNext]_all => [MT!Next]_(MT!vars)
  <1>1. unit # "messages" /\ Rest => UNCHANGED MT!vars
    BY DEF Rest, mtVars, MT!vars, MT!queue
  <1>2. UNCHANGED all => UNCHANGED MT!vars
    BY DEF all, mtVars, MT!vars, MT!queue
  <1>3. MCNext => MT!Next \/ (unit # "messages" /\ Rest)
    BY DEF MCNext
  <1> QED
    BY <1>1, <1>2, <1>3

LEMMA DPMoves == [MCNext]_all => [DP!Next]_(DP!vars)
  <1>1. unit # "pin" /\ Rest => UNCHANGED DP!vars
    BY DEF Rest, dpVars, DP!vars, DP!blocking
  <1>2. UNCHANGED all => UNCHANGED DP!vars
    BY DEF all, dpVars, DP!vars, DP!blocking
  <1>3. MCNext => DP!Next \/ (unit # "pin" /\ Rest)
    BY DEF MCNext
  <1> QED
    BY <1>1, <1>2, <1>3

LEMMA TFMoves == [MCNext]_all => [TF!Next]_(TF!vars)
  <1>1. unit # "transform" /\ Rest => UNCHANGED TF!vars
    BY DEF Rest, tfVars, TF!vars, TF!pins, TF!streaming, TF!downstream
  <1>2. UNCHANGED all => UNCHANGED TF!vars
    BY DEF all, tfVars, TF!vars, TF!pins, TF!streaming, TF!downstream
  <1>3. MCNext => TF!Next \/ (unit # "transform" /\ Rest)
    BY DEF MCNext
  <1> QED
    BY <1>1, <1>2, <1>3

LEMMA SKMoves == [MCNext]_all => [SK!Next]_(SK!vars)
  <1>1. unit # "seeking" /\ Rest => UNCHANGED SK!vars
    BY DEF Rest, skVars, SK!vars, SK!source, SK!stream, SK!renderer
  <1>2. UNCHANGED all => UNCHANGED SK!vars
    BY DEF all, skVars, SK!vars, SK!source, SK!stream, SK!renderer
  <1>3. MCNext => SK!Next \/ (unit # "seeking" /\ Rest)
    BY DEF MCNext
  <1> QED
    BY <1>1, <1>2, <1>3

(* Dynamic pin: what AssertValid asserts holds whenever the lock is free,   *)
(* whatever blocks, unblocks and streaming threads interleave: nobody is    *)
(* using a blocked pin, and the counts are the threads'.                    *)
THEOREM BlockValidCorrect == MCSpec => []BlockValid
  <1>1. MCInit => DPInv
    BY DPStart DEF MCInit
  <1>2. DPInv /\ [MCNext]_all => DPInv'
    BY DPMoves, DPStep
  <1>3. DPInv => BlockValid
    BY DEF DPInv, BlockValid
  <1> QED
    BY <1>1, <1>2, <1>3, PTL DEF MCSpec

(* Of two seeks at once the one that sets its times last wins, and after a  *)
(* flush no position of before it is reported (CSourceSeeking,              *)
(* COpenALFilter's pass-through).                                           *)
THEOREM SeekSettlesCorrect == MCSpec => []SeekSettles
  <1>1. MCInit => SKInv
    BY SKStart DEF MCInit
  <1>2. SKInv /\ [MCNext]_all => SKInv'
    BY SKMoves, SKStep
  <1>3. SKInv => SeekSettles
    BY SKSettles DEF SeekSettles
  <1> QED
    BY <1>1, <1>2, <1>3, PTL DEF MCSpec

(* What is pulled through the reader's requests comes out in order, each    *)
(* sample once and the end after the last; the messages of a thread are     *)
(* handled in the order they were put.                                      *)
THEOREM HandedOverInOrderCorrect == MCSpec => []HandedOverInOrder
  <1>1. MCInit => PPInv /\ MTInv
    BY PPStart, MTStart DEF MCInit
  <1>2. PPInv /\ MTInv /\ [MCNext]_all => PPInv' /\ MTInv'
    BY PPMoves, PPStep, MTMoves, MTStep
  <1>3. PPInv /\ MTInv => HandedOverInOrder
    BY PPSafe DEF MTInv, HandedOverInOrder
  <1> QED
    BY <1>1, <1>2, <1>3, PTL DEF MCSpec

(* Stop leaves no worker that might still deliver, no request unanswered    *)
(* and nothing committed: source, transform filter and pulling pin.         *)
THEOREM StoppedIsQuietCorrect == MCSpec => []StoppedIsQuiet
  <1>1. MCInit => SSInv /\ TFInv /\ PPInv
    BY SSStart, TFStart, PPStart DEF MCInit
  <1>2. SSInv /\ TFInv /\ PPInv /\ [MCNext]_all => SSInv' /\ TFInv' /\ PPInv'
    BY SSMoves, SSStep, TFMoves, TFStep, PPMoves, PPStep
  <1>3. SSInv /\ TFInv /\ PPInv => StoppedIsQuiet
    BY SSSafe, TFQuiet, PPSafe DEF StoppedIsQuiet
  <1> QED
    BY <1>1, <1>2, <1>3, PTL DEF MCSpec
=============================================================================
