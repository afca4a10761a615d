------------------------ MODULE LearningLedgerProofs ------------------------
(***************************************************************************)
(* What becomes of each notification, for any number of calls, workers and *)
(* stops: which ones a running engine may lose, what still runs after a    *)
(* stop, and that the engine implements ObservationLedger.                 *)
(***************************************************************************)
EXTENDS LearningEngineProofs

USE EngineAssumption DEF AllStoppers

\* Once a stop's wait is over (or about to be) only late calls have a live
\* goroutine, and none of them measures: the map was emptied before they looked.
StopDrains ==
    /\ \A s \in AllStoppers :
          /\ stop[s] = "new" => wait[s] = "none"
          /\ stop[s] = "returned" => wait[s] = "done"
          /\ wait[s] \in {"woken", "done"} =>
                LiveWorkers \subseteq late /\ \A c \in Calls : worker[c] # "feed"
    /\ stopped => \A c \in Calls : call[c] = "registered" => c \in late
    /\ crashed => late # {}

LInv == IInv /\ LostOnlyByCollision /\ StopDrains
-----------------------------------------------------------------------------
(* Loss.                                                                   *)

\* A call with an ID is an accepted one, and conversely.
LEMMA AcceptedHasId ==
    ASSUME IInv
    PROVE  \A c \in Calls : Accepted(c) => id[c] \in TaskIds
  BY DEF IInv, TypeInv, Progress, Accepted

\* A notification leaves the map by being taken or by being replaced, and the
\* one that replaces it has its ID.
LEMMA LossStep ==
    ASSUME IInv, LostOnlyByCollision, [Next]_vars
    PROVE  LostOnlyByCollision'
  <1> SUFFICES ASSUME ~stopped', NEW c \in Calls, Accepted(c)', observed'[c] = 0,
                      pendingTasks'[id'[c]] # c, \A w \in Calls : held'[w] # c
               PROVE  Collides(c)'
    BY DEF LostOnlyByCollision
  <1>0. \A d \in Calls : Accepted(d) => id[d] \in TaskIds
    BY AcceptedHasId
  <1> USE DEF IInv, TypeInv
  <1>1. CASE UNCHANGED <<id, pendingTasks, held, observed, stopped>>
            /\ \A d \in Calls : Accepted(d)' = Accepted(d)
    BY <1>1 DEF LostOnlyByCollision, Collides
  <1>2. ASSUME NEW d \in Calls, NEW task \in Tasks, NotifyRegister(d, task)
        PROVE  Collides(c)'
    <2> DEFINE i == NewTaskId(task)
    <2>1. i \in TaskIds /\ i # NoId /\ id[d] = NoId
      BY <1>2, NewTaskIdType DEF EngineAssumption, TaskIds, NotifyRegister, MoveCall, Progress
    <2>2. /\ id' = [id EXCEPT ![d] = i] /\ pendingTasks' = [pendingTasks EXCEPT ![i] = d]
          /\ held' = held /\ observed' = observed /\ ~stopped
      BY <1>2 DEF NotifyRegister, Open
    <2> HIDE DEF i
    <2>3. c # d
      BY <2>1, <2>2
    <2>4. Accepted(c) /\ id'[c] = id[c] /\ id[c] \in TaskIds
      <3>1. call'[c] = call[c] /\ id'[c] = id[c]
        BY <1>2, <2>2, <2>3 DEF NotifyRegister, MoveCall
      <3>2. QED
        BY <1>0, <3>1 DEF Accepted
    <2>5. CASE id[c] = i
      BY <2>1, <2>2, <2>3, <2>5 DEF Collides
    <2>6. CASE id[c] # i
      <3>1. Collides(c)
        BY <2>2, <2>4, <2>6 DEF LostOnlyByCollision
      <3>2. PICK e \in Calls \ {c} : id[e] = id[c]
        BY <3>1 DEF Collides
      <3>3. e # d
        BY <2>1, <2>4, <3>2 DEF EngineAssumption, TaskIds
      <3>4. QED
        BY <2>2, <2>4, <3>2, <3>3 DEF Collides
    <2>7. QED
      BY <2>5, <2>6
  <1>3. ASSUME NEW w \in Calls, ObserveTake(w)
        PROVE  Collides(c)'
    <2>1. id[w] \in TaskIds /\ held[w] = NoCall
      BY <1>3 DEF ObserveTake, MoveWorker, Progress
    <2>2. /\ held' = [held EXCEPT ![w] = pendingTasks[id[w]]]
          /\ pendingTasks' = [pendingTasks EXCEPT ![id[w]] = NoCall]
          /\ id' = id /\ call' = call /\ observed' = observed /\ stopped' = stopped
      BY <1>3 DEF ObserveTake, TasksWithout, callVars, stopFlags
    <2>3. Accepted(c) /\ id[c] \in TaskIds
      BY <1>0, <2>2 DEF Accepted
    <2>4. pendingTasks[id[c]] # c
      BY <2>1, <2>2, <2>3
    <2>5. \A v \in Calls : held[v] # c
      BY <2>1, <2>2 DEF EngineAssumption
    <2>6. Collides(c)
      BY <2>2, <2>3, <2>4, <2>5 DEF LostOnlyByCollision
    <2>7. QED
      BY <2>2, <2>6 DEF Collides
  <1>4. ASSUME NEW w \in Calls, ObserveFeed(w)
        PROVE  Collides(c)'
    <2>1. held[w] \in Calls
      BY <1>4 DEF ObserveFeed, MoveWorker, Progress
    <2>2. /\ held' = [held EXCEPT ![w] = NoCall]
          /\ observed' = [observed EXCEPT ![held[w]] = @ + 1]
          /\ id' = id /\ call' = call /\ pendingTasks' = pendingTasks /\ stopped' = stopped
      BY <1>4 DEF ObserveFeed, callVars, stopFlags
    <2>3. held[w] # c /\ observed[c] = 0
      BY <2>1, <2>2
    <2>4. \A v \in Calls : held[v] # c
      BY <2>2, <2>3
    <2>5. Collides(c)
      BY <2>2, <2>3, <2>4 DEF LostOnlyByCollision, Accepted
    <2>6. QED
      BY <2>2, <2>5 DEF Collides
  <1>5. ASSUME NEW s \in AllStoppers, StopMark(s)
        PROVE  Collides(c)'
    BY <1>5 DEF StopMark
  <1>6. ASSUME NEW d \in Calls, NotifyRefused(d) \/ NotifySpawn(d)
        PROVE  Collides(c)'
    <2>1. /\ UNCHANGED <<id, pendingTasks, held, observed, stopped>>
          /\ \A e \in Calls : Accepted(e)' = Accepted(e)
      BY <1>6 DEF NotifyRefused, NotifySpawn, MoveCall, Accepted, taskVars, stopFlags
    <2>2. QED
      BY <1>1, <2>1
  <1>7. CASE UNCHANGED <<callVars, taskVars, stopped>>
    BY <1>1, <1>7 DEF Accepted, callVars, taskVars
  <1>8. QED
    BY <1>2, <1>3, <1>4, <1>5, <1>6, <1>7
       DEF Next, vars, Tick, Finished, CallStep, WorkerStep, WorkerAcquire, WorkerCancelled,
           WorkerDelayElapsed, ObserveMissing, WorkerRelease, WorkerExit, StopStep, StopAgain,
           StopCancel, WaitBegin, WaitEnd, StopReturn, StopTimeout, stopFlags
-----------------------------------------------------------------------------
(* What outlives a stop.                                                   *)

\* A wait ends, or is woken, when the WaitGroup counts nobody.
LEMMA NobodyCounted ==
    ASSUME Accounting, wg = 0
    PROVE  LiveWorkers = {} /\ \A c \in Calls : worker[c] # "feed"
  <1>1. IsFiniteSet(LiveWorkers)
    BY FS_Subset DEF LiveWorkers, EngineAssumption
  <1>2. LiveWorkers = {}
    BY <1>1, FS_EmptySet DEF Accounting
  <1>3. QED
    BY <1>2 DEF LiveWorkers, Alive, Holding

LEMMA DrainStep ==
    ASSUME IInv, IInv', StopDrains, [Next]_vars
    PROVE  StopDrains'
  <1> USE DEF IInv, TypeInv
  <1>1. CASE UNCHANGED <<stop, wait, call, worker, stopped, late, crashed>>
    BY <1>1 DEF StopDrains, LiveWorkers
  \* A goroutine that is started after the stop is a late call's.
  <1>2. ASSUME NEW c \in Calls, NotifySpawn(c)
        PROVE  StopDrains'
    <2>1. /\ call[c] = "registered" /\ call' = [call EXCEPT ![c] = "returned"]
          /\ worker' = [worker EXCEPT ![c] = "acquire"]
          /\ UNCHANGED <<stop, wait, stopped, late, crashed>>
      BY <1>2 DEF NotifySpawn, MoveCall, stopFlags, waitVars
    <2>2. LiveWorkers' \subseteq LiveWorkers \cup {c}
      BY <2>1 DEF LiveWorkers
    <2>3. ASSUME NEW s \in AllStoppers, wait[s] \in {"woken", "done"}
          PROVE  c \in late
      <3>1. stop[s] # "new"
        BY <2>3 DEF StopDrains
      <3>2. QED
        BY <2>1, <3>1 DEF StopDrops, StopDrains
    <2>4. ASSUME NEW s \in AllStoppers, wait[s] \in {"woken", "done"}
          PROVE  LiveWorkers' \subseteq late /\ \A d \in Calls : worker'[d] # "feed"
      BY <2>1, <2>2, <2>3, <2>4 DEF StopDrains
    <2>5. \A d \in Calls : call'[d] = "registered" => call[d] = "registered"
      BY <2>1
    <2>6. QED
      BY <2>1, <2>4, <2>5 DEF StopDrains
  <1>3. ASSUME NEW c \in Calls, NotifyRefused(c) \/ \E task \in Tasks : NotifyRegister(c, task)
        PROVE  StopDrains'
    BY <1>3 DEF NotifyRefused, NotifyRegister, MoveCall, Open, StopDrains, LiveWorkers, stopFlags,
                waitVars
  \* A worker that is alive goes on; after a stop it finds the map empty.
  <1>4. ASSUME NEW c \in Calls, WorkerStep(c), ~WorkerExit(c)
        PROVE  StopDrains'
    <2>1. /\ UNCHANGED <<stop, wait, stopped, late, crashed, call>>
          /\ \E place : worker' = [worker EXCEPT ![c] = place] /\ (place = "feed" => ObserveTake(c))
          /\ worker[c] \in Alive
      BY <1>4 DEF WorkerStep, WorkerAcquire, WorkerCancelled, WorkerDelayElapsed, ObserveTake,
                  ObserveMissing, ObserveFeed, WorkerRelease, MoveWorker, DeferredWithSlot,
                  DeferredWithoutSlot, stopFlags, callVars, waitVars, Alive, Holding
    <2>2. LiveWorkers' \subseteq LiveWorkers
      BY <2>1 DEF LiveWorkers
    <2>3. ObserveTake(c) => ~stopped
      BY DEF ObserveTake, MoveWorker, StopDrops, Progress
    <2>4. ASSUME NEW s \in AllStoppers, wait[s] \in {"woken", "done"}
          PROVE  LiveWorkers' \subseteq late /\ \A d \in Calls : worker'[d] # "feed"
      <3>1. stopped
        BY <2>4 DEF StopDrains, StopDrops
      <3>2. QED
        BY <2>1, <2>2, <2>3, <2>4, <3>1 DEF StopDrains
    <2>5. QED
      BY <2>1, <2>4 DEF StopDrains
  <1>5. ASSUME NEW c \in Calls, WorkerExit(c)
        PROVE  StopDrains'
    <2>1. /\ UNCHANGED <<stop, stopped, late, crashed, call>>
          /\ worker[c] = "exit" /\ worker' = [worker EXCEPT ![c] = "done"] /\ wg' = wg - 1
          /\ wait' = [s \in AllStoppers |->
                        IF wg = 1 /\ wait[s] = "blocked" THEN "woken" ELSE wait[s]]
      BY <1>5 DEF WorkerExit, MoveWorker, stopFlags, callVars
    <2>2. LiveWorkers' \subseteq LiveWorkers /\ \A d \in Calls : worker'[d] = "feed" => worker[d] = "feed"
      BY <2>1 DEF LiveWorkers, Alive, Holding
    <2>3. wg' = 0 => LiveWorkers' = {} /\ \A d \in Calls : worker'[d] # "feed"
      <3>1. IsFiniteSet(LiveWorkers')
        BY FS_Subset DEF LiveWorkers, EngineAssumption
      <3>2. wg' = Cardinality(LiveWorkers')
        BY DEF Accounting
      <3>3. wg' = 0 => LiveWorkers' = {}
        BY <3>1, <3>2, FS_EmptySet
      <3>4. QED
        BY <3>3 DEF LiveWorkers, Alive, Holding
    <2>4. ASSUME NEW s \in AllStoppers, wait'[s] \in {"woken", "done"}
          PROVE  LiveWorkers' \subseteq late /\ \A d \in Calls : worker'[d] # "feed"
      <3>1. CASE wait[s] \in {"woken", "done"}
        BY <2>2, <3>1 DEF StopDrains
      <3>2. CASE wait[s] \notin {"woken", "done"}
        BY <2>1, <2>3, <2>4, <3>2
      <3>3. QED
        BY <3>1, <3>2
    <2>5. QED
      BY <2>1, <2>4 DEF StopDrains
  <1>6. ASSUME NEW s \in AllStoppers, StopMark(s)
        PROVE  StopDrains'
    BY <1>6 DEF StopMark, MoveStop, StopDrains, StopDrops, callVars, LiveWorkers
  <1>7. ASSUME NEW s \in AllStoppers, StopAgain(s) \/ StopCancel(s) \/ StopReturn(s) \/ StopTimeout(s)
        PROVE  StopDrains'
    BY <1>7 DEF StopAgain, StopCancel, StopReturn, StopTimeout, MoveStop, StopDrains, LiveWorkers,
                stopFlags, callVars
  <1>8. ASSUME NEW s \in AllStoppers, WaitBegin(s) \/ WaitEnd(s)
        PROVE  StopDrains'
    <2>1. /\ UNCHANGED <<stop, stopped, late, call, worker>>
          /\ \E w : wait' = [wait EXCEPT ![s] = w] /\ (w \in {"woken", "done"} => wg = 0)
          /\ stop[s] \notin {"new", "returned"} \/ wait[s] = "woken"
          /\ crashed' => wait[s] = "woken" /\ wg # 0
      BY <1>8 DEF WaitBegin, WaitEnd, WaitOutcome, stopFlags, callVars
    <2>2. wg = 0 => LiveWorkers = {} /\ \A c \in Calls : worker[c] # "feed"
      BY NobodyCounted
    <2>3. wg # 0 => LiveWorkers # {}
      BY FS_EmptySet DEF Accounting
    <2>4. QED
      BY <2>1, <2>2, <2>3 DEF StopDrains, LiveWorkers
  <1>9. QED
    BY <1>1, <1>2, <1>3, <1>4, <1>5, <1>6, <1>7, <1>8
       DEF Next, vars, Tick, Finished, CallStep, StopStep, stopFlags, callVars, waitVars
-----------------------------------------------------------------------------
\* The initial state satisfies the invariant.
LEMMA InitLInv == Init => LInv
  <1> SUFFICES ASSUME Init PROVE LInv
    OBVIOUS
  <1>1. LostOnlyByCollision
    BY DEF Init, LostOnlyByCollision, Accepted
  <1>2. StopDrains
    BY DEF Init, StopDrains
  <1>3. QED
    BY <1>1, <1>2, InitIInv DEF LInv

\* The invariant holds in every reachable state.
LEMMA LedgerInvariance == Spec => []LInv
  <1>1. LInv /\ IInv' /\ [Next]_vars => LInv'
    BY LossStep, DrainStep DEF LInv
  <1>2. QED
    BY Invariance, InitLInv, <1>1, PTL DEF Spec

\* While the engine runs, a notification is lost only to one with the same task
\* ID, for any number of calls and workers (engine.go, NotifyTaskStart and
\* observe).
THEOREM LossIsCollision == Spec => []LostOnlyByCollision
  <1>1. LInv => LostOnlyByCollision
    BY DEF LInv
  <1>2. QED
    BY LedgerInvariance, <1>1, PTL

\* A goroutine that outlives a stop's wait, and a WaitGroup panic, come from a
\* handler that was between e.mu.Unlock and wg.Add when Stop took the mutex.
THEOREM StopOutlivedByLateCalls == Spec => []OnlyLateCallsOutliveStop
  <1>1. LInv => OnlyLateCallsOutliveStop
    BY DEF LInv, StopDrains, OnlyLateCallsOutliveStop
  <1>2. QED
    BY LedgerInvariance, <1>1, PTL

\* Only a worker that holds a pendingTask feeds the model, and none does once a
\* stop has returned (engine.go, Stop and observe).
THEOREM StopFreezesModel == Spec => FrozenAfterStop
  <1> DEFINE Frozen == (\E s \in AllStoppers : stop[s] = "returned") => UNCHANGED observed
  <1>1. LInv /\ [Next]_vars => Frozen
    <2> SUFFICES ASSUME LInv, [Next]_vars, NEW s \in AllStoppers, stop[s] = "returned"
                 PROVE  observed' = observed
      OBVIOUS
    <2>1. \A c \in Calls : ~ObserveFeed(c)
      BY DEF LInv, StopDrains, ObserveFeed, MoveWorker
    <2>2. QED
      BY <2>1 DEF Next, vars, taskVars, Tick, Finished, CallStep, NotifyRefused, NotifyRegister,
         NotifySpawn, WorkerStep, WorkerAcquire, WorkerCancelled, WorkerDelayElapsed, ObserveTake,
         ObserveMissing, WorkerRelease, WorkerExit, StopStep, StopAgain, StopMark, StopCancel,
         WaitBegin, WaitEnd, StopReturn, StopTimeout
  <1>2. LInv /\ [Next]_vars => [Frozen]_vars
    BY <1>1
  <1>3. Spec => [][Frozen]_vars
    BY LedgerInvariance, <1>2, PTL DEF Spec
  <1>4. QED
    BY <1>3 DEF FrozenAfterStop
-----------------------------------------------------------------------------
(* The ledger.                                                             *)

\* The fate of one notification, out of the function that the mapping defines.
FateOf(c) ==
    IF \E w \in Calls : held[w] = c THEN "measuring"
    ELSE IF observed[c] > 0 THEN "observed"
    ELSE IF call[c] \in {"new", "refused"} THEN call[c]
    ELSE IF pendingTasks[id[c]] = c THEN "accepted"
    ELSE "lost"

LEMMA FateIsFunction ==
    /\ fate = [c \in Calls |-> FateOf(c)]
    /\ fate = [c \in Calls |-> fate[c]]
    /\ fate' = [c \in Calls |-> FateOf(c)']
    /\ fate' = [c \in Calls |-> fate'[c]]
  BY DEF fate, FateOf

\* Where a notification is says what has become of it: in a worker's hands, in
\* the map, or not accepted.
LEMMA FateFacts ==
    ASSUME IInv, NEW c \in Calls
    PROVE  /\ fate[c] = FateOf(c)
           /\ \A w \in Calls : held[w] = c => fate[c] = "measuring"
           /\ \A i \in TaskIds : pendingTasks[i] = c => fate[c] = "accepted" /\ id[c] = i
           /\ call[c] \in {"new", "refused"} => fate[c] = call[c]
  <1>1. fate[c] = FateOf(c)
    BY FateIsFunction
  <1>2. ASSUME NEW i \in TaskIds, pendingTasks[i] = c
        PROVE  fate[c] = "accepted" /\ id[c] = i
    <2>1. c # NoCall
      BY DEF EngineAssumption
    <2>2. id[c] = i /\ observed[c] = 0 /\ \A w \in Calls : held[w] # c
      BY <1>2, <2>1 DEF IInv, OnePlace
    <2>3. i # NoId
      BY DEF EngineAssumption, TaskIds
    <2>4. call[c] \notin {"new", "refused"}
      BY <2>2, <2>3 DEF IInv, Progress
    <2>5. QED
      BY <1>1, <1>2, <2>2, <2>4 DEF FateOf
  <1>3. ASSUME call[c] \in {"new", "refused"}
        PROVE  fate[c] = call[c]
    <2>1. id[c] = NoId
      BY <1>3 DEF IInv, Progress
    <2>2. observed[c] = 0 /\ \A w \in Calls : held[w] # c
      BY <2>1 DEF IInv, OnePlace, EngineAssumption
    <2>3. QED
      BY <1>1, <1>3, <2>2 DEF FateOf
  <1>4. QED
    BY <1>1, <1>2, <1>3 DEF FateOf

\* A step that leaves the places of the pendingTasks alone and accepts or
\* refuses nobody changes no fate.
LEMMA FateKept ==
    ASSUME UNCHANGED <<held, observed, pendingTasks, id>>,
           \A c \in Calls : call[c] \in {"new", "refused"} \/ call'[c] \in {"new", "refused"}
                               => call'[c] = call[c]
    PROVE  fate' = fate
  <1>1. \A c \in Calls : FateOf(c)' = FateOf(c)
    BY DEF FateOf
  <1>2. QED
    BY <1>1, FateIsFunction

\* The engine's phase moves with the flag and with the stops that have returned.
LEMMA PhaseKept ==
    ASSUME stopped' = stopped,
           \A s \in AllStoppers : stop'[s] = "returned" <=> stop[s] = "returned"
    PROVE  enginePhase' = enginePhase
  BY DEF enginePhase

\* The initial states of the engine are initial states of the ledger.
LEMMA LedgerInit == Init => Ledger!Init
  <1> SUFFICES ASSUME Init PROVE Ledger!Init
    OBVIOUS
  <1>1. \A c \in Calls : FateOf(c) = "new"
    BY DEF Init, FateOf, EngineAssumption
  <1>2. fate = [c \in Calls |-> "new"]
    BY <1>1, FateIsFunction
  <1>3. enginePhase = "open"
    BY DEF Init, enginePhase
  <1>4. QED
    BY <1>2, <1>3 DEF Ledger!Init

\* NotifyTaskStart accepts a notification, in the place of the one that is filed
\* under the same ID, or refuses it.
LEMMA RegisterAccepts ==
    ASSUME LInv, LInv', NEW c \in Calls, NEW task \in Tasks, NotifyRegister(c, task)
    PROVE  Ledger!Accept(c)
  <1> DEFINE i == NewTaskId(task)
             d == pendingTasks[i]
  <1>0. IInv /\ IInv'
    BY DEF LInv
  <1>1. i \in TaskIds
    BY <1>0, NewTaskIdType DEF IInv, TypeInv
  <1>2. /\ call[c] = "new" /\ call' = [call EXCEPT ![c] = "registered"] /\ ~stopped
        /\ id' = [id EXCEPT ![c] = i] /\ pendingTasks' = [pendingTasks EXCEPT ![i] = c]
        /\ UNCHANGED <<held, observed, stopped, stop>>
    BY DEF NotifyRegister, MoveCall, Open, stopFlags, waitVars
  <1> HIDE DEF i
  <1>3. enginePhase = "open" /\ enginePhase' = enginePhase
    BY <1>2, PhaseKept DEF enginePhase
  <1>4. fate[c] = "new"
    BY <1>0, <1>2, FateFacts
  <1>5. fate'[c] = "accepted"
    <2>1. pendingTasks'[i] = c
      BY <1>0, <1>1, <1>2 DEF IInv, TypeInv
    <2>2. \A w \in Calls : held'[w] # c
      BY <1>0, <1>1, <2>1 DEF IInv, OnePlace, EngineAssumption
    <2>3. observed'[c] = 0
      BY <1>0, <1>1, <2>1 DEF IInv, OnePlace, EngineAssumption
    <2>4. call'[c] = "registered" /\ id'[c] = i
      BY <1>0, <1>2 DEF IInv, TypeInv
    <2>5. FateOf(c)' = "accepted"
      BY <2>1, <2>2, <2>3, <2>4 DEF FateOf
    <2>6. QED
      BY <2>5, FateIsFunction
  <1>6. ASSUME NEW e \in Calls \ {c}
        PROVE  fate'[e] = IF e = d THEN "lost" ELSE fate[e]
    <2>1. fate'[e] = FateOf(e)' /\ fate[e] = FateOf(e)
      BY FateIsFunction
    <2>2. id'[e] = id[e] /\ call'[e] = call[e]
      BY <1>0, <1>2 DEF IInv, TypeInv
    <2>3. CASE e = d
      <3>1. id[e] = i /\ fate[e] = "accepted"
        BY <1>0, <1>1, <2>3, FateFacts
      <3>2. pendingTasks'[id'[e]] # e
        BY <1>0, <1>1, <1>2, <2>2, <3>1 DEF IInv, TypeInv
      <3>3. QED
        BY <1>2, <2>1, <2>2, <2>3, <3>1, <3>2 DEF FateOf
    <2>4. CASE e # d
      <3>1. call[e] \notin {"new", "refused"} => id[e] \in TaskIds
        BY <1>0 DEF IInv, TypeInv, Progress
      <3>2. id[e] \in TaskIds => (pendingTasks'[id[e]] = e <=> pendingTasks[id[e]] = e)
        BY <1>0, <1>1, <1>2, <2>4 DEF IInv, TypeInv
      <3>3. QED
        BY <1>2, <2>1, <2>2, <2>4, <3>1, <3>2 DEF FateOf
    <2>5. QED
      BY <2>3, <2>4
  <1>7. CASE d \in Calls
    <2>1. fate[d] = "accepted" /\ d # c
      BY <1>0, <1>1, <1>4, <1>7, FateFacts
    <2>2. fate' = [fate EXCEPT ![c] = "accepted", ![d] = "lost"]
      BY <1>5, <1>6, <1>7, <2>1, FateIsFunction
    <2>3. QED
      BY <1>3, <1>4, <1>7, <2>1, <2>2 DEF Ledger!Accept
  <1>8. CASE d \notin Calls
    <2>1. \A e \in Calls \ {c} : fate'[e] = fate[e]
      BY <1>6, <1>8
    <2>2. fate' = [fate EXCEPT ![c] = "accepted"]
      BY <1>5, <2>1, FateIsFunction
    <2>3. QED
      BY <1>3, <1>4, <2>2 DEF Ledger!Accept
  <1>9. QED
    BY <1>7, <1>8

LEMMA RefusedIsRefuse ==
    ASSUME LInv, NEW c \in Calls, NotifyRefused(c)
    PROVE  Ledger!Refuse(c)
  <1>1. /\ call[c] = "new" /\ call' = [call EXCEPT ![c] = "refused"] /\ stopped
        /\ UNCHANGED <<id, pendingTasks, held, observed, stopped, stop>>
    BY DEF NotifyRefused, MoveCall, stopFlags, taskVars, waitVars
  <1>2. enginePhase # "open" /\ enginePhase' = enginePhase
    BY <1>1, PhaseKept DEF enginePhase
  <1>3. fate[c] = "new"
    BY <1>1, FateFacts DEF LInv
  <1>4. \A e \in Calls : FateOf(e)' = IF e = c THEN "refused" ELSE FateOf(e)
    <2>1. observed[c] = 0 /\ \A w \in Calls : held[w] # c
      BY <1>1 DEF LInv, IInv, Progress, OnePlace, EngineAssumption
    <2>2. call'[c] = "refused" /\ \A e \in Calls \ {c} : call'[e] = call[e]
      BY <1>1 DEF LInv, IInv, TypeInv
    <2>3. QED
      BY <1>1, <2>1, <2>2 DEF FateOf
  <1>5. fate' = [fate EXCEPT ![c] = "refused"]
    BY <1>4, FateIsFunction
  <1>6. QED
    BY <1>2, <1>3, <1>5 DEF Ledger!Refuse

\* A worker that finds an entry under its ID begins to measure it: the map of a
\* stopped engine is empty, so the ledger is open.
LEMMA TakeMeasures ==
    ASSUME LInv, NEW w \in Calls, ObserveTake(w), NEW c \in Calls, pendingTasks[id[w]] = c
    PROVE  Ledger!Measure(c)
  <1>1. /\ worker[w] = "observe" /\ c # NoCall
        /\ held' = [held EXCEPT ![w] = c] /\ pendingTasks' = [pendingTasks EXCEPT ![id[w]] = NoCall]
        /\ UNCHANGED <<id, call, observed, stopped, stop>>
    BY DEF ObserveTake, MoveWorker, TasksWithout, callVars, stopFlags, waitVars
  <1>2. id[w] \in TaskIds /\ held[w] = NoCall
    BY <1>1 DEF LInv, IInv, TypeInv, Progress
  <1>3. ~stopped
    BY <1>1, <1>2 DEF LInv, IInv, StopDrops
  <1>4. enginePhase = "open" /\ enginePhase' = enginePhase
    BY <1>1, <1>3, PhaseKept DEF enginePhase
  <1>5. fate[c] = "accepted" /\ id[c] = id[w]
    BY <1>2, FateFacts DEF LInv
  <1>6. held'[w] = c /\ \A v \in Calls \ {w} : held'[v] = held[v]
    BY <1>1 DEF LInv, IInv, TypeInv
  <1>7. \A e \in Calls : FateOf(e)' = IF e = c THEN "measuring" ELSE FateOf(e)
    <2>1. FateOf(c)' = "measuring"
      BY <1>6 DEF FateOf
    <2>2. ASSUME NEW e \in Calls \ {c}
          PROVE  FateOf(e)' = FateOf(e)
      <3>1. (\E v \in Calls : held'[v] = e) <=> (\E v \in Calls : held[v] = e)
        BY <1>2, <1>6 DEF EngineAssumption
      <3>2. call[e] \notin {"new", "refused"} => id[e] \in TaskIds
        BY DEF LInv, IInv, TypeInv, Progress
      <3>3. id[e] \in TaskIds => (pendingTasks'[id[e]] = e <=> pendingTasks[id[e]] = e)
        BY <1>1, <1>2 DEF LInv, IInv, TypeInv, EngineAssumption
      <3>4. QED
        BY <1>1, <3>1, <3>2, <3>3 DEF FateOf
    <2>3. QED
      BY <2>1, <2>2
  <1>8. fate' = [fate EXCEPT ![c] = "measuring"]
    BY <1>7, FateIsFunction
  <1>9. QED
    BY <1>4, <1>5, <1>8 DEF Ledger!Measure

\* Nobody measures once a stop has returned, so what is fed to the model is
\* observed before the ledger is sealed.
LEMMA FeedObserves ==
    ASSUME LInv, NEW w \in Calls, ObserveFeed(w), NEW c \in Calls, held[w] = c
    PROVE  Ledger!Observe(c)
  <1>1. /\ worker[w] = "feed"
        /\ held' = [held EXCEPT ![w] = NoCall] /\ observed' = [observed EXCEPT ![c] = @ + 1]
        /\ UNCHANGED <<id, call, pendingTasks, stopped, stop>>
    BY DEF ObserveFeed, MoveWorker, callVars, stopFlags, waitVars
  <1>2. c # NoCall
    BY DEF EngineAssumption
  <1>3. observed[c] = 0 /\ \A v \in Calls \ {w} : held[v] # c
    BY <1>2 DEF LInv, IInv, OnePlace
  <1>4. enginePhase # "sealed" /\ enginePhase' = enginePhase
    <2>1. \A s \in AllStoppers : stop[s] # "returned"
      BY <1>1 DEF LInv, StopDrains
    <2>2. QED
      BY <1>1, <2>1, PhaseKept DEF enginePhase
  <1>5. fate[c] = "measuring"
    BY <1>2, FateFacts DEF LInv
  <1>6. \A e \in Calls : FateOf(e)' = IF e = c THEN "observed" ELSE FateOf(e)
    <2>1. FateOf(c)' = "observed"
      <3>1. observed'[c] = 1
        BY <1>1, <1>2, <1>3 DEF LInv, IInv, TypeInv
      <3>2. \A v \in Calls : held'[v] # c
        BY <1>1, <1>2, <1>3 DEF LInv, IInv, TypeInv
      <3>3. QED
        BY <3>1, <3>2 DEF FateOf
    <2>2. ASSUME NEW e \in Calls \ {c}
          PROVE  FateOf(e)' = FateOf(e)
      <3>1. (\E v \in Calls : held'[v] = e) <=> (\E v \in Calls : held[v] = e)
        BY <1>1 DEF LInv, IInv, TypeInv, EngineAssumption
      <3>2. observed'[e] = observed[e]
        BY <1>1 DEF LInv, IInv, TypeInv
      <3>3. QED
        BY <1>1, <3>1, <3>2 DEF FateOf
    <2>3. QED
      BY <2>1, <2>2
  <1>7. fate' = [fate EXCEPT ![c] = "observed"]
    BY <1>6, FateIsFunction
  <1>8. QED
    BY <1>4, <1>5, <1>7 DEF Ledger!Observe

\* Stop, under the mutex, drops what is filed and nothing else.
LEMMA MarkCloses ==
    ASSUME LInv, NEW s \in AllStoppers, StopMark(s)
    PROVE  Ledger!Close
  <1>1. /\ ~stopped /\ stopped' = TRUE /\ stop' = [stop EXCEPT ![s] = "marked"]
        /\ pendingTasks' = [i \in TaskIds |-> NoCall]
        /\ UNCHANGED <<id, call, held, observed>>
    BY DEF StopMark, MoveStop, TasksDropped, callVars
  <1>2. enginePhase = "open" /\ enginePhase' = "closed"
    <2>1. \A r \in AllStoppers : stop[r] = "new"
      BY <1>1 DEF LInv, IInv, StopDrops
    <2>2. \A r \in AllStoppers : stop'[r] # "returned"
      BY <1>1, <2>1 DEF LInv, IInv, TypeInv
    <2>3. QED
      BY <1>1, <2>2 DEF enginePhase
  <1>3. \A c \in Calls : FateOf(c)' = IF fate[c] = "accepted" THEN "lost" ELSE fate[c]
    <2> TAKE c \in Calls
    <2>1. fate[c] = FateOf(c)
      BY FateIsFunction
    <2>2. call[c] \notin {"new", "refused"} => id[c] \in TaskIds
      BY DEF LInv, IInv, TypeInv, Progress
    <2>3. id[c] \in TaskIds => pendingTasks'[id[c]] # c
      BY <1>1 DEF EngineAssumption
    <2>4. QED
      BY <1>1, <2>1, <2>2, <2>3 DEF FateOf
  <1>4. fate' = [c \in Calls |-> IF fate[c] = "accepted" THEN "lost" ELSE fate[c]]
    BY <1>3, FateIsFunction
  <1>5. QED
    BY <1>2, <1>4 DEF Ledger!Close

\* The first stop that returns seals the ledger: nothing is being measured.
LEMMA ReturnSeals ==
    ASSUME LInv, NEW s \in AllStoppers, StopReturn(s)
    PROVE  [Ledger!Next]_(Ledger!ledgerVars)
  <1>1. /\ stop[s] = "waiting" /\ wait[s] = "done" /\ stop' = [stop EXCEPT ![s] = "returned"]
        /\ UNCHANGED <<id, call, pendingTasks, held, observed, stopped>>
    BY DEF StopReturn, MoveStop, callVars, taskVars, stopFlags
  <1>2. stopped /\ enginePhase' = "sealed" /\ enginePhase \in {"closed", "sealed"}
    BY <1>1 DEF LInv, IInv, TypeInv, StopDrops, enginePhase
  <1>3. fate' = fate
    BY <1>1, FateKept
  <1>4. \A c \in Calls : fate[c] # "measuring"
    <2> TAKE c \in Calls
    <2>1. \A w \in Calls : held[w] = NoCall
      BY <1>1 DEF LInv, IInv, StopDrains, Progress
    <2>2. FateOf(c) # "measuring"
      BY <2>1 DEF FateOf, EngineAssumption
    <2>3. QED
      BY <2>2, FateIsFunction
  <1>5. CASE enginePhase = "closed"
    <2>1. Ledger!Seal
      BY <1>2, <1>3, <1>4, <1>5 DEF Ledger!Seal
    <2>2. QED
      BY <2>1 DEF Ledger!Next
  <1>6. CASE enginePhase = "sealed"
    BY <1>2, <1>3, <1>6 DEF Ledger!ledgerVars
  <1>7. QED
    BY <1>2, <1>5, <1>6

\* Every step of the engine is a step of the ledger, or none.
LEMMA LedgerStep ==
    ASSUME LInv, LInv', [Next]_vars
    PROVE  [Ledger!Next]_(Ledger!ledgerVars)
  <1>1. ASSUME NEW c \in Calls, NEW task \in Tasks, NotifyRegister(c, task)
        PROVE  Ledger!Next
    BY <1>1, RegisterAccepts DEF Ledger!Next
  <1>2. ASSUME NEW c \in Calls, NotifyRefused(c)
        PROVE  Ledger!Next
    BY <1>2, RefusedIsRefuse DEF Ledger!Next
  <1>3. ASSUME NEW w \in Calls, ObserveTake(w) \/ ObserveFeed(w)
        PROVE  Ledger!Next
    <2>1. CASE ObserveTake(w)
      <3>1. pendingTasks[id[w]] \in Calls
        BY <2>1 DEF ObserveTake, MoveWorker, LInv, IInv, TypeInv, Progress
      <3>2. QED
        BY <2>1, <3>1, TakeMeasures DEF Ledger!Next
    <2>2. CASE ObserveFeed(w)
      <3>1. held[w] \in Calls
        BY <2>2 DEF ObserveFeed, MoveWorker, LInv, IInv, TypeInv, Progress
      <3>2. QED
        BY <2>2, <3>1, FeedObserves DEF Ledger!Next
    <2>3. QED
      BY <1>3, <2>1, <2>2
  <1>4. ASSUME NEW s \in AllStoppers, StopMark(s)
        PROVE  Ledger!Next
    BY <1>4, MarkCloses DEF Ledger!Next
  <1>5. ASSUME UNCHANGED <<held, observed, pendingTasks, id, stopped>>,
               \A c \in Calls : call[c] \in {"new", "refused"} \/ call'[c] \in {"new", "refused"}
                                   => call'[c] = call[c],
               \A s \in AllStoppers : stop'[s] = "returned" <=> stop[s] = "returned"
        PROVE  UNCHANGED Ledger!ledgerVars
    BY <1>5, FateKept, PhaseKept DEF Ledger!ledgerVars
  <1>6. ASSUME NEW c \in Calls, NotifySpawn(c)
        PROVE  UNCHANGED Ledger!ledgerVars
    <2>1. UNCHANGED <<held, observed, pendingTasks, id, stopped, stop>>
      BY <1>6 DEF NotifySpawn, taskVars, stopFlags, waitVars
    <2>2. call[c] = "registered" /\ call' = [call EXCEPT ![c] = "returned"]
      BY <1>6 DEF NotifySpawn, MoveCall
    <2>3. QED
      BY <1>5, <2>1, <2>2 DEF LInv, IInv, TypeInv
  <1>7. ASSUME NEW s \in AllStoppers, StopAgain(s) \/ StopCancel(s) \/ StopTimeout(s)
        PROVE  UNCHANGED Ledger!ledgerVars
    <2>1. UNCHANGED <<held, observed, pendingTasks, id, stopped, call>>
      BY <1>7 DEF StopAgain, StopCancel, StopTimeout, taskVars, stopFlags, callVars
    <2>2. /\ stop[s] \in {"new", "marked", "waiting"}
          /\ \E to \in {"noop", "waiting", "timedout"} : stop' = [stop EXCEPT ![s] = to]
      BY <1>7 DEF StopAgain, StopCancel, StopTimeout, MoveStop
    <2>3. \A r \in AllStoppers : stop'[r] = "returned" <=> stop[r] = "returned"
      BY <2>2 DEF LInv, IInv, TypeInv
    <2>4. QED
      BY <1>5, <2>1, <2>3
  <1>8. CASE UNCHANGED <<callVars, taskVars, stopped, stop>>
    BY <1>5, <1>8 DEF callVars, taskVars
  <1>9. ASSUME NEW s \in AllStoppers, StopReturn(s)
        PROVE  [Ledger!Next]_(Ledger!ledgerVars)
    BY <1>9, ReturnSeals
  <1>10. QED
    BY <1>1, <1>2, <1>3, <1>4, <1>6, <1>7, <1>8, <1>9
       DEF Next, vars, Tick, Finished, CallStep, WorkerStep, WorkerAcquire, WorkerCancelled,
           WorkerDelayElapsed, ObserveMissing, WorkerRelease, WorkerExit, StopStep, WaitBegin,
           WaitEnd, stopFlags, waitVars

\* The engine implements ObservationLedger, for any number of calls, workers and
\* stops and any clock: a notification accepted while the engine is open is
\* measured at most once or lost to another one, and nothing changes after Stop
\* has returned (engine.go).
THEOREM ImplementsLedger == Spec => LedgerSpec
  <1>1. Spec => []LInv
    BY LedgerInvariance
  <1>2. QED
    BY <1>1, LedgerInit, LedgerStep, PTL DEF Spec, LedgerSpec, Ledger!Spec
=============================================================================
