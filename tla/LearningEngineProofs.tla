------------------------ MODULE LearningEngineProofs ------------------------
(***************************************************************************)
(* What holds of the learning engine for any number of calls, workers and  *)
(* stops, any task-ID modulus and any clock.                               *)
(***************************************************************************)
EXTENDS LearningEngine, FiniteSetTheorems, TLAPS

USE EngineAssumption DEF AllStoppers

\* A new task ID is a task ID: the counter is reduced modulo IdModulus.
LEMMA NewTaskIdType ==
    ASSUME NEW task \in Tasks, second \in 0..MaxSecond, taskCounter \in Nat
    PROVE  NewTaskId(task) \in TaskIds
  <1>1. (taskCounter + 1) % IdModulus \in 0..IdModulus - 1
    OBVIOUS
  <1>2. QED
    BY <1>1 DEF NewTaskId, TaskIds

\* The type invariant, except that slots and wg may be any integers: that they
\* are never negative is the accounting below.
TypeInv ==
    /\ second \in 0..MaxSecond
    /\ taskCounter \in Nat
    /\ pendingTasks \in [TaskIds -> Calls \cup {NoCall}]
    /\ stopped \in BOOLEAN
    /\ cancelled \in BOOLEAN
    /\ slots \in Int
    /\ wg \in Int
    /\ call \in [Calls -> {"new", "refused", "registered", "returned"}]
    /\ id \in [Calls -> TaskIds \cup {NoId}]
    /\ worker \in [Calls -> {"none", "done"} \cup Alive]
    /\ held \in [Calls -> Calls \cup {NoCall}]
    /\ observed \in [Calls -> Nat]
    /\ stop \in [AllStoppers -> {"new", "noop", "marked", "waiting", "returned", "timedout"}]
    /\ wait \in [AllStoppers -> {"none", "blocked", "woken", "done", "panicked"}]
    /\ crashed \in BOOLEAN
    /\ late \subseteq Calls

\* How far a call is determines whether it has an ID and a goroutine, and a
\* worker holds a pendingTask exactly while it feeds the model.
Progress ==
    \A c \in Calls :
        /\ call[c] \in {"new", "refused"} <=> id[c] = NoId
        /\ call[c] # "returned" <=> worker[c] = "none"
        /\ worker[c] = "feed" <=> held[c] # NoCall

\* Whoever went past the stop's check has marked the engine stopped, the
\* context is cancelled only by a stop, and a stopped engine has nothing
\* pending.
StopDrops ==
    /\ \A s \in AllStoppers : stop[s] # "new" => stopped
    /\ cancelled => stopped
    /\ stopped => \A i \in TaskIds : pendingTasks[i] = NoCall

\* An accepted notification is filed, in one worker's hands or observed, and
\* never two of these.
OnePlace ==
    /\ \A i \in TaskIds :
          LET c == pendingTasks[i]
          IN  c # NoCall => id[c] = i /\ observed[c] = 0 /\ \A w \in Calls : held[w] # c
    /\ \A w \in Calls :
          held[w] # NoCall => /\ id[held[w]] # NoId
                              /\ observed[held[w]] = 0
                              /\ \A v \in Calls \ {w} : held[v] # held[w]
    /\ \A c \in Calls : id[c] = NoId => observed[c] = 0

IInv == TypeInv /\ Progress /\ StopDrops /\ OnePlace /\ AtMostOnce /\ PendingIsServed /\ Accounting
-----------------------------------------------------------------------------
\* The initial state satisfies the inductive invariant.
LEMMA InitIInv == Init => IInv
  <1> SUFFICES ASSUME Init PROVE IInv
    OBVIOUS
  <1>1. HoldingWorkers = {} /\ LiveWorkers = {}
    BY DEF Init, HoldingWorkers, LiveWorkers, Holding, Alive
  <1>2. Accounting
    BY <1>1, FS_EmptySet DEF Init, Accounting
  <1>3. TypeInv
    <2>1. second \in 0..MaxSecond /\ taskCounter \in Nat /\ slots \in Int /\ wg \in Int
      BY DEF Init, EngineAssumption
    <2>2. QED
      BY <2>1 DEF Init, TypeInv
  <1>4. Progress /\ StopDrops /\ OnePlace /\ AtMostOnce /\ PendingIsServed
    BY DEF Init, Progress, StopDrops, OnePlace, AtMostOnce, PendingIsServed
  <1>5. QED
    BY <1>2, <1>3, <1>4 DEF IInv
-----------------------------------------------------------------------------
\* What every step keeps, one conjunct of the invariant at a time.

LEMMA TypeStep ==
    ASSUME TypeInv, Progress, [Next]_vars
    PROVE  TypeInv'
  <1> USE DEF TypeInv, Alive, Holding
  <1>1. CASE Tick
    BY <1>1, Z3 DEF Tick, EngineAssumption, stopFlags, callVars, taskVars, waitVars
  <1>2. ASSUME NEW c \in Calls, CallStep(c)
        PROVE  TypeInv'
    <2>1. CASE NotifyRefused(c)
      BY <2>1 DEF NotifyRefused, MoveCall, idVars, stopFlags, taskVars, waitVars
    <2>2. ASSUME NEW task \in Tasks, NotifyRegister(c, task)
          PROVE  TypeInv'
      <3>1. NewTaskId(task) \in TaskIds
        BY NewTaskIdType
      <3>2. QED
        BY <2>2, <3>1 DEF NotifyRegister, MoveCall, stopFlags, waitVars
    <2>3. CASE NotifySpawn(c)
      BY <2>3 DEF NotifySpawn, MoveCall, idVars, stopFlags, taskVars, waitVars
    <2>4. QED
      BY <1>2, <2>1, <2>2, <2>3 DEF CallStep
  <1>3. ASSUME NEW c \in Calls, WorkerStep(c)
        PROVE  TypeInv'
    <2> USE DEF MoveWorker, idVars, stopFlags, callVars, waitVars
    <2>1. CASE WorkerAcquire(c)
      BY <2>1 DEF WorkerAcquire, taskVars
    <2>2. CASE WorkerCancelled(c)
      BY <2>2 DEF WorkerCancelled, taskVars, DeferredWithoutSlot, DeferredWithSlot
    <2>3. CASE WorkerDelayElapsed(c)
      BY <2>3 DEF WorkerDelayElapsed, taskVars
    <2>4. CASE ObserveTake(c)
      <3>1. id[c] \in TaskIds
        BY <2>4 DEF ObserveTake, Progress
      <3>2. QED
        BY <2>4, <3>1 DEF ObserveTake, TasksWithout
    <2>5. CASE ObserveMissing(c)
      BY <2>5 DEF ObserveMissing, taskVars, DeferredWithSlot
    <2>6. CASE ObserveFeed(c)
      <3>1. held[c] \in Calls
        BY <2>6 DEF ObserveFeed, Progress
      <3>2. observed' \in [Calls -> Nat] /\ held' \in [Calls -> Calls \cup {NoCall}]
        BY <2>6, <3>1 DEF ObserveFeed
      <3>3. QED
        BY <2>6, <3>2 DEF ObserveFeed, DeferredWithSlot
    <2>7. CASE WorkerRelease(c)
      BY <2>7 DEF WorkerRelease, taskVars
    <2>8. CASE WorkerExit(c)
      BY <2>8 DEF WorkerExit, taskVars
    <2>9. QED
      BY <1>3, <2>1, <2>2, <2>3, <2>4, <2>5, <2>6, <2>7, <2>8 DEF WorkerStep
  <1>4. ASSUME NEW s \in AllStoppers, StopStep(s)
        PROVE  TypeInv'
    <2> USE DEF MoveStop, idVars, stopFlags, callVars, taskVars
    <2>1. CASE StopAgain(s)
      BY <2>1 DEF StopAgain
    <2>2. CASE StopMark(s)
      BY <2>2 DEF StopMark, TasksDropped
    <2>3. CASE StopCancel(s)
      BY <2>3 DEF StopCancel
    <2>4. CASE WaitBegin(s)
      BY <2>4 DEF WaitBegin, WaitOutcome
    <2>5. CASE WaitEnd(s)
      BY <2>5 DEF WaitEnd
    <2>6. CASE StopReturn(s)
      BY <2>6 DEF StopReturn
    <2>7. CASE StopTimeout(s)
      BY <2>7 DEF StopTimeout
    <2>8. QED
      BY <1>4, <2>1, <2>2, <2>3, <2>4, <2>5, <2>6, <2>7 DEF StopStep
  <1>5. CASE Finished \/ UNCHANGED vars
    BY <1>5 DEF Finished, vars, idVars, stopFlags, callVars, taskVars, waitVars
  <1>6. QED
    BY <1>1, <1>2, <1>3, <1>4, <1>5 DEF Next

LEMMA ProgressStep ==
    ASSUME TypeInv, Progress, [Next]_vars
    PROVE  Progress'
  <1> USE DEF TypeInv, Progress, Alive, Holding
  <1>1. CASE Tick \/ Finished \/ UNCHANGED vars
    BY <1>1 DEF Tick, Finished, vars, callVars, taskVars
  <1>2. ASSUME NEW c \in Calls, CallStep(c)
        PROVE  Progress'
    <2>1. CASE NotifyRefused(c)
      BY <2>1 DEF NotifyRefused, MoveCall, taskVars
    <2>2. ASSUME NEW task \in Tasks, NotifyRegister(c, task)
          PROVE  Progress'
      <3>1. NewTaskId(task) # NoId
        BY NewTaskIdType DEF EngineAssumption, TaskIds
      <3>2. QED
        BY <2>2, <3>1 DEF NotifyRegister, MoveCall
    <2>3. CASE NotifySpawn(c)
      BY <2>3 DEF NotifySpawn, MoveCall, taskVars
    <2>4. QED
      BY <1>2, <2>1, <2>2, <2>3 DEF CallStep
  <1>3. ASSUME NEW c \in Calls, WorkerStep(c)
        PROVE  Progress'
    <2> USE DEF MoveWorker, callVars, DeferredWithoutSlot, DeferredWithSlot
    <2>1. CASE ObserveTake(c)
      BY <2>1 DEF ObserveTake
    <2>2. CASE ObserveFeed(c)
      BY <2>2 DEF ObserveFeed
    <2>3. CASE WorkerAcquire(c) \/ WorkerCancelled(c) \/ WorkerDelayElapsed(c)
      BY <2>3 DEF WorkerAcquire, WorkerCancelled, WorkerDelayElapsed, taskVars
    <2>4. CASE ObserveMissing(c) \/ WorkerRelease(c) \/ WorkerExit(c)
      BY <2>4 DEF ObserveMissing, WorkerRelease, WorkerExit, taskVars
    <2>5. QED
      BY <1>3, <2>1, <2>2, <2>3, <2>4 DEF WorkerStep
  <1>4. ASSUME NEW s \in AllStoppers, StopStep(s)
        PROVE  Progress'
    BY <1>4 DEF StopStep, StopAgain, StopMark, StopCancel, WaitBegin, WaitEnd,
                StopReturn, StopTimeout, callVars, taskVars
  <1>5. QED
    BY <1>1, <1>2, <1>3, <1>4 DEF Next

LEMMA StopDropsStep ==
    ASSUME TypeInv, Progress, StopDrops, [Next]_vars
    PROVE  StopDrops'
  <1> USE DEF TypeInv, StopDrops
  <1>1. CASE UNCHANGED <<stop, stopFlags, pendingTasks>>
    BY <1>1 DEF stopFlags
  <1>2. ASSUME NEW c \in Calls, NEW task \in Tasks, NotifyRegister(c, task)
        PROVE  StopDrops'
    BY <1>2 DEF NotifyRegister, Open, stopFlags, waitVars
  <1>3. ASSUME NEW c \in Calls, ObserveTake(c)
        PROVE  StopDrops'
    BY <1>3 DEF ObserveTake, TasksWithout, stopFlags, waitVars
  <1>4. ASSUME NEW s \in AllStoppers, StopStep(s)
        PROVE  StopDrops'
    <2> USE DEF MoveStop
    <2>1. CASE StopMark(s)
      BY <2>1 DEF StopMark, TasksDropped
    <2>2. CASE StopCancel(s)
      BY <2>2 DEF StopCancel, taskVars
    <2>3. CASE StopAgain(s) \/ StopReturn(s) \/ StopTimeout(s)
      BY <2>3 DEF StopAgain, StopReturn, StopTimeout, stopFlags, taskVars
    <2>4. CASE WaitBegin(s) \/ WaitEnd(s)
      BY <2>4 DEF WaitBegin, WaitEnd, stopFlags, taskVars
    <2>5. QED
      BY <1>4, <2>1, <2>2, <2>3, <2>4 DEF StopStep
  <1>5. QED
    BY <1>1, <1>2, <1>3, <1>4
       DEF Next, vars, taskVars, waitVars, Tick, Finished, CallStep, NotifyRefused, NotifySpawn,
           WorkerStep, WorkerAcquire, WorkerCancelled, WorkerDelayElapsed, ObserveMissing,
           ObserveFeed, WorkerRelease, WorkerExit

\* Where each notification is changes in four actions only: registering,
\* taking, feeding and stopping.
LEMMA OnePlaceStep ==
    ASSUME TypeInv, Progress, OnePlace, AtMostOnce, [Next]_vars
    PROVE  OnePlace' /\ AtMostOnce'
  <1> USE DEF TypeInv, OnePlace, AtMostOnce
  <1>1. CASE UNCHANGED <<id, taskVars>>
    BY <1>1 DEF taskVars
  <1>2. ASSUME NEW c \in Calls, NEW task \in Tasks, NotifyRegister(c, task)
        PROVE  OnePlace' /\ AtMostOnce'
    <2>1. NewTaskId(task) \in TaskIds /\ NewTaskId(task) # NoId
      BY NewTaskIdType DEF EngineAssumption, TaskIds
    <2>2. id[c] = NoId
      BY <1>2 DEF NotifyRegister, MoveCall, Progress
    <2>3. /\ observed[c] = 0
          /\ \A w \in Calls : held[w] # c
          /\ \A i \in TaskIds : pendingTasks[i] # c
      BY <2>2 DEF TaskIds, EngineAssumption
    <2>4. /\ UNCHANGED <<held, observed>>
          /\ id' = [id EXCEPT ![c] = NewTaskId(task)]
          /\ pendingTasks' = [pendingTasks EXCEPT ![NewTaskId(task)] = c]
      BY <1>2 DEF NotifyRegister
    <2>5. \A i \in TaskIds :
            LET d == pendingTasks'[i]
            IN  d # NoCall => id'[d] = i /\ observed'[d] = 0 /\ \A w \in Calls : held'[w] # d
      BY <2>1, <2>3, <2>4
    <2>6. QED
      BY <2>1, <2>2, <2>4, <2>5
  <1>3. ASSUME NEW c \in Calls, ObserveTake(c)
        PROVE  OnePlace' /\ AtMostOnce'
    <2>1. id[c] \in TaskIds /\ held[c] = NoCall
      BY <1>3 DEF ObserveTake, MoveWorker, Progress, Alive, Holding
    <2>2. QED
      BY <1>3, <2>1 DEF ObserveTake, TasksWithout, callVars, EngineAssumption, TaskIds
  <1>4. ASSUME NEW c \in Calls, ObserveFeed(c)
        PROVE  OnePlace' /\ AtMostOnce'
    <2>1. held[c] \in Calls
      BY <1>4 DEF ObserveFeed, MoveWorker, Progress
    <2>2. QED
      BY <1>4, <2>1 DEF ObserveFeed, callVars
  <1>5. ASSUME NEW s \in AllStoppers, StopMark(s)
        PROVE  OnePlace' /\ AtMostOnce'
    BY <1>5 DEF StopMark, TasksDropped, callVars
  <1>6. QED
    BY <1>1, <1>2, <1>3, <1>4, <1>5
       DEF Next, vars, callVars, taskVars, Tick, Finished, CallStep, NotifyRefused, NotifySpawn,
           WorkerStep, WorkerAcquire, WorkerCancelled, WorkerDelayElapsed, ObserveMissing,
           WorkerRelease, WorkerExit, StopStep, StopAgain, StopCancel, WaitBegin, WaitEnd,
           StopReturn, StopTimeout

LEMMA PendingIsServedStep ==
    ASSUME TypeInv, Progress, StopDrops, OnePlace, PendingIsServed, [Next]_vars
    PROVE  PendingIsServed'
  <1> USE DEF TypeInv, PendingIsServed
  <1>1. CASE UNCHANGED <<id, call, worker, pendingTasks>>
    BY <1>1
  <1>2. ASSUME NEW c \in Calls, CallStep(c)
        PROVE  PendingIsServed'
    <2>1. CASE NotifyRefused(c)
      BY <2>1 DEF NotifyRefused, MoveCall, taskVars
    <2>2. ASSUME NEW task \in Tasks, NotifyRegister(c, task)
          PROVE  PendingIsServed'
      <3>1. NewTaskId(task) \in TaskIds /\ NewTaskId(task) # NoId
        BY NewTaskIdType DEF EngineAssumption, TaskIds
      <3>2. id[c] = NoId
        BY <2>2 DEF NotifyRegister, MoveCall, Progress
      <3>3. QED
        BY <2>2, <3>1, <3>2 DEF NotifyRegister, MoveCall, EngineAssumption, TaskIds
    <2>3. CASE NotifySpawn(c)
      BY <2>3 DEF NotifySpawn, MoveCall, taskVars
    <2>4. QED
      BY <1>2, <2>1, <2>2, <2>3 DEF CallStep
  <1>3. ASSUME NEW c \in Calls, WorkerStep(c)
        PROVE  PendingIsServed'
    <2> USE DEF MoveWorker, callVars, taskVars
    <2>1. CASE WorkerAcquire(c) \/ WorkerDelayElapsed(c)
      BY <2>1 DEF WorkerAcquire, WorkerDelayElapsed
    <2>2. CASE WorkerCancelled(c)
      BY <2>2 DEF WorkerCancelled, StopDrops
    <2>3. CASE ObserveTake(c)
      <3>1. id[c] \in TaskIds
        BY <2>3 DEF ObserveTake, Progress
      <3>2. QED
        BY <2>3, <3>1 DEF ObserveTake, TasksWithout, OnePlace
    <2>4. CASE ObserveMissing(c)
      BY <2>4 DEF ObserveMissing, DeferredWithSlot
    <2>5. CASE ObserveFeed(c)
      BY <2>5 DEF ObserveFeed, DeferredWithSlot
    <2>6. CASE WorkerRelease(c) \/ WorkerExit(c)
      BY <2>6 DEF WorkerRelease, WorkerExit
    <2>7. QED
      BY <1>3, <2>1, <2>2, <2>3, <2>4, <2>5, <2>6 DEF WorkerStep
  <1>4. ASSUME NEW s \in AllStoppers, StopMark(s)
        PROVE  PendingIsServed'
    BY <1>4 DEF StopMark, TasksDropped, callVars
  <1>5. QED
    BY <1>1, <1>2, <1>3, <1>4
       DEF Next, vars, callVars, taskVars, Tick, Finished, StopStep, StopAgain, StopCancel,
           WaitBegin, WaitEnd, StopReturn, StopTimeout

\* How a finite set's size changes when one element is put in or taken out.
LEMMA SizeAfterMove ==
    ASSUME NEW S, IsFiniteSet(S), NEW x
    PROVE  /\ Cardinality(S) \in Nat
           /\ x \in S => /\ Cardinality(S \cup {x}) = Cardinality(S)
                         /\ Cardinality(S \ {x}) = Cardinality(S) - 1
           /\ x \notin S => /\ Cardinality(S \cup {x}) = Cardinality(S) + 1
                            /\ Cardinality(S \ {x}) = Cardinality(S)
  <1>1. CASE x \in S
    <2>1. S \cup {x} = S
      BY <1>1
    <2>2. QED
      BY <1>1, <2>1, FS_CardinalityType, FS_RemoveElement
  <1>2. CASE x \notin S
    <2>1. S \ {x} = S
      BY <1>2
    <2>2. QED
      BY <1>2, <2>1, FS_CardinalityType, FS_AddElement
  <1>3. QED
    BY <1>1, <1>2

\* How the numbers that slots and wg count change when a worker moves from
\* one place to another.
LEMMA WorkerCounts ==
    ASSUME TypeInv, NEW c \in Calls, NEW place, worker' = [worker EXCEPT ![c] = place]
    PROVE  /\ Cardinality(HoldingWorkers) \in Nat
           /\ Cardinality(HoldingWorkers') =
                 IF worker[c] \in Holding
                 THEN IF place \in Holding THEN Cardinality(HoldingWorkers)
                                          ELSE Cardinality(HoldingWorkers) - 1
                 ELSE IF place \in Holding THEN Cardinality(HoldingWorkers) + 1
                                          ELSE Cardinality(HoldingWorkers)
           /\ Cardinality(LiveWorkers) \in Nat
           /\ Cardinality(LiveWorkers') =
                 IF worker[c] \in Alive
                 THEN IF place \in Alive THEN Cardinality(LiveWorkers)
                                        ELSE Cardinality(LiveWorkers) - 1
                 ELSE IF place \in Alive THEN Cardinality(LiveWorkers) + 1
                                        ELSE Cardinality(LiveWorkers)
  <1>1. IsFiniteSet(HoldingWorkers) /\ IsFiniteSet(LiveWorkers)
    BY FS_Subset DEF HoldingWorkers, LiveWorkers, EngineAssumption
  <1>2. HoldingWorkers' = IF place \in Holding THEN HoldingWorkers \cup {c}
                                               ELSE HoldingWorkers \ {c}
    BY DEF TypeInv, HoldingWorkers
  <1>3. LiveWorkers' = IF place \in Alive THEN LiveWorkers \cup {c}
                                          ELSE LiveWorkers \ {c}
    BY DEF TypeInv, LiveWorkers
  <1>4. /\ c \in HoldingWorkers <=> worker[c] \in Holding
        /\ c \in LiveWorkers <=> worker[c] \in Alive
    BY DEF HoldingWorkers, LiveWorkers
  <1>5. QED
    BY <1>1, <1>2, <1>3, <1>4, SizeAfterMove

LEMMA AccountingStep ==
    ASSUME TypeInv, Progress, Accounting, [Next]_vars
    PROVE  Accounting'
  <1> USE DEF Accounting
  <1>1. CASE UNCHANGED <<slots, wg, worker>>
    BY <1>1 DEF HoldingWorkers, LiveWorkers
  <1>2. ASSUME NEW c \in Calls, NotifySpawn(c)
        PROVE  Accounting'
    <2>1. worker[c] = "none" /\ worker' = [worker EXCEPT ![c] = "acquire"]
          /\ slots' = slots /\ wg' = wg + 1
      BY <1>2 DEF NotifySpawn, MoveCall, Progress
    <2>2. /\ worker[c] \notin Holding /\ worker[c] \notin Alive
          /\ "acquire" \notin Holding /\ "acquire" \in Alive
      BY <2>1 DEF Holding, Alive
    <2>3. /\ Cardinality(HoldingWorkers') = Cardinality(HoldingWorkers)
          /\ Cardinality(LiveWorkers') = Cardinality(LiveWorkers) + 1
      BY <2>1, <2>2, WorkerCounts
    <2>4. QED
      BY <2>1, <2>3
  <1>3. ASSUME NEW c \in Calls, WorkerStep(c)
        PROVE  Accounting'
    <2> USE DEF MoveWorker
    <2>1. CASE WorkerAcquire(c)
      <3>1. worker[c] = "acquire" /\ worker' = [worker EXCEPT ![c] = "delay"]
            /\ slots < MaxWorkers /\ slots' = slots + 1 /\ wg' = wg
        BY <2>1 DEF WorkerAcquire, SlotFree
      <3>2. /\ Cardinality(HoldingWorkers') = Cardinality(HoldingWorkers) + 1
            /\ Cardinality(LiveWorkers') = Cardinality(LiveWorkers)
        BY <3>1, WorkerCounts DEF Holding, Alive
      <3>3. QED
        BY <3>1, <3>2 DEF TypeInv, EngineAssumption
    <2>2. CASE WorkerRelease(c)
      <3>1. worker[c] = "release" /\ worker' = [worker EXCEPT ![c] = "exit"]
            /\ slots' = slots - 1 /\ wg' = wg
        BY <2>2 DEF WorkerRelease
      <3>2. /\ Cardinality(HoldingWorkers') = Cardinality(HoldingWorkers) - 1
            /\ Cardinality(LiveWorkers') = Cardinality(LiveWorkers)
        BY <3>1, WorkerCounts DEF Holding, Alive
      <3>3. QED
        BY <3>1, <3>2 DEF TypeInv, EngineAssumption
    <2>3. CASE WorkerExit(c)
      <3>1. worker[c] = "exit" /\ worker' = [worker EXCEPT ![c] = "done"]
            /\ slots' = slots /\ wg' = wg - 1
        BY <2>3 DEF WorkerExit
      <3>2. QED
        BY <3>1, WorkerCounts DEF Holding, Alive
    <2>4. CASE WorkerCancelled(c) \/ WorkerDelayElapsed(c) \/ ObserveTake(c)
               \/ ObserveMissing(c) \/ ObserveFeed(c)
      <3>1. PICK place \in Alive : worker' = [worker EXCEPT ![c] = place]
                                   /\ (place \in Holding <=> worker[c] \in Holding)
        BY <2>4 DEF WorkerCancelled, WorkerDelayElapsed, ObserveTake, ObserveMissing,
                    ObserveFeed, DeferredWithoutSlot, DeferredWithSlot, Holding, Alive
      <3>2. worker[c] \in Alive /\ slots' = slots /\ wg' = wg
        BY <2>4 DEF WorkerCancelled, WorkerDelayElapsed, ObserveTake, ObserveMissing,
                    ObserveFeed, Holding, Alive
      <3>3. QED
        BY <3>1, <3>2, WorkerCounts
    <2>5. QED
      BY <1>3, <2>1, <2>2, <2>3, <2>4 DEF WorkerStep
  <1>4. QED
    BY <1>1, <1>2, <1>3
       DEF Next, vars, Tick, Finished, CallStep, NotifyRefused, NotifyRegister, StopStep,
           StopAgain, StopMark, StopCancel, WaitBegin, WaitEnd, StopReturn, StopTimeout
-----------------------------------------------------------------------------
\* The inductive invariant holds in every reachable state.
LEMMA Invariance == Spec => []IInv
  <1>1. IInv /\ [Next]_vars => IInv'
    BY TypeStep, ProgressStep, StopDropsStep, OnePlaceStep, PendingIsServedStep, AccountingStep
       DEF IInv
  <1>2. QED
    BY InitIInv, <1>1, PTL DEF Spec

\* Type correctness, counters included: with the accounting of the workers the
\* semaphore and the WaitGroup counter are natural numbers.
THEOREM TypeCorrect == Spec => []TypeOK
  <1>1. IInv => TypeOK
    <2> SUFFICES ASSUME IInv PROVE TypeOK
      OBVIOUS
    <2>1. IsFiniteSet(HoldingWorkers) /\ IsFiniteSet(LiveWorkers)
      BY FS_Subset DEF HoldingWorkers, LiveWorkers, EngineAssumption
    <2>2. slots \in Nat /\ wg \in Nat
      BY <2>1, FS_CardinalityType DEF IInv, Accounting
    <2>3. QED
      BY <2>2 DEF IInv, TypeInv, TypeOK
  <1>2. QED
    BY Invariance, <1>1, PTL

\* However many handlers notify at once, the semaphore holds exactly the
\* workers inside it, at most MaxWorkers of them, and the WaitGroup counts
\* exactly the goroutines that are alive.
THEOREM WorkersAccounted == Spec => []Accounting
  <1>1. IInv => Accounting
    BY DEF IInv
  <1>2. QED
    BY Invariance, <1>1, PTL

\* No notification is fed to the model twice, whatever task IDs collide and
\* however workers, handlers and stops interleave.
THEOREM NoDoubleObservation == Spec => []AtMostOnce
  <1>1. IInv => AtMostOnce
    BY DEF IInv
  <1>2. QED
    BY Invariance, <1>1, PTL

\* No entry of pendingTasks is orphaned: its own goroutine is still to come.
THEOREM NoOrphanedTask == Spec => []PendingIsServed
  <1>1. IInv => PendingIsServed
    BY DEF IInv
  <1>2. QED
    BY Invariance, <1>1, PTL
=============================================================================
