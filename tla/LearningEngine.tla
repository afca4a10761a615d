--------------------------- MODULE LearningEngine ---------------------------
(***************************************************************************)
(* The learning engine of capfox (internal/learning/engine.go).            *)
(*                                                                         *)
(* HTTP handlers call NotifyTaskStart; each accepted call files a pending  *)
(* task under a task ID and, AFTER releasing the mutex, starts a worker    *)
(* goroutine.  A worker takes a slot of a bounded semaphore, waits for the *)
(* observation delay, takes the pending task filed under its ID and feeds  *)
(* the measured impact to the model.  Stop and StopWithTimeout mark the    *)
(* engine stopped, drop what is pending, cancel the context and wait for   *)
(* the workers' WaitGroup.                                                 *)
(*                                                                         *)
(* What is abstracted: the impact itself (the difference of two readings)  *)
(* is not a value here, only the fact that one is fed to the model;        *)
(* aggregator.GetState never returns nil, so observe's "missing state"     *)
(* return is unreachable and left out; time is the second that goes into   *)
(* a task ID and, for the delay and the stop timeout, the freedom of the   *)
(* timer's action to happen at any moment after it is armed.               *)
(***************************************************************************)
EXTENDS Integers, FiniteSets

CONSTANTS
    Calls,          \* the calls of NotifyTaskStart, one handler goroutine each
    Tasks,          \* the task names
    MaxWorkers,     \* capacity of workerSem
    IdModulus,      \* formatCounter keeps taskCounter modulo this (1000)
    MaxSecond,      \* bound: the clock shows the seconds 0..MaxSecond
    Stoppers,       \* goroutines that call Stop
    TimedStoppers,  \* goroutines that call StopWithTimeout
    NoCall,         \* no pending task: neither filed under an ID nor held
    NoId            \* the ID of a call that has not been accepted

ASSUME EngineAssumption ==
    /\ IsFiniteSet(Calls)
    /\ MaxWorkers \in Nat \ {0}
    /\ IdModulus \in Nat \ {0}
    /\ MaxSecond \in Nat
    /\ NoCall \notin Calls
    /\ NoId \notin Tasks \X (0..MaxSecond) \X (0..IdModulus - 1)
    /\ Stoppers \cap TimedStoppers = {}

VARIABLES
    second,         \* wall-clock second, the one formatted into task IDs
    taskCounter,
    pendingTasks,   \* task ID -> the call whose pendingTask is filed there
    stopped,
    cancelled,      \* e.ctx is done
    slots,          \* len(e.workerSem)
    wg,             \* counter of the WaitGroup
    call,           \* where each NotifyTaskStart call is
    id,             \* the task ID each accepted call computed
    worker,         \* where each call's goroutine is
    held,           \* the pendingTask each worker took in observe
    observed,       \* how often each call's task was fed to the model
    stop,           \* where each Stop / StopWithTimeout call is
    wait,           \* where each stop's wg.Wait is
    crashed,        \* the WaitGroup panicked
    late            \* history: calls between e.mu.Unlock and wg.Add when
                    \* the engine was marked stopped

idVars    == <<second, taskCounter>>
stopFlags == <<stopped, cancelled>>
callVars  == <<call, id>>
taskVars  == <<pendingTasks, held, observed>>
waitVars  == <<stop, wait, crashed, late>>
vars == <<idVars, stopFlags, slots, wg, callVars, taskVars, worker, waitVars>>

TaskIds == Tasks \X (0..MaxSecond) \X (0..IdModulus - 1)
AllStoppers == Stoppers \cup TimedStoppers

\* A goroutine is alive (counted by the WaitGroup) between wg.Add and wg.Done,
\* and holds a slot from its send on workerSem to its receive.
Holding == {"delay", "observe", "feed", "release"}
Alive == Holding \cup {"acquire", "exit"}
HoldingWorkers == {c \in Calls : worker[c] \in Holding}
LiveWorkers == {c \in Calls : worker[c] \in Alive}

Init ==
    /\ second = 0 /\ taskCounter = 0
    /\ pendingTasks = [i \in TaskIds |-> NoCall]
    /\ stopped = FALSE /\ cancelled = FALSE
    /\ slots = 0 /\ wg = 0
    /\ call = [c \in Calls |-> "new"]
    /\ id = [c \in Calls |-> NoId]
    /\ worker = [c \in Calls |-> "none"]
    /\ held = [c \in Calls |-> NoCall]
    /\ observed = [c \in Calls |-> 0]
    /\ stop = [s \in AllStoppers |-> "new"]
    /\ wait = [s \in AllStoppers |-> "none"]
    /\ crashed = FALSE
    /\ late = {}

\* A goroutine goes from one place to the next.  A panic ends the process:
\* nothing moves once crashed.
MoveCall(c, from, to) ==
    ~crashed /\ call[c] = from /\ call' = [call EXCEPT ![c] = to]
MoveWorker(c, from, to) ==
    ~crashed /\ worker[c] = from /\ worker' = [worker EXCEPT ![c] = to]
MoveStop(s, from, to) ==
    ~crashed /\ stop[s] = from /\ stop' = [stop EXCEPT ![s] = to]
-----------------------------------------------------------------------------
(* The decisions of the code, each preceded by a slip in it that the       *)
(* mutation runs put in its place.                                         *)

AlwaysOpen == TRUE
\* NotifyTaskStart's check, under the mutex.
Open == ~stopped

NewTaskId(task) == <<task, second, (taskCounter + 1) % IdModulus>>

SlotFreeOneMore == slots <= MaxWorkers
\* A send on workerSem can proceed.
SlotFree == slots < MaxWorkers

DeferredReleaseToo == "release"
DeferredNothing == "done"
\* What is deferred when the first select is cancelled: wg.Done.
DeferredWithoutSlot == "exit"

DeferredDoneOnly == "exit"
\* What is deferred once the slot is taken: its release, then wg.Done.
DeferredWithSlot == "release"

TasksKeeping(i) == pendingTasks
TasksReset(i) == [j \in TaskIds |-> NoCall]
\* observe deletes the entry it found.
TasksWithout(i) == [pendingTasks EXCEPT ![i] = NoCall]

TasksKept == pendingTasks
\* Stop replaces the map by an empty one.
TasksDropped == [i \in TaskIds |-> NoCall]

NotWaiting == "done"
\* wg.Wait returns at once when the counter is zero and parks otherwise.
WaitOutcome == IF wg = 0 THEN "done" ELSE "blocked"
-----------------------------------------------------------------------------
\* The clock that time.Now() reads moves to the next second.
Tick ==
    /\ ~crashed
    /\ second < MaxSecond
    /\ second' = second + 1
    /\ UNCHANGED <<taskCounter, stopFlags, slots, wg, callVars, taskVars, worker, waitVars>>

(* NotifyTaskStart.  The mutex covers the first step only: the WaitGroup   *)
(* is incremented and the goroutine started after it is released.          *)

NotifyRefused(c) ==
    /\ MoveCall(c, "new", "refused")
    /\ stopped
    /\ UNCHANGED <<idVars, stopFlags, slots, wg, id, taskVars, worker, waitVars>>

NotifyRegister(c, task) ==
    /\ MoveCall(c, "new", "registered")
    /\ Open
    /\ taskCounter' = taskCounter + 1
    /\ id' = [id EXCEPT ![c] = NewTaskId(task)]
    /\ pendingTasks' = [pendingTasks EXCEPT ![NewTaskId(task)] = c]
    /\ UNCHANGED <<second, stopFlags, slots, wg, held, observed, worker, waitVars>>

NotifySpawn(c) ==
    /\ MoveCall(c, "registered", "returned")
    /\ wg' = wg + 1
    /\ worker' = [worker EXCEPT ![c] = "acquire"]
    /\ UNCHANGED <<idVars, stopFlags, slots, id, taskVars, waitVars>>
-----------------------------------------------------------------------------
(* The worker goroutine.  A select whose cases are both ready picks either *)
(* one, so no step below prefers cancellation to a slot or to the timer.   *)

WorkerAcquire(c) ==
    /\ MoveWorker(c, "acquire", "delay")
    /\ SlotFree
    /\ slots' = slots + 1
    /\ UNCHANGED <<idVars, stopFlags, wg, callVars, taskVars, waitVars>>

WorkerCancelled(c) ==
    /\ cancelled
    /\ \/ MoveWorker(c, "acquire", DeferredWithoutSlot)
       \/ MoveWorker(c, "delay", DeferredWithSlot)
    /\ UNCHANGED <<idVars, stopFlags, slots, wg, callVars, taskVars, waitVars>>

WorkerDelayElapsed(c) ==
    /\ MoveWorker(c, "delay", "observe")
    /\ UNCHANGED <<idVars, stopFlags, slots, wg, callVars, taskVars, waitVars>>

\* observe, under the mutex: look the ID up and delete the entry.
ObserveTake(c) ==
    /\ MoveWorker(c, "observe", "feed")
    /\ pendingTasks[id[c]] # NoCall
    /\ held' = [held EXCEPT ![c] = pendingTasks[id[c]]]
    /\ pendingTasks' = TasksWithout(id[c])
    /\ UNCHANGED <<idVars, stopFlags, slots, wg, callVars, observed, waitVars>>

ObserveMissing(c) ==
    /\ MoveWorker(c, "observe", DeferredWithSlot)
    /\ pendingTasks[id[c]] = NoCall
    /\ UNCHANGED <<idVars, stopFlags, slots, wg, callVars, taskVars, waitVars>>

\* observe, after the unlock: read the state, compute the impact, feed it.
ObserveFeed(c) ==
    /\ MoveWorker(c, "feed", DeferredWithSlot)
    /\ observed' = [observed EXCEPT ![held[c]] = @ + 1]
    /\ held' = [held EXCEPT ![c] = NoCall]
    /\ UNCHANGED <<idVars, stopFlags, slots, wg, callVars, pendingTasks, waitVars>>

WorkerRelease(c) ==
    /\ MoveWorker(c, "release", "exit")
    /\ slots' = slots - 1
    /\ UNCHANGED <<idVars, stopFlags, wg, callVars, taskVars, waitVars>>

\* wg.Done: the step that brings the counter to zero wakes every waiter.
WorkerExit(c) ==
    /\ MoveWorker(c, "exit", "done")
    /\ wg' = wg - 1
    /\ wait' = [s \in AllStoppers |->
                    IF wg = 1 /\ wait[s] = "blocked" THEN "woken" ELSE wait[s]]
    /\ UNCHANGED <<idVars, stopFlags, slots, callVars, taskVars, stop, crashed, late>>
-----------------------------------------------------------------------------
(* Stop and StopWithTimeout.                                               *)

StopAgain(s) ==
    /\ MoveStop(s, "new", "noop")
    /\ stopped
    /\ UNCHANGED <<idVars, stopFlags, slots, wg, callVars, taskVars, worker>>
    /\ UNCHANGED <<wait, crashed, late>>

\* Under the mutex: mark the engine stopped and drop everything pending.
StopMark(s) ==
    /\ MoveStop(s, "new", "marked")
    /\ ~stopped
    /\ stopped' = TRUE
    /\ pendingTasks' = TasksDropped
    /\ late' = {c \in Calls : call[c] = "registered"}
    /\ UNCHANGED <<idVars, cancelled, slots, wg, callVars, held, observed, worker>>
    /\ UNCHANGED <<wait, crashed>>

StopCancel(s) ==
    /\ MoveStop(s, "marked", "waiting")
    /\ cancelled' = TRUE
    /\ UNCHANGED <<idVars, stopped, slots, wg, callVars, taskVars, worker>>
    /\ UNCHANGED <<wait, crashed, late>>

\* StopWithTimeout waits in a goroutine that outlives the timeout.
WaitBegin(s) ==
    /\ ~crashed
    /\ stop[s] \in {"waiting", "timedout"}
    /\ wait[s] = "none"
    /\ wait' = [wait EXCEPT ![s] = WaitOutcome]
    /\ UNCHANGED <<idVars, stopFlags, slots, wg, callVars, taskVars, worker>>
    /\ UNCHANGED <<stop, crashed, late>>

\* A woken waiter panics ("WaitGroup is reused before previous Wait has
\* returned") when the counter is no longer zero.
WaitEnd(s) ==
    /\ ~crashed
    /\ wait[s] = "woken"
    /\ wait' = [wait EXCEPT ![s] = IF wg = 0 THEN "done" ELSE "panicked"]
    /\ crashed' = (wg # 0)
    /\ UNCHANGED <<idVars, stopFlags, slots, wg, callVars, taskVars, worker>>
    /\ UNCHANGED <<stop, late>>

StopReturn(s) ==
    /\ MoveStop(s, "waiting", "returned")
    /\ wait[s] = "done"
    /\ UNCHANGED <<idVars, stopFlags, slots, wg, callVars, taskVars, worker>>
    /\ UNCHANGED <<wait, crashed, late>>

StopTimeout(s) ==
    /\ s \in TimedStoppers
    /\ MoveStop(s, "waiting", "timedout")
    /\ UNCHANGED <<idVars, stopFlags, slots, wg, callVars, taskVars, worker>>
    /\ UNCHANGED <<wait, crashed, late>>
-----------------------------------------------------------------------------
CallStep(c) ==
    \/ NotifyRefused(c)
    \/ \E task \in Tasks : NotifyRegister(c, task)
    \/ NotifySpawn(c)

WorkerStep(c) ==
    \/ WorkerAcquire(c)
    \/ WorkerCancelled(c)
    \/ WorkerDelayElapsed(c)
    \/ ObserveTake(c)
    \/ ObserveMissing(c)
    \/ ObserveFeed(c)
    \/ WorkerRelease(c)
    \/ WorkerExit(c)

StopStep(s) ==
    \/ StopAgain(s)
    \/ StopMark(s)
    \/ StopCancel(s)
    \/ WaitBegin(s)
    \/ WaitEnd(s)
    \/ StopReturn(s)
    \/ StopTimeout(s)

\* Everything that was called has returned, or the process is gone.  Any
\* other state without a successor is a deadlock of the engine.
Finished ==
    /\ \/ crashed
       \/ /\ \A c \in Calls : call[c] \in {"refused", "returned"} /\ worker[c] \notin Alive
          /\ \A s \in AllStoppers : /\ stop[s] \in {"noop", "returned", "timedout"}
                                   /\ wait[s] \in {"none", "done"}
          /\ second = MaxSecond
    /\ UNCHANGED vars

Next ==
    \/ Tick
    \/ \E c \in Calls : CallStep(c)
    \/ \E c \in Calls : WorkerStep(c)
    \/ \E s \in AllStoppers : StopStep(s)
    \/ Finished

Spec == Init /\ [][Next]_vars

(***************************************************************************)
(* Go runs every goroutine that is ready, timers fire, and a parked sender *)
(* on a channel is served first-come first-served: each started goroutine  *)
(* keeps moving.  Nobody is obliged to call NotifyTaskStart or Stop.       *)
(***************************************************************************)
Fairness ==
    /\ \A c \in Calls :
          /\ WF_vars(NotifySpawn(c))
          /\ WF_vars(WorkerStep(c))
    /\ \A s \in AllStoppers :
          WF_vars(StopCancel(s) \/ WaitBegin(s) \/ WaitEnd(s) \/ StopReturn(s))

FairSpec == Spec /\ Fairness
-----------------------------------------------------------------------------
(* Properties.                                                             *)

\* Every variable keeps its range: in particular the counters stay
\* non-negative and a filed or held pendingTask is an accepted call's.
TypeOK ==
    /\ second \in 0..MaxSecond
    /\ taskCounter \in Nat
    /\ pendingTasks \in [TaskIds -> Calls \cup {NoCall}]
    /\ stopped \in BOOLEAN
    /\ cancelled \in BOOLEAN
    /\ slots \in Nat
    /\ wg \in Nat
    /\ call \in [Calls -> {"new", "refused", "registered", "returned"}]
    /\ id \in [Calls -> TaskIds \cup {NoId}]
    /\ worker \in [Calls -> {"none", "done"} \cup Alive]
    /\ held \in [Calls -> Calls \cup {NoCall}]
    /\ observed \in [Calls -> Nat]
    /\ stop \in [AllStoppers -> {"new", "noop", "marked", "waiting", "returned", "timedout"}]
    /\ wait \in [AllStoppers -> {"none", "blocked", "woken", "done", "panicked"}]
    /\ crashed \in BOOLEAN
    /\ late \subseteq Calls

\* len(workerSem) is the number of workers inside their slot and never more
\* than the configured maximum, and the WaitGroup counts exactly the live
\* goroutines, on every path out of the two selects.
Accounting ==
    /\ slots = Cardinality(HoldingWorkers)
    /\ slots <= MaxWorkers
    /\ wg = Cardinality(LiveWorkers)

\* No notification is fed to the model twice, even when two workers carry the
\* same task ID: observe deletes the entry in the critical section that
\* finds it.
AtMostOnce == \A c \in Calls : observed[c] <= 1

Accepted(c) == call[c] \in {"registered", "returned"}

\* Another accepted call computed the same task ID: same task, same second,
\* counters congruent modulo IdModulus.
Collides(c) == \E d \in Calls \ {c} : id[d] = id[c]

\* While the engine runs, an accepted notification that is neither filed, nor
\* in a worker's hands, nor observed was overwritten by one with the same
\* task ID: nothing else in the engine loses a notification.
LostOnlyByCollision ==
    ~stopped =>
        \A c \in Calls :
            /\ Accepted(c)
            /\ observed[c] = 0
            /\ pendingTasks[id[c]] # c
            /\ \A w \in Calls : held[w] # c
            => Collides(c)

\* Every filed pendingTask still has its own goroutine ahead of it, so the
\* map that PendingCount reports cannot keep an entry nobody will collect.
PendingIsServed ==
    \A i \in TaskIds :
        LET c == pendingTasks[i]
        IN  c # NoCall =>
              /\ id[c] = i
              /\ call[c] = "registered" \/ worker[c] \in {"acquire", "delay", "observe"}

\* A worker alive after wg.Wait has returned, or a WaitGroup panic, comes from
\* a handler that was between e.mu.Unlock and wg.Add when Stop took the mutex:
\* with the handlers drained first, Stop leaves nothing running.
OnlyLateCallsOutliveStop ==
    /\ \A s \in AllStoppers : wait[s] = "done" => LiveWorkers \subseteq late
    /\ crashed => late # {}

\* Once Stop has returned nothing is fed to the model any more, not even by a
\* worker that was started after it returned.
FrozenAfterStop ==
    [][(\E s \in AllStoppers : stop[s] = "returned") => UNCHANGED observed]_vars

\* Another one has taken c's place in the map.
Displaced(c) ==
    /\ id[c] # NoId
    /\ Collides(c)
    /\ pendingTasks[id[c]] # c
    /\ \A w \in Calls : held[w] # c

\* Every accepted notification is eventually fed to the model, unless the engine
\* is stopped or the notification was displaced by one with the same task ID,
\* which has to be fed in its turn.
EveryNotificationMeasured ==
    \A c \in Calls :
        (call[c] = "registered") ~> (observed[c] = 1 \/ stopped \/ Displaced(c))

\* Whoever marks the engine stopped returns and every goroutine ends, or the
\* WaitGroup has panicked: cancellation frees the workers at every wait.
StopReturns ==
    \A s \in AllStoppers :
        (stop[s] = "marked") ~> \/ crashed
                               \/ /\ stop[s] \in {"returned", "timedout"}
                                  /\ LiveWorkers = {}

\* engine.go:232, "Wait for all goroutines to finish": when Stop has returned
\* no worker goroutine is alive.  (The code does not keep this.)
StopWaitsForAll ==
    \A s \in AllStoppers : stop[s] = "returned" => LiveWorkers = {}
-----------------------------------------------------------------------------
(* The engine implements ObservationLedger: a notification is measured     *)
(* while a worker holds its pendingTask, and the ledger is sealed when a   *)
(* Stop has returned.                                                      *)

fate == [c \in Calls |->
    IF \E w \in Calls : held[w] = c THEN "measuring"
    ELSE IF observed[c] > 0 THEN "observed"
    ELSE IF call[c] \in {"new", "refused"} THEN call[c]
    ELSE IF pendingTasks[id[c]] = c THEN "accepted"
    ELSE "lost"]

enginePhase ==
    IF ~stopped THEN "open"
    ELSE IF \E s \in AllStoppers : stop[s] = "returned" THEN "sealed"
    ELSE "closed"

Ledger == INSTANCE ObservationLedger WITH status <- fate, phase <- enginePhase

\* The engine refines the ledger: what each notification may go through, and
\* that nothing changes after Stop has returned.
LedgerSpec == Ledger!Spec
=============================================================================
