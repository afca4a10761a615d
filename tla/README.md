# capfox in TLA+

capfox is a daemon that answers "is there room for this task?" from readings of
the machine, and learns what each kind of task costs by reading the machine
again some time after a task was announced. This directory holds TLA+ modules
for the parts of it in which goroutines, failures and restarts meet, TLC
configurations that check them on small instances, and TLAPS proofs of the
properties that matter most. `PROJECT.json` maps every definition to the lines
it models. Paths below are relative to the repository.

## The system

| component (internal/) | state | operations | interacts with |
|---|---|---|---|
| learning/engine.go | pending tasks by ID, counter, semaphore, WaitGroup, context, stopped flag | NotifyTaskStart, worker goroutines, observe, Stop, StopWithTimeout | called by HTTP handlers and the shutdown goroutine; reads the aggregator; feeds the model |
| learning/moving_average.go | averages and count per task, observer | Observe, Predict, LoadStats, SetObserver | fed by the engine's workers; calls the observer, which updates the storage |
| storage/storage.go | statistics in memory, dirty flag, data file | Load, Start, flush loop, Save, UpdateTaskStats, Stop | filled by the observer; read once at start |
| cli/start.go | main, the signal goroutines, PID file | runStart: start-up, SIGHUP reload, shutdown | wires everything |
| monitor/ | latest system state, ready flag | Start, runLoop, collect, InjectMetrics, GetState, Stop | probes; read by capacity, engine, handlers |
| capacity/ | thresholds | Ask, Check, UpdateThresholds | reads the aggregator |
| decision/ (manager, strategy, model) | thresholds, pending list, strategy, regression or averages per task | Decide, Add/RemovePendingTask, UpdateThresholds, Observe, Predict, Confidence | reads the aggregator and the model; called by the handler of /v2/ask |
| decision/scheduler | retrain loop and its channels | Start, Stop, ForceRetrain | retrains a model |
| learning/adapter.go | none | Observe, GetTaskStats | feeds a decision model, reports to an observer |
| storage/model_storage.go | model file | SaveModel, LoadModel, DeleteModel | a decision model |
| server/ | routes, auth settings, config | handlers, ReloadConfig, Start, Shutdown | calls all of the above |
| server/middleware/ | token buckets per client, auth settings | RateLimit, PerIPRateLimit, Auth, ... | wraps the handlers |
| config/ | none | Load, LoadOrDefault, Validate | start-up and SIGHUP |
| cli/ (run, ask, notify, stop, reload, ...), tui/ | none | one request each; run executes a command | HTTP |

What is hard, and what makes each part correct:

* **engine**: the mutex covers only the bookkeeping; goroutine start, semaphore,
  timer, impact computation and WaitGroup are outside it. No notification may be
  counted twice or lost silently, no slot may leak, Stop must end and nothing may
  be learned after it.
* **model, observer, storage**: an observation passes three locks, none held
  across two of them. The file must always be one whole snapshot, the dirty flag
  honest, the final save complete.
* **daemon**: shutdown order, main returning while the shutdown goroutine works,
  crashes. What was learned should be found again.
* **scheduler**: channels kept in fields that another call replaces.
* **aggregator**: a state is computed outside the lock and stored later, over
  what a debug request injected. No reading may replace a later reading.
* **reload, requests**: settings are replaced one at a time, from a channel of one
  place, while requests are half-way through the middleware. No signal may be
  lost, no verdict mix two moments, no debug request pass unauthenticated.
* **decision engine**: a decision is put together from a prediction and a
  confidence asked for at different moments; floating-point updates, boundaries,
  clamping, the sign of a delta. No nil prediction may be followed, no
  observation make a model less sure, no cautious strategy be bolder than a
  plain one.

## Modules

| module | models | kind |
|---|---|---|
| `ObservationLedger` | what becomes of a notification | abstract specification |
| `LearningEngine` | learning/engine.go | detailed; implements `ObservationLedger` |
| `LearningEngineProofs` | | TLAPS proofs about `LearningEngine` |
| `LearningLedgerProofs` | | TLAPS proofs about its losses, stops and refinement |
| `SnapshotStore` | what the data file promises | abstract specification |
| `Storage` | storage/storage.go | detailed; implements `SnapshotStore` |
| `StorageProofs` | | TLAPS proofs about `Storage` |
| `StatsPipeline` | learning/moving_average.go Observe and the observer | component of `Daemon` |
| `Daemon` | cli/start.go over `StatsPipeline` and `SnapshotStore` | composition |
| `DaemonProofs` | | TLAPS proofs about `Daemon` |
| `Scheduler` | decision/scheduler/scheduler.go | detailed |
| `SchedulerProofs` | | TLAPS proofs about `Scheduler` |
| `Config` | config/: what Validate accepts, Load and LoadOrDefault return | operators |
| `Thresholds` | capacity/thresholds.go Check | operators |
| `Aggregator` | monitor/aggregator.go | component of `Server` |
| `Server` | server/, middleware/, capacity/, the SIGHUP goroutine of cli/start.go, cli/run.go, over `Aggregator`, `Config`, `Thresholds` | composition |
| `ServerProofs` | | TLAPS proofs about `Server` |
| `PredictionModels` | decision/model/ and the files of its models | operators |
| `Strategies` | decision/strategy/ | operators |
| `DecisionEngine` | decision/manager.go, learning/adapter.go, storage/model_storage.go, over `Strategies` and `PredictionModels` | composition |
| `SumProofs` | | lemmas about sums over finite functions |
| `DecisionEngineProofs` | | TLAPS proofs about `DecisionEngine` |
| `MC...` | | instances for TLC |

Most modules have a section "The decisions of the code": one-line operators for
a guard or a choice, and before each a variant with a slip. The variants are used
by nothing; replacing the operator by its variant is how the properties are shown
to notice a bug of that kind.

### LearningEngine

One handler per element of `Calls`. `NotifyRegister` is NotifyTaskStart under the
mutex, `NotifySpawn` is `wg.Add` and `go` after it. A worker goes through
`acquire` (first select), `delay` (second select), `observe` (lookup and delete
under the mutex), `feed` (impact and `model.Observe`, no mutex), `release`
(deferred receive from the semaphore) and `exit` (deferred `wg.Done`). A select
with both cases ready may take either. Stop is `StopMark` (mutex), `StopCancel`,
`WaitBegin`/`WaitEnd` (`wg.Wait`, including the panic of a waiter woken to a
counter that is no longer zero), `StopReturn`; StopWithTimeout adds `StopTimeout`
and leaves its waiting goroutine behind. A task ID is (task, second, counter
modulo `IdModulus`), as in the code, where the modulus is 1000.

Abstracted: the impact value, the complexity, log lines. `aggregator.GetState`
never returns nil, so the "missing state" return of observe cannot be taken.

### Storage

`saveLocked` runs under the mutex, so inside the process it is one critical
section; create, encode-and-close and rename are separate steps because each can
fail (`SaveFault`) and the process can die between them (`ProcessEnds`, which
leaves only the two files). A file is a whole snapshot, missing, undecodable, a
document without `task_stats`, or of a later version; every initial file is
tried. `LoadUnreadable` is the error that runStart logs and ignores. Later
callers of Stop wait inside `stopOnce.Do`.

### StatsPipeline and Daemon

The k-th state of a task is identified with its count, since only which copy is
newer matters. `Observe` is the critical section that updates and copies,
`Report` the observer call after it. `Daemon` runs the start-up as one step
(nothing else runs yet), then workers, flush loop, main and the shutdown
goroutine interleave. `srv.Start` returns the moment Shutdown is called, main
leaves, and `Exit` takes every goroutine along. The storage appears as
`SnapshotStore`, which the storage run shows it implements.

### Scheduler

`deferred` and `selecting` are the channels that run's `defer` and `select`
evaluate, at the moment they do. Start makes channel number `starts + 1`. A
closed channel closed again sets `panicked`, after which nothing moves.

### Config, Thresholds, Aggregator and Server

A configuration file is missing, broken, or sets some fields; `LoadOrDefault` is
the operator that both the start and the reload use. `Check` is the comparison of
a reading with the thresholds, GPUs in order.

The aggregator's goroutine takes a reading in two steps, `Collect` without the
mutex and `Store` under it. A state carries the time it was begun, so that its
age can be compared. A failing monitor leaves its part of the state at zero.

`Server` follows a request through the chain of `server.New`: the rate limiter
(a choice, whenever it is configured), Auth on a snapshot of the settings, the
mux, DebugAuth on another snapshot, the handler. An Ask holds the manager's
read lock from `AskRead` to `AskCheck`. The reload goroutine takes a signal,
loads, and replaces one setting after the other: the authentication, the
thresholds (asking for the manager's lock, then, once no Ask holds it, under it),
the configuration. `capfox run` is a client that asks, perhaps
notifies, and executes or not; when no verdict can be had it executes, which
run.go:94 intends. `fits` is history: what the verdict would have been at the
moment of the read.

The process lives until its loops have returned; that it may die earlier, and
what is then saved, is in `Daemon`. The GPU monitor's Close is a stub, so that
Stop closes the monitors without waiting for a collect has no effect today. A
SIGHUP after `signal.Stop` kills the process, which is `Daemon`'s `Killed`.

### PredictionModels, Strategies and DecisionEngine

A model is a value with a kind, a parameter and the data of each task. Numbers
are scaled: impacts and predictions in 1/3000 percent, complexities in twelfths,
so that the means of the runs are exact, which `ScaleAssumption` states and TLC
checks; a confidence is kept as its sign and its rank among the confidences of its
kind, which is all that the strategies and the properties read of it. JSON written by one kind of model and read by another
decodes, with counts and nothing else (`Foreign`).

`Strategies` has the four Decide functions over a context, the factory and its
fallbacks. A fallback of another known type than threshold is created with a
fallback of its own type, without end (factory.go:65); `Starts` leaves such
configurations out.

In `DecisionEngine` a decision is `Ask` (the lists are copied), `BuildContext`
(reading and prediction), `AskConfidence` and `Conclude`, each under a lock of
its own. `Conclude` asks for the predictions of all pending tasks in one step; the
code asks for one after the other, which is the same with at most one pending task
(`MaxPending`), as in the runs. The adapter's Observe is `ObserveFeed` and
`ObserveReport`, between which others may observe and models be loaded: `told` is how
many observations of its task the observer knows the model to have, from the
history of whatever model is in force. Models are
saved, deleted, loaded and lost in restarts, at any time. SaveModel is one step:
its temporary file is seen by nobody. The daemon does not create these parts
(start.go never calls SetDecisionComponents, and /v2/ask answers 503): they are
modelled from their own code, composed as handleAskV2 composes them, with
somebody who adds pending tasks.

## Runs

| run | instance | shows |
|---|---|---|
| engine_safety | 3 calls, 1 slot, modulus 2, 2 seconds, Stop and StopWithTimeout, calls symmetric | types; semaphore and WaitGroup accounting; at most one observation; loss only by an ID collision; no orphaned entry; only late handlers outlive Stop; nothing learned after Stop; implements the ledger |
| engine_liveness | 2 calls, modulus 1 | every notification is measured, displaced or dropped by Stop, and whoever displaces one is measured in its place; Stop ends |
| engine_late_worker | 2 calls | violated: "Wait for all goroutines to finish" |
| storage | 2 tasks, 2 values, 2 stoppers, 1 fault | clean means saved; Stop is final and complete; nothing forgotten unless the file could not be opened; implements `SnapshotStore`; dirty data is saved, Stop returns |
| daemon | 2 tasks, 2 workers, 3 observations a task | newest statistics kept unless overtaken; the file never goes back to an older count unless overtaken; a completed shutdown keeps all but late reports; a shutdown completes |
| daemon_stale_report | 1 task | violated: the store has what the model learned |
| daemon_early_exit | 1 task | violated: "Stop storage (saves final state)" |
| scheduler | 2 callers, 3 Starts | running means a loop exists; without overlap one loop, no double close, Stop waits and returns |
| scheduler_overlap | 2 callers, 3 Starts | violated: "Stop stops the scheduler and waits for it to finish" |
| server | 1 client with 6 commands, 3 files, 2 clock values | valid settings; no reload lost; verdicts of one moment; debug endpoints closed; only an injection is overwritten by an older reading; signals take effect |
| reload_invalid | no clients | violated: "validates the new config before applying" |
| decision | 1 decider, 2 observers (symmetric), 1 task, 3 combinations of model and strategy, a file of an earlier process, of either kind | types and percentages; Welford's method is least squares; confidence never falls; no nil prediction followed; strategies ordered by caution; a report counts the observation it reports, and all that its observer could know of, across the feeds of another and loads |

**Bounds.** Three calls with one slot give a worker inside its slot, one waiting
for it and a handler not yet registered; modulus 2 lets the first and the third
collide within a second and not across seconds. In the liveness run modulus 1
makes every pair of one second collide. Two stoppers cover "second Stop while the
first waits". One fault reaches each error return of saveLocked, once in the
flush loop or once in Stop, and the failing open. Two workers are what it takes
to overtake a report, and three observations let an overtaken task be observed
again. Three Starts let two goroutines meet the channels of a third.
In the server one client is enough: requests share nothing but the settings and
the aggregator's state, and what they race with is the reload and the collect.
The clock (`MaxTime`) allows an injection between the start of a collect and its
end. The three files differ in everything a reload replaces, and `Edits` leads
from a guarded one to an invalid one and back. In the decision run a linear model
learns three observations of two complexities, which is what the covariance
needs (the theorem has no such bound: see Proofs), and a moving average may start
at 25 observations in a file, half-way to where fastExp turns (`MaxPoints`, `MaxMore`). One pending task (`MaxPending`)
stands for the queue; it has no prediction of its own, so that the model is asked.
`LoadBound`: of the files of a kind that is not the model's only old ones are
loaded; there is an old moving average and an old linear file, each of which is
loaded into a model of the other kind, too. Two observers are what it takes for an
observation to come between the feed and the report of another; nothing but the
name differs between them, so they are symmetric. The reading has one GPU of
unknown memory and a disk below its limit.

**Deadlock** is checked except in the scheduler runs: there nobody has to call
anything, and after `MaxStarts` all may be idle. The server's clients and the
decision engine's callers can always do something more. In the engine the stuttering
step `Finished` marks the legitimate end.

**Fairness.** Goroutines that can run do, and timers fire: weak fairness on the
steps of each goroutine. Nobody is obliged to notify, stop, signal, start or
cancel, and no process is obliged to end. In the storage the saver needs strong
fairness for the mutex, which sync.RWMutex gives by handing it to a blocked
writer; the ticker recurs, and a select that finds ticker and context ready picks
at random, so the flush loop's and the scheduler's exits are strongly fair. In
the daemon, main's exit is not fair: the shutdown has to complete on its own.
In the server, handlers, collects and the reload goroutine are weakly fair, and
so is the end of the shutdown, which has a timeout; the aggregator's loop may
find a tick each time it selects, so its end is strongly fair.

**Disagreements between code and text.** Each violated property states what a
comment or a document says:

| run | text | code |
|---|---|---|
| engine_late_worker | engine.go:232 | `wg.Add` comes after the unlock (line 104) |
| daemon_stale_report | configuration.md:193 | the observer is called outside the lock (learning/moving_average.go:79) |
| daemon_early_exit | start.go:177 | main does not wait for the shutdown goroutine (line 191) |
| scheduler_overlap | scheduler.go:64 | doneCh is read after the unlock (line 75) |
| reload_invalid | cli-commands.md:281 | LoadOrDefault hides every error from the reload (start.go:146) |

`LearningEngine`, `Daemon` and `Scheduler` keep history variables (`late`,
`overtaken`, `overlapped`, ...) so that the passing runs say what holds when the
disagreement does not strike.

Six more disagreements can be read off the modules. They have no run of their
own: a violated property would show no more than the line does. Each is a hazard in
`PROJECT.json` without a property, and the passing property named here exempts
exactly that case, so that it shows the code right in every other.

| code | text | exempting property |
|---|---|---|
| a second Stop returns at once (engine.go:218) | "waiting for pending observations" (engine.go:215) | `OnlyLateCallsOutliveStop`, `FrozenAfterStop`: stoppers that waited |
| a file that cannot be opened is an error that is logged, and the next save replaces the file (storage.go:83) | "persisted to disk and restored on restart" (configuration.md:193) | `ForgetsOnlyUnreadable`: `unread` |
| a loop that ends with its context leaves `running` true (scheduler.go:87) | "whether the scheduler is running" (scheduler.go:172) | `RunningHasLoop`: the context has ended |
| collect sets `ready` whatever failed (aggregator.go:223) | "true after first successful collection" (aggregator.go:21) | none speaks of `ready` |
| fastExp grows again beyond 50 observations (model/moving_average.go:222) | "increases with more observations" (line 106) | `ConfidenceNeverFalls`: counts beyond 50 |
| the buffer also enlarges negative impacts (conservative.go:84) | "more cautious than PredictiveStrategy" (conservative.go:9) | `CautionOrder`: negative impacts |

## Proofs

`LearningEngineProofs` proves, for any number of calls, tasks, slots, stoppers,
any modulus and any clock bound (`EngineAssumption`: finitely many calls, positive
capacity and modulus, distinct null values):

* `TypeCorrect`: `Spec => []TypeOK`
* `WorkersAccounted`: `Spec => []Accounting`
* `NoDoubleObservation`: `Spec => []AtMostOnce`
* `NoOrphanedTask`: `Spec => []PendingIsServed`

None is inductive alone. The invariant `IInv` adds three things. *Progress*: a call
has an ID once it is accepted, a goroutine once it has returned, a held task only
in `feed`. *OnePlace*: a notification is in at most one of the map, a
worker's hands and the set of observed ones, and in at most one worker's hands;
this is what makes `AtMostOnce` survive two workers with the same ID. *StopDrops*:
the map is empty once the engine is stopped. Accounting rests on lemmas about how the set of
workers inside a slot, and of live ones, changes in size when one worker moves
(`SizeAfterMove`, `WorkerCounts`, from the library's facts on cardinality). Each
conjunct has a step lemma, with one case per action; `Invariance` puts them
together and the theorems follow by PTL.

`LearningLedgerProofs` goes on from there, under the same assumption:

* `LossIsCollision`: `Spec => []LostOnlyByCollision`
* `StopOutlivedByLateCalls`: `Spec => []OnlyLateCallsOutliveStop`
* `StopFreezesModel`: `Spec => FrozenAfterStop`, an action property
* `ImplementsLedger`: `Spec => LedgerSpec`

`LossStep` follows the two ways out of the map: a worker takes the entry and holds
it, or a registration with the same ID replaces it, and then the two calls
collide. For the rest, `LInv` adds *StopDrains*: once a stop's wait is over, or its
waiter has been woken, only late calls have a live goroutine and none of them is
about to feed. It holds because the counter that woke the waiter was zero
(`Accounting`), and because a goroutine that comes later finds the map empty
(`StopDrops`). In the refinement a notification is accepted while it is in the map,
being measured while a worker holds it, and lost once it is in neither and was not
observed; the engine is sealed when the first Stop returns. `NotifyRegister` is
Accept or Refuse (displacing the entry of the same ID, if there is one),
taking from the map is Measure, feeding is Observe, `StopMark` is Close, the
return of a Stop is Seal, and everything else stutters.

`StorageProofs` proves, for any tasks, values, stoppers and number of faults
(`StorageAssumption`):

* `CleanIsSaved`: `Spec => []CleanMeansSaved`
* `ImplementsStore`: `Spec => SnapshotSpec`

The invariant `SInv` adds to `CleanMeansSaved` that a save, the flush loop and
Stop exist only in a started process (`SavesWhenStarted`), that the temporary
file holds what memory holds from the end of the encoding to the rename
(`TempIsCurrent`, where the mutex matters), and that a process has no data before
it loads (`EmptyBeforeLoad`). Under it the rename is the abstract `Persist`, Load
is `Begin`, the end of a process is `End` or, before Load, nothing; every other
step but an update leaves the abstract state alone.

On what Stop leaves behind the same module proves:

* `StorageTypeCorrect`: `Spec => []TypeOK`
* `StopEndsWriting`: `Spec => StopIsFinal`, an action property
* `SuccessMeansSaved`: `Spec => FinalSaveIsComplete`, an action property
* `NoTaskForgotten`: `Spec => ForgetsOnlyUnreadable`, an action property

`StopInv` says that whoever saves called Save and has not returned from it
(`SaverWaits`), that Stop saves after the flush loop's end and its callers return
after that save (`StopOrder`), and that every task in the file is in memory once
the file was read (`NothingForgotten`). All three theorems rest on
`OnlyRenameWrites`: the rename is the only step that changes the data file, and
makes it what memory is. After a returned Stop nobody is left to take that step.

`DaemonProofs` proves, for any tasks, bound on the counts and finite set of workers
(`DaemonAssumption`):

* `DaemonTypeCorrect`: `Spec => []TypeOK`
* `StoreHasNewest`: `Spec => []NewestStatsKept`
* `ShutdownKeepsAll`: `Spec => []CompletedShutdownKeepsAll`
* `DiskIsMonotone`: `Spec => DiskNeverRegresses`, an action property

The invariant `DInv` adds four parts. *Bounded*: counts, those that workers are
about to add included, stay within the bound; this needs the number of measuring
workers when one begins or ends. *InOrder*: no copy on its way is newer than the
model, and no memory either, which is what makes "the newest is in the store or on
its way" survive a report. *Stages*: what has ended at each stage of the shutdown.
*DiskIsBehind*: a running process that could read its file has in memory at least
what is on the disk, overtaken tasks excepted, so a flush cannot go back, and after
the final save the two differ in late reports only.

`SchedulerProofs` proves, for any number of callers and Starts
(`SchedulerAssumption`):

* `RunningIsAlive`: `Spec => []RunningHasLoop`
* `OneLoop`: `Spec => []OneLoopUnlessOverlapped`
* `StopWaits`: `Spec => StopWaitsUnlessOverlapped`, an action property
* `SchedulerTypeCorrect`: `Spec => []TypeOK`

Its invariant says how goroutines and channels are numbered (`Numbering`: the
g-th Start made goroutine g, the fields hold the last channels made, a goroutine
that selects reads its own channel or a later one) and, as long as no Start has
overlapped a Stop, that only the last goroutine is alive, closes its own channel
and is what every Stop waits for (`Alone`). For the types, `DeferredIsMade` says that
a goroutine in its loop will close a channel that some Start made.

`ServerProofs` proves, for any clients, commands, machine, configuration files
and edits (`ServerAssumption`):

* `VerdictOfOneMoment`: `Spec => []OneMoment`
* `DebugStaysClosed`: `Spec => []DebugNeverOpen`
* `ReloadIsComplete`: `Spec => []ReloadNotLost`
* `NoReadingGoesBack`: `Spec => BackOnlyOverInjection`, an action property
* `ServerTypeCorrect`: `Spec => []TypeOK`

Its invariant adds to each what is true half-way. *Verdicts*: an Ask that holds
the lock compares with the thresholds of the moment it read; they cannot change
under it (`ThresholdsWait`). *Debugs*: the authentication in force and the one
about to be are those of a file, and a debug request in its handler's hands has
passed DebugAuth. *Reloads*: which settings are already the file's at each step
of the reload, unless another is due. Every step is a request's or leaves the
requests alone (`OtherStepsAreQuiet`, `OneMoves`). A second invariant, *Ages*,
says that what is being built is the one state of the collect under way, and as
young as the served one unless that was injected. A third, `TInv`, says that every
setting in force or about to be comes from a file (`FromFiles`), that no state is of
the future (`Times`) and that a client is idle exactly when it has no command
(`Places`, for which the assumption has that a client's command is one).

`DecisionEngineProofs` proves, for any tasks, integers, configurations, readings
and numbers of goroutines (`DecisionAssumption`: readings are percentages; limits,
impacts, complexities and what a configuration sets are integers; finitely many
observations are on offer; old files are well-formed; and, for the last theorem
only, `ScaleAssumption`):

* `NilIsNeverFollowed`: `Spec => []DecideNeverPanics`
* `LearningIsMonotone`: `Spec => ConfidenceNeverFalls`, an action property
* `Cautious`: `Spec => []CautionOrder`
* `DecisionTypeCorrect`: `Spec => []TypeOK`
* `ReportsAreCurrent`: `Spec => []ReportCoversObservation`
* `WelfordIsExact`: `Spec => []WelfordIsLeastSquares`

The invariant `DInv` says that every model, in memory or in the file, is
well-formed (`IsModel`), in particular that no sum of squares is negative, that the
strategy is a known one, and that what a decision has gathered is a reading,
thresholds in force at some time and a prediction or nil. The heart of
`LearningIsMonotone` is arithmetic: a running mean moves towards the observation
and not beyond it (`QuotientBetween`), so Welford's sum of squares only grows
(`SquaresGrow`). `Cautious` rests on `FutureMonotone`: more impact, clamped, is
never less of a future, and on `ImpactAddsUp`: the pending impacts add up to an
integer, because the pending list and every copy of it stay lists of tasks with
integer impacts (`Queues`; removing the first task of a name keeps them so).

`ReportsAreCurrent` needs *Counts*: the model's count of a task is the number of
observations in the history of that model, those made elsewhere included
(`Tells`), for the model in memory and for the one in the file; and what an observer
was told is covered by the count it will report. A load replaces model and history
together, and tells every observer what the history of the file tells (`ToldBy`),
so that a report made after it must count what the file counts.

`WelfordIsExact` is about two ways to compute a regression: the code's, one
observation at a time from the last mean and moment, and the definition, in one
piece from all observations of the task (`LeastSquares`). The invariant
*Regressions* says of the model in memory and of the one in the file what holds in
between (`Fits`): the count times a mean is the sum of what was observed, and a
moment is the sum of the products less what the means make of it. One step of the
code keeps this (`MeanMoves`, `MomentMoves`, from which `RegressedFits`; the first
observation is `FirstFits`), and data that fit are those of the definition
(`MomentAboutMeans`, `FitIsLeastSquares`). That the task has data exactly when it
has a history of its own is *Counts* again (`OwnIsKnown`). The order of the
observations does not enter, since the history only says how often each was made.

This theorem alone rests on `ScaleAssumption`: the means of up to `MaxPoints`
observations are integers. The code divides floating-point numbers, and the model
scaled integers; for any finitely many observations and any `MaxPoints` there is a
scale at which these divisions leave no remainder (observations that are multiples
of every number up to `MaxPoints`), and the assumption says that the observations
are given at such a scale. What rounding does to the code's numbers is not said.

`SumProofs` has the facts about sums over finite functions that all of these need:
`SumFunctionOnSet` is a fold that removes one element at a time, so that its
equations have to be proved before it can be used (`SumUnfolds`). The library's
induction theorems cannot be cited for this, as they take an operator; the lemmas
argue by the least counterexample instead, a smallest finite set of those that
would violate the claim (`LeastNatural`, `SmallestSet`, from the well-foundedness
of `<` on the naturals). On these rest the lemmas that are cited elsewhere: a sum
moves by what one of its terms moves (`SumMoves`, `TermMoves`), is linear in the
function that is summed (`SumIsLinear`), and bounds its terms when they are natural
numbers (`SumOfNats`).

Only model-checked is liveness: `EveryNotificationMeasured`, the three
`StopReturns`, `DirtyEventuallySaved`, `ShutdownCompletes` and `SignalsTakeEffect`.
Fairness is about ENABLED, which the prover does not handle.

Every other invariant and action property of a passing run is stated by a theorem.

## Not modelled, and why

* Probes, logging, the dashboard, the PID file and the commands that print one
  answer are I/O or display; handlers and methods that only read are left out.
* `PerIPRateLimit` is not wired into the server (server.go:72 uses `RateLimit`,
  which here may refuse whenever it is configured).
* Client time-outs, and clients whose requests overlap, which would share nothing
  more than a client and a reload do.
* `--port` and `--host`, which replace the values of the file after its validation
  (start.go:38-43): no property reads the address.
* The scheduler's counters and ForceRetrain, one locked update each.
* The averages of learning/moving_average.go, of which only the count matters to
  the storage.
* Power loss before the file is synced (saveLocked does not sync).

Other behaviour met on the way is modelled as it is, without a run of its own: the
confidence of a moving average is 0 at 100 observations and negative beyond
(fastExp), where model.go:69 says "(0-1)";
RemovePendingTask removes the first task of a name, whoever added it; loading a
linear model replaces its configured minimum of observations, and a foreign file
gives confident predictions of zero; `capfox run` executes after a 400, 401 or
429; the debug routes are those of the start, whatever is reloaded.

## Plan

1. Proofs: none left among the invariants and action properties; what the folds of
   `Strategies` and `PredictionModels` compute, as lemmas beside `SumProofs`.
2. `Scheduler`: the outcome that is recorded of overlapping retrains.
3. `IPLimiter`: the table with eviction and cleanup, once it is wired.
