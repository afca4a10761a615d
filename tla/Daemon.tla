------------------------------- MODULE Daemon -------------------------------
(***************************************************************************)
(* The life of the daemon (runStart in internal/cli/start.go): the store   *)
(* is loaded, the model is filled from it, observations flow while the     *)
(* server runs, and a signal starts the shutdown goroutine, which stops    *)
(* the server, the store, the learning engine and the aggregator in this   *)
(* order.  Main returns as soon as the server is told to shut down, and    *)
(* the process ends with main.                                             *)
(***************************************************************************)
EXTENDS StatsPipeline, FiniteSets

\* The learning engine bounds its workers.
ASSUME DaemonAssumption == IsFiniteSet(Workers)

VARIABLES
    main,       \* "down", "serving", "leaving" (srv.Start has returned)
    shut,       \* the shutdown goroutine: "idle", "server", "store", "engine",
                \* "workers", "done"
    flushing,   \* the flush loop runs
    saved,      \* store.Stop has returned without error
    accepting,  \* the learning engine is not stopped
    unread,     \* history: this process could not open an existing data file
    lateTasks   \* history: tasks reported after the final save

lifeVars == <<main, shut, flushing, saved, accepting, unread, lateTasks>>
vars == <<pipelineVars, lifeVars>>

Init ==
    /\ PipelineInit
    /\ main = "down" /\ shut = "idle"
    /\ flushing = FALSE /\ saved = FALSE /\ accepting = FALSE
    /\ unread = FALSE /\ lateTasks = {}

NotPersisted == durable
\* Whatever the dirty flag says, store.Stop saves.
FinalSnapshot == memory

NobodyWaits == FALSE
\* le.Stop waits until no worker measures or reports.
WorkersGone == AllIdle
-----------------------------------------------------------------------------
(* Start and end of the process.                                           *)

Boot(found) ==
    /\ main = "down"
    /\ Store!Begin(found)
    /\ stats' = LoadStats(found)
    /\ overtaken' = {}
    /\ main' = "serving" /\ shut' = "idle"
    /\ flushing' = TRUE /\ saved' = FALSE /\ accepting' = TRUE
    /\ unread' = (found # durable) /\ lateTasks' = {}
    /\ UNCHANGED workerVars

\* srv.Start returns: http.ErrServerClosed at once when Shutdown is called,
\* or a failure of the listener.  The deferred cancel() asks the flush loop to
\* end, but a tick that is due, or a save under way, may still come through.
MainLeaves ==
    /\ main = "serving"
    /\ main' = "leaving"
    /\ UNCHANGED <<pipelineVars, shut, flushing, saved, accepting, unread, lateTasks>>

ServerClosed == shut # "idle" /\ MainLeaves
ServeFails == shut = "idle" /\ MainLeaves

\* Main has returned, or the process is killed: every goroutine is gone.
End ==
    /\ main # "down"
    /\ Store!End
    /\ main' = "down" /\ shut' = "idle"
    /\ flushing' = FALSE /\ saved' = FALSE /\ accepting' = FALSE
    /\ stats' = [t \in Tasks |-> 0]
    /\ measuring' = [w \in Workers |-> NoTask]
    /\ report' = [w \in Workers |-> NoReport]
    /\ UNCHANGED <<overtaken, unread, lateTasks>>

Exit == main = "leaving" /\ End
Killed == main = "serving" /\ End
-----------------------------------------------------------------------------
(* Workers and the flush loop.                                             *)

Promised(t) ==
    stats[t] + Cardinality({w \in Workers : measuring[w] = t})

WorkerTakes(w, t) ==
    /\ accepting
    /\ Promised(t) < MaxCount
    /\ Take(w, t)
    /\ UNCHANGED lifeVars

WorkerObserves(w) ==
    /\ Observe(w)
    /\ UNCHANGED lifeVars

WorkerReports(w) ==
    /\ Report(w)
    /\ lateTasks' = IF saved THEN lateTasks \cup {report[w].task} ELSE lateTasks
    /\ UNCHANGED <<main, shut, flushing, saved, accepting, unread>>

Flush ==
    /\ flushing
    /\ Store!Persist
    /\ UNCHANGED <<stats, workerVars, overtaken, lifeVars>>
-----------------------------------------------------------------------------
(* The shutdown goroutine.                                                 *)

Signal ==
    /\ main = "serving"
    /\ shut = "idle"
    /\ shut' = "server"
    /\ UNCHANGED <<pipelineVars, main, flushing, saved, accepting, unread, lateTasks>>

\* srv.Shutdown returns when the handlers have, or at its timeout.
ServerStopped ==
    /\ shut = "server"
    /\ shut' = "store"
    /\ UNCHANGED <<pipelineVars, main, flushing, saved, accepting, unread, lateTasks>>

StopStore ==
    /\ shut = "store"
    /\ durable' = FinalSnapshot
    /\ flushing' = FALSE /\ saved' = TRUE
    /\ shut' = "engine"
    /\ UNCHANGED <<stats, workerVars, memory, running, overtaken>>
    /\ UNCHANGED <<main, accepting, unread, lateTasks>>

\* The error of store.Stop is logged; the shutdown goes on.
StopStoreFails ==
    /\ shut = "store"
    /\ flushing' = FALSE
    /\ shut' = "engine"
    /\ UNCHANGED <<pipelineVars, main, saved, accepting, unread, lateTasks>>

StopEngine ==
    /\ shut = "engine"
    /\ accepting' = FALSE
    /\ shut' = "workers"
    /\ UNCHANGED <<pipelineVars, main, flushing, saved, unread, lateTasks>>

EngineStopped ==
    /\ shut = "workers"
    /\ WorkersGone
    /\ shut' = "done"
    /\ UNCHANGED <<pipelineVars, main, flushing, saved, accepting, unread, lateTasks>>
-----------------------------------------------------------------------------
Next ==
    \/ \E found \in {durable, Store!Nothing} : Boot(found)
    \/ ServerClosed \/ ServeFails \/ Exit \/ Killed
    \/ \E w \in Workers, t \in Tasks : WorkerTakes(w, t)
    \/ \E w \in Workers : WorkerObserves(w) \/ WorkerReports(w)
    \/ Flush
    \/ Signal \/ ServerStopped \/ StopStore \/ StopStoreFails \/ StopEngine \/ EngineStopped

Spec == Init /\ [][Next]_vars

(***************************************************************************)
(* Goroutines that can run do, and srv.Shutdown returns at its timeout at  *)
(* the latest.  Main is left out on purpose: what the shutdown goroutine   *)
(* achieves must not rest on the process dying under it.                   *)
(***************************************************************************)
Fairness ==
    /\ \A w \in Workers : WF_vars(WorkerObserves(w) \/ WorkerReports(w))
    /\ WF_vars(ServerStopped \/ StopStore \/ StopEngine \/ EngineStopped)

FairSpec == Spec /\ Fairness
-----------------------------------------------------------------------------
(* Properties.                                                             *)

\* Every variable keeps its range: counts stay within the bound, and what is
\* on its way to the store is a copy of some task.
TypeOK ==
    /\ stats \in [Tasks -> 0..MaxCount]
    /\ measuring \in [Workers -> Tasks \cup {NoTask}]
    /\ report \in [Workers -> [task : Tasks, count : 1..MaxCount] \cup {NoReport}]
    /\ memory \in Store!Snapshots /\ durable \in Store!Snapshots
    /\ running = (main # "down")
    /\ overtaken \subseteq Tasks /\ lateTasks \subseteq Tasks
    /\ main \in {"down", "serving", "leaving"}
    /\ shut \in {"idle", "server", "store", "engine", "workers", "done"}
    /\ flushing \in BOOLEAN /\ saved \in BOOLEAN /\ accepting \in BOOLEAN
    /\ unread \in BOOLEAN

\* The newest statistics of each task are in the store or on their way to it,
\* unless an older copy was applied after a newer one: nothing else makes the
\* store disagree with the model.
NewestStatsKept ==
    \A t \in Tasks \ overtaken :
        memory[t] = stats[t] \/ \E w \in Workers : report[w] = Copy(t, stats[t])

\* The data file never goes back to an older count of a task, across flushes,
\* shutdowns, crashes and restarts, except after an overtaken report or after
\* a start that could not open the file.
DiskNeverRegresses ==
    [][\A t \in Tasks \ overtaken : durable'[t] >= durable[t] \/ unread]_vars

\* When the shutdown goroutine gets to its end and the final save succeeded,
\* the disk holds everything the model learned, except the tasks reported
\* after that save (the engine is stopped after the store) or overtaken.
CompletedShutdownKeepsAll ==
    (shut = "done" /\ saved) => \A t \in Tasks \ (lateTasks \cup overtaken) : durable[t] = stats[t]

\* A shutdown that is begun gets to its end unless the process is gone: workers
\* that report to a stopped store do not hold up le.Stop.
ShutdownCompletes == (shut = "server") ~> (shut = "done" \/ main = "down")

\* start.go:177, "Stop storage (saves final state)": when main returns after a
\* signal, the disk holds the store's memory, unless the data file could not
\* be opened at the start.  (The code does not keep this.)
SignalledExitSaves ==
    [][(shut # "idle" /\ main = "leaving" /\ main' = "down" /\ ~unread) => durable = memory]_vars

\* configuration.md:193, "Learned task statistics are persisted": when no
\* report is on its way, the store has what the model learned.  (The code does
\* not keep this.)
StoreMatchesModel == AllIdle => memory = stats
=============================================================================
