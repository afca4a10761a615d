--------------------------- MODULE StatsPipeline ---------------------------
(***************************************************************************)
(* How an observation reaches the store: MovingAverageModel.Observe        *)
(* (internal/learning/moving_average.go) updates the task's state and      *)
(* copies it under the model's mutex, releases the mutex, and only then    *)
(* calls the observer that runStart installed, which calls                 *)
(* Storage.UpdateTaskStats with the copy (internal/cli/start.go).          *)
(* Observations run in the learning engine's workers, so several copies    *)
(* can be on their way at once.                                            *)
(*                                                                         *)
(* The k-th state of a task in one life of the process is identified with  *)
(* its Count; the averages are functions of the same observations and are  *)
(* left out.  The store is SnapshotStore, which Storage implements.        *)
(***************************************************************************)
EXTENDS Integers

CONSTANTS
    Tasks,
    Workers,    \* goroutines of the learning engine
    MaxCount,   \* bound: observations of one task
    NoTask      \* a worker with nothing to measure

ASSUME PipelineAssumption ==
    /\ MaxCount \in Nat
    /\ NoTask \notin Tasks

VARIABLES
    stats,      \* the model: each task's count, 0 when it has no state
    measuring,  \* the task whose impact each worker has taken to measure
    report,     \* the copy each worker is about to hand to the observer
    memory, durable, running,   \* the store (SnapshotStore)
    overtaken   \* history: tasks of which an older copy replaced a newer one

Store == INSTANCE SnapshotStore WITH Stats <- 1..MaxCount, NoStats <- 0

workerVars == <<measuring, report>>
pipelineVars == <<stats, workerVars, memory, durable, running, overtaken>>

Copy(t, n) == [task |-> t, count |-> n]
NoReport == Copy(NoTask, 0)
Idle(w) == measuring[w] = NoTask /\ report[w] = NoReport
AllIdle == \A w \in Workers : Idle(w)

PipelineInit ==
    /\ stats = [t \in Tasks |-> 0]
    /\ measuring = [w \in Workers |-> NoTask]
    /\ report = [w \in Workers |-> NoReport]
    /\ Store!Init
    /\ overtaken = {}

CopyBeforeUpdate(t) == Copy(t, stats[t])
\* The copy is made after the update, in the same critical section.
CopyOf(t) == Copy(t, stats[t] + 1)

ForgetStats(found) == [t \in Tasks |-> 0]
\* runStart hands everything the store loaded to the model's LoadStats.
LoadStats(found) == found

\* A worker has taken a pending task and is about to feed it to the model.
Take(w, t) ==
    /\ running
    /\ Idle(w)
    /\ measuring' = [measuring EXCEPT ![w] = t]
    /\ UNCHANGED <<stats, report, memory, durable, running, overtaken>>

\* Observe, up to the unlock.
Observe(w) ==
    /\ running
    /\ measuring[w] # NoTask
    /\ stats' = [stats EXCEPT ![measuring[w]] = @ + 1]
    /\ report' = [report EXCEPT ![w] = CopyOf(measuring[w])]
    /\ measuring' = [measuring EXCEPT ![w] = NoTask]
    /\ UNCHANGED <<memory, durable, running, overtaken>>

\* A later copy of the task, made by the same process, was applied before r.
Overtaken(r) == r.count < memory[r.task] /\ memory[r.task] <= stats[r.task]

\* The observer, outside the model's mutex.
Report(w) ==
    /\ report[w] # NoReport
    /\ Store!Put(report[w].task, report[w].count)
    /\ overtaken' = IF Overtaken(report[w]) THEN overtaken \cup {report[w].task} ELSE overtaken
    /\ report' = [report EXCEPT ![w] = NoReport]
    /\ UNCHANGED <<stats, measuring>>
=============================================================================
