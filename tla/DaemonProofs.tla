---------------------------- MODULE DaemonProofs ----------------------------
(***************************************************************************)
(* What holds of the daemon's life for any tasks, any number of workers    *)
(* and any bound on the observations: what the store and the disk have of  *)
(* what the model learned, across reports out of order, failed saves,      *)
(* crashes and restarts.                                                   *)
(***************************************************************************)
EXTENDS Daemon, FiniteSetTheorems, TLAPS

USE PipelineAssumption, DaemonAssumption

\* No task is observed more often than the bound allows, counting those who are
\* about to.
Bounded == \A t \in Tasks : Promised(t) <= MaxCount

\* What a worker has done is on its way or not begun, a copy on its way is not
\* newer than the model, nor is the store.
InOrder ==
    /\ \A w \in Workers :
          /\ measuring[w] # NoTask => report[w] = NoReport
          /\ report[w] # NoReport => report[w].count <= stats[report[w].task]
    /\ \A t \in Tasks : memory[t] <= stats[t]

\* A process that is gone has no workers; the shutdown goroutine belongs to a
\* process, and at its end the engine takes nothing more and nobody works.
Stages ==
    /\ main = "down" => AllIdle /\ shut = "idle" /\ stats = [t \in Tasks |-> 0] /\ memory = stats
    /\ shut \in {"workers", "done"} => ~accepting
    /\ shut = "done" => AllIdle

\* Memory has not fallen behind the disk, unless a report was overtaken or the
\* file could not be opened; after the final save the two differ in late
\* reports only.
DiskIsBehind ==
    /\ main # "down" /\ ~unread => \A t \in Tasks \ overtaken : memory[t] >= durable[t]
    /\ saved => \A t \in Tasks \ lateTasks : durable[t] = memory[t]

DInv == TypeOK /\ Bounded /\ InOrder /\ Stages /\ DiskIsBehind /\ NewestStatsKept
-----------------------------------------------------------------------------
\* How many workers measure a task when one begins or ends.
Measuring(t) == {w \in Workers : measuring[w] = t}

LEMMA MeasuringIsFinite == \A t : IsFiniteSet(Measuring(t)) /\ Cardinality(Measuring(t)) \in Nat
  BY FS_Subset, FS_CardinalityType DEF Measuring, DaemonAssumption

LEMMA OneMoreMeasures ==
    ASSUME NEW t, NEW w \in Workers, measuring \in [Workers -> Tasks \cup {NoTask}],
           measuring[w] # t, measuring' = [measuring EXCEPT ![w] = t]
    PROVE  Cardinality(Measuring(t)') = Cardinality(Measuring(t)) + 1
  <1>1. Measuring(t)' = Measuring(t) \cup {w} /\ w \notin Measuring(t)
    BY DEF Measuring
  <1>2. QED
    BY <1>1, MeasuringIsFinite, FS_AddElement

LEMMA OneLessMeasures ==
    ASSUME NEW t, NEW w \in Workers, measuring \in [Workers -> Tasks \cup {NoTask}],
           measuring[w] = t, t # NoTask, measuring' = [measuring EXCEPT ![w] = NoTask]
    PROVE  Cardinality(Measuring(t)') = Cardinality(Measuring(t)) - 1
  <1>1. Measuring(t)' = Measuring(t) \ {w} /\ w \in Measuring(t)
    BY DEF Measuring
  <1>2. QED
    BY <1>1, MeasuringIsFinite, FS_RemoveElement

LEMMA OthersMeasure ==
    ASSUME NEW t, NEW w \in Workers, NEW u, measuring \in [Workers -> Tasks \cup {NoTask}],
           measuring[w] # t, u # t, measuring' = [measuring EXCEPT ![w] = u]
    PROVE  Measuring(t)' = Measuring(t)
  BY DEF Measuring

LEMMA PromisedIs == \A t : Promised(t) = stats[t] + Cardinality(Measuring(t))
  BY DEF Promised, Measuring

\* With nobody at work the promise is what the model has.
LEMMA IdlePromise ==
    ASSUME AllIdle, NEW t \in Tasks, stats[t] \in Int
    PROVE  Promised(t) = stats[t]
  <1>1. Measuring(t) = {}
    BY DEF AllIdle, Idle, Measuring, PipelineAssumption
  <1>2. QED
    BY <1>1, PromisedIs, FS_EmptySet
LEMMA NothingPromised ==
    ASSUME AllIdle, stats = [t \in Tasks |-> 0]
    PROVE  Bounded
  <1> SUFFICES ASSUME NEW t \in Tasks PROVE Promised(t) <= MaxCount
    BY DEF Bounded
  <1>1. Promised(t) = 0
    BY IdlePromise
  <1>2. QED
    BY <1>1 DEF PipelineAssumption
-----------------------------------------------------------------------------
\* The initial state satisfies the invariant.
LEMMA InitDInv == Init => DInv
  <1> SUFFICES ASSUME Init PROVE DInv
    OBVIOUS
  <1> USE DEF Init, PipelineInit, Store!Init, Store!Nothing, Store!Snapshots, PipelineAssumption
  <1>1. AllIdle
    BY DEF AllIdle, Idle
  <1>2. TypeOK
    <2>1. stats \in [Tasks -> 0..MaxCount]
      OBVIOUS
    <2>2. memory \in Store!Snapshots /\ durable \in Store!Snapshots
      OBVIOUS
    <2>3. QED
      BY <2>1, <2>2 DEF TypeOK
  <1>3. Bounded
    BY <1>1, NothingPromised
  <1>4. InOrder /\ NewestStatsKept
    BY DEF InOrder, NewestStatsKept
  <1>5. Stages /\ DiskIsBehind
    BY <1>1 DEF Stages, DiskIsBehind
  <1>6. QED
    BY <1>2, <1>3, <1>4, <1>5 DEF DInv
-----------------------------------------------------------------------------
(* Every step keeps the invariant.                                         *)

\* A process starts with what it found, in the store and in the model alike.
LEMMA BootKeeps ==
    ASSUME DInv, NEW found \in {durable, Store!Nothing}, Boot(found)
    PROVE  DInv'
  <1>1. /\ main = "down" /\ running = FALSE /\ AllIdle /\ AllIdle' /\ found \in Store!Snapshots
        /\ durable \in Store!Snapshots
    BY DEF DInv, TypeOK, Stages, Boot, Store!Begin, Store!Nothing, Store!Snapshots, AllIdle, Idle,
           workerVars
  <1>2. /\ memory' = found /\ stats' = found /\ durable' = durable /\ running' = TRUE
        /\ overtaken' = {} /\ main' = "serving" /\ shut' = "idle" /\ saved' = FALSE
        /\ flushing' = TRUE /\ accepting' = TRUE
        /\ unread' = (found # durable) /\ lateTasks' = {} /\ UNCHANGED <<measuring, report>>
    BY DEF Boot, Store!Begin, LoadStats, workerVars
  <1>3. \A t \in Tasks : found[t] \in 0..MaxCount
    BY <1>1 DEF Store!Snapshots, PipelineAssumption
  <1>4. found \in [Tasks -> 0..MaxCount]
    BY <1>1 DEF Store!Snapshots, PipelineAssumption
  <1>5. TypeOK'
    BY <1>1, <1>2, <1>4 DEF DInv, TypeOK
  <1>6. Bounded'
    <2>1. \A t \in Tasks : Measuring(t)' = {}
      BY <1>1 DEF AllIdle, Idle, Measuring, PipelineAssumption
    <2>2. \A t \in Tasks : Promised(t)' = stats'[t] + 0
      BY <2>1, FS_EmptySet DEF Promised, Measuring
    <2>3. QED
      BY <1>2, <1>3, <2>2 DEF Bounded, PipelineAssumption
  <1>7. InOrder' /\ NewestStatsKept'
    BY <1>1, <1>2, <1>3 DEF InOrder, NewestStatsKept, AllIdle, Idle, PipelineAssumption
  <1>8. Stages'
    BY <1>2 DEF Stages
  <1>9. DiskIsBehind'
    <2>1. ~unread' => found = durable
      BY <1>2
    <2>2. QED
      BY <1>2, <1>3, <2>1 DEF DiskIsBehind, PipelineAssumption
  <1>10. QED
    BY <1>5, <1>6, <1>7, <1>8, <1>9 DEF DInv

\* Main has returned, or the process is killed.
LEMMA EndKeeps ==
    ASSUME DInv, End
    PROVE  DInv'
  <1>1. /\ memory' = [t \in Tasks |-> 0] /\ durable' = durable /\ running' = FALSE
        /\ main' = "down" /\ shut' = "idle" /\ flushing' = FALSE /\ saved' = FALSE
        /\ accepting' = FALSE /\ stats' = [t \in Tasks |-> 0]
        /\ measuring' = [w \in Workers |-> NoTask] /\ report' = [w \in Workers |-> NoReport]
        /\ UNCHANGED <<overtaken, unread, lateTasks>>
    BY DEF End, Store!End, Store!Nothing
  <1>2. AllIdle'
    BY <1>1 DEF AllIdle, Idle
  <1>3. TypeOK'
    <2>1. stats' \in [Tasks -> 0..MaxCount] /\ memory' \in Store!Snapshots
      BY <1>1 DEF Store!Snapshots, PipelineAssumption
    <2>2. durable' \in Store!Snapshots /\ overtaken' \subseteq Tasks /\ lateTasks' \subseteq Tasks
      BY <1>1 DEF DInv, TypeOK
    <2>3. unread' \in BOOLEAN
      BY <1>1 DEF DInv, TypeOK
    <2>4. QED
      BY <1>1, <2>1, <2>2, <2>3 DEF TypeOK
  <1>4. Bounded'
    <2>1. \A t \in Tasks : Measuring(t)' = {}
      BY <1>1 DEF Measuring, PipelineAssumption
    <2>2. \A t \in Tasks : Promised(t)' = 0
      BY <1>1, <2>1, FS_EmptySet DEF Promised, Measuring
    <2>3. QED
      BY <2>2 DEF Bounded, PipelineAssumption
  <1>5. InOrder' /\ NewestStatsKept' /\ Stages' /\ DiskIsBehind'
    BY <1>1, <1>2 DEF InOrder, NewestStatsKept, Stages, DiskIsBehind
  <1>6. QED
    BY <1>3, <1>4, <1>5 DEF DInv

LEMMA TakeKeeps ==
    ASSUME DInv, NEW w \in Workers, NEW t \in Tasks, WorkerTakes(w, t)
    PROVE  DInv'
  <1>1. /\ accepting /\ running /\ Promised(t) < MaxCount
        /\ measuring[w] = NoTask /\ report[w] = NoReport /\ measuring' = [measuring EXCEPT ![w] = t]
        /\ UNCHANGED <<stats, report, memory, durable, running, overtaken, main, shut, flushing,
                       saved, accepting, unread, lateTasks>>
    BY DEF WorkerTakes, Take, Idle, lifeVars
  <1>2. TypeOK'
    BY <1>1 DEF DInv, TypeOK
  <1>3. Bounded'
    <2> SUFFICES ASSUME NEW u \in Tasks PROVE Promised(u)' <= MaxCount
      BY DEF Bounded
    <2>1. stats[u] \in Nat /\ Promised(u) <= MaxCount /\ Promised(u) = stats[u] + Cardinality(Measuring(u))
      BY PromisedIs DEF DInv, TypeOK, Bounded, PipelineAssumption
    <2>2. Promised(u)' = stats[u] + Cardinality(Measuring(u)')
      BY <1>1 DEF Promised, Measuring
    <2>3. CASE u = t
      <3>1. Cardinality(Measuring(u)') = Cardinality(Measuring(u)) + 1
        BY <1>1, <2>3, OneMoreMeasures DEF DInv, TypeOK, PipelineAssumption
      <3>2. QED
        BY <1>1, <2>1, <2>2, <2>3, <3>1, MeasuringIsFinite DEF PipelineAssumption
    <2>4. CASE u # t
      <3>1. Measuring(u)' = Measuring(u)
        BY <1>1, <2>4, OthersMeasure DEF DInv, TypeOK, PipelineAssumption
      <3>2. QED
        BY <2>1, <2>2, <3>1
    <2>5. QED
      BY <2>3, <2>4
  <1>4. InOrder' /\ NewestStatsKept' /\ DiskIsBehind'
    BY <1>1 DEF DInv, TypeOK, InOrder, NewestStatsKept, DiskIsBehind
  <1>5. Stages'
    BY <1>1 DEF DInv, TypeOK, Stages
  <1>6. QED
    BY <1>2, <1>3, <1>4, <1>5 DEF DInv

\* The model has one more observation, and the copy made with it is on its way.
LEMMA ObserveKeeps ==
    ASSUME DInv, NEW w \in Workers, NEW t \in Tasks, WorkerObserves(w), measuring[w] = t
    PROVE  DInv'
  <1>1. /\ running /\ t # NoTask /\ stats' = [stats EXCEPT ![t] = stats[t] + 1]
        /\ report' = [report EXCEPT ![w] = Copy(t, stats[t] + 1)]
        /\ measuring' = [measuring EXCEPT ![w] = NoTask]
        /\ UNCHANGED <<memory, durable, running, overtaken, main, shut, flushing, saved, accepting,
                       unread, lateTasks>>
    BY DEF WorkerObserves, Observe, CopyOf, lifeVars
  <1>2. report[w] = NoReport
    BY <1>1 DEF DInv, InOrder
  <1>3. Cardinality(Measuring(t)') = Cardinality(Measuring(t)) - 1
    BY <1>1, OneLessMeasures DEF DInv, TypeOK
  <1>4. Cardinality(Measuring(t)) \in Nat /\ Cardinality(Measuring(t)') \in Nat
    <2>1. IsFiniteSet(Measuring(t)')
      BY FS_Subset DEF Measuring, DaemonAssumption
    <2>2. QED
      BY <2>1, MeasuringIsFinite, FS_CardinalityType
  <1>5. stats[t] \in Nat /\ stats[t] + 1 \in 1..MaxCount
    <2>1. stats[t] \in Nat /\ Promised(t) <= MaxCount
      BY DEF DInv, TypeOK, Bounded
    <2>2. Promised(t) = stats[t] + Cardinality(Measuring(t))
      BY PromisedIs
    <2>3. QED
      BY <1>3, <1>4, <2>1, <2>2 DEF PipelineAssumption
  <1>6. TypeOK'
    <2>1. stats' \in [Tasks -> 0..MaxCount]
      BY <1>1, <1>5 DEF DInv, TypeOK
    <2>2. Copy(t, stats[t] + 1) \in [task : Tasks, count : 1..MaxCount]
      BY <1>5 DEF Copy
    <2>3. report' \in [Workers -> [task : Tasks, count : 1..MaxCount] \cup {NoReport}]
      BY <1>1, <2>2 DEF DInv, TypeOK
    <2>4. QED
      BY <1>1, <2>1, <2>3 DEF DInv, TypeOK
  <1>7. Bounded'
    <2> SUFFICES ASSUME NEW u \in Tasks PROVE Promised(u)' <= MaxCount
      BY DEF Bounded
    <2>1. stats[u] \in Nat /\ Promised(u) <= MaxCount /\ Promised(u) = stats[u] + Cardinality(Measuring(u))
      BY PromisedIs DEF DInv, TypeOK, Bounded
    <2>2. Promised(u)' = stats'[u] + Cardinality(Measuring(u)')
      BY DEF Promised, Measuring
    <2>3. CASE u = t
      <3>1. stats'[u] = stats[u] + 1
        BY <1>1, <2>3 DEF DInv, TypeOK
      <3>2. QED
        BY <1>3, <1>4, <2>1, <2>2, <2>3, <3>1 DEF PipelineAssumption
    <2>4. CASE u # t
      <3>1. Measuring(u)' = Measuring(u)
        BY <1>1, <2>4, OthersMeasure DEF DInv, TypeOK, PipelineAssumption
      <3>2. stats'[u] = stats[u]
        BY <1>1, <2>4 DEF DInv, TypeOK
      <3>3. QED
        BY <2>1, <2>2, <3>1, <3>2
    <2>5. QED
      BY <2>3, <2>4
  <1>8. \A u \in Tasks : stats'[u] = IF u = t THEN stats[u] + 1 ELSE stats[u]
    BY <1>1 DEF DInv, TypeOK
  <1>9. \A v \in Workers : report'[v] = IF v = w THEN Copy(t, stats[t] + 1) ELSE report[v]
    BY <1>1 DEF DInv, TypeOK
  <1>10. InOrder'
    <2>1. ASSUME NEW v \in Workers, report'[v] # NoReport
          PROVE  report'[v].count <= stats'[report'[v].task]
      <3>1. CASE v = w
        BY <1>1, <1>5, <1>8, <1>9, <3>1 DEF Copy
      <3>2. CASE v # w
        <4>1. report'[v] = report[v] /\ report[v].task \in Tasks /\ report[v].count \in Nat
          BY <1>9, <2>1, <3>2 DEF DInv, TypeOK
        <4>2. report[v].count <= stats[report[v].task]
          BY <2>1, <4>1 DEF DInv, InOrder
        <4>3. \A u \in Tasks : stats[u] \in Nat
          BY DEF DInv, TypeOK
        <4>4. QED
          BY <1>8, <4>1, <4>2, <4>3
      <3>3. QED
        BY <3>1, <3>2
    <2>2. \A v \in Workers : measuring'[v] # NoTask => report'[v] = NoReport
      BY <1>1, <1>9 DEF DInv, TypeOK, InOrder
    <2>3. \A u \in Tasks : memory'[u] <= stats'[u]
      <3>1. \A u \in Tasks : memory[u] \in Int /\ stats[u] \in Int /\ memory[u] <= stats[u]
        BY DEF DInv, TypeOK, InOrder, Store!Snapshots, PipelineAssumption
      <3>2. QED
        BY <1>1, <1>8, <3>1
    <2>4. QED
      BY <2>1, <2>2, <2>3 DEF InOrder
  <1>11. NewestStatsKept'
    <2> SUFFICES ASSUME NEW u \in Tasks \ overtaken, memory[u] # stats'[u]
                 PROVE  \E v \in Workers : report'[v] = Copy(u, stats'[u])
      BY <1>1 DEF NewestStatsKept
    <2>1. CASE u = t
      BY <1>8, <1>9, <2>1
    <2>2. CASE u # t
      <3>1. PICK v \in Workers : report[v] = Copy(u, stats[u])
        BY <1>8, <2>2 DEF DInv, NewestStatsKept
      <3>2. v # w
        BY <1>2, <3>1 DEF Copy, NoReport, PipelineAssumption
      <3>3. QED
        BY <1>8, <1>9, <2>2, <3>1, <3>2
    <2>3. QED
      BY <2>1, <2>2
  <1>12. Stages'
    <2>1. ~AllIdle /\ main # "down"
      BY <1>1 DEF DInv, TypeOK, AllIdle, Idle
    <2>2. QED
      BY <1>1, <2>1 DEF DInv, Stages
  <1>13. DiskIsBehind'
    BY <1>1 DEF DInv, DiskIsBehind
  <1>14. QED
    BY <1>6, <1>7, <1>10, <1>11, <1>12, <1>13 DEF DInv

\* A copy reaches the store: it is the newest, or a newer one is on its way, or
\* a newer one was there before it.
LEMMA ReportKeeps ==
    ASSUME DInv, NEW w \in Workers, NEW t \in Tasks, NEW n \in 1..MaxCount,
           WorkerReports(w), report[w] = Copy(t, n)
    PROVE  DInv'
  <1>1. /\ report[w] # NoReport /\ running /\ memory' = [memory EXCEPT ![t] = n]
        /\ overtaken' = IF n < memory[t] /\ memory[t] <= stats[t] THEN overtaken \cup {t} ELSE overtaken
        /\ report' = [report EXCEPT ![w] = NoReport]
        /\ lateTasks' = IF saved THEN lateTasks \cup {t} ELSE lateTasks
        /\ UNCHANGED <<stats, measuring, durable, running, main, shut, flushing, saved, accepting,
                       unread>>
    BY DEF WorkerReports, Report, Store!Put, Overtaken, Copy
  <1>2. n <= stats[t] /\ n \in Nat
    BY <1>1 DEF DInv, InOrder, Copy
  <1>3. \A u \in Tasks : memory[u] \in Nat /\ durable[u] \in Nat /\ stats[u] \in Nat /\ memory[u] <= stats[u]
    BY DEF DInv, TypeOK, InOrder, Store!Snapshots, PipelineAssumption
  <1>4. \A u \in Tasks : memory'[u] = IF u = t THEN n ELSE memory[u]
    BY <1>1 DEF DInv, TypeOK, Store!Snapshots
  <1>5. \A v \in Workers : report'[v] = IF v = w THEN NoReport ELSE report[v]
    BY <1>1 DEF DInv, TypeOK
  <1>6. t \notin overtaken' => memory[t] <= n
    BY <1>1, <1>2, <1>3
  <1>7. TypeOK'
    <2>1. memory' \in Store!Snapshots
      BY <1>1 DEF DInv, TypeOK, Store!Snapshots
    <2>2. report' \in [Workers -> [task : Tasks, count : 1..MaxCount] \cup {NoReport}]
      BY <1>1 DEF DInv, TypeOK
    <2>3. overtaken' \subseteq Tasks /\ lateTasks' \subseteq Tasks
      BY <1>1 DEF DInv, TypeOK
    <2>4. QED
      BY <1>1, <2>1, <2>2, <2>3 DEF DInv, TypeOK
  <1>8. Bounded'
    BY <1>1 DEF DInv, Bounded, Promised
  <1>9. InOrder'
    BY <1>1, <1>2, <1>3, <1>4, <1>5 DEF DInv, InOrder
  <1>10. NewestStatsKept'
    <2> SUFFICES ASSUME NEW u \in Tasks \ overtaken', memory'[u] # stats[u]
                 PROVE  \E v \in Workers : report'[v] = Copy(u, stats[u])
      BY <1>1 DEF NewestStatsKept
    <2>1. u \notin overtaken
      BY <1>1
    <2>2. memory[u] # stats[u]
      BY <1>2, <1>3, <1>4, <1>6
    <2>3. PICK v \in Workers : report[v] = Copy(u, stats[u])
      BY <2>1, <2>2 DEF DInv, NewestStatsKept
    <2>4. v # w
      BY <1>4, <2>3 DEF Copy
    <2>5. QED
      BY <1>5, <2>3, <2>4
  <1>11. Stages'
    <2>1. ~AllIdle /\ main # "down"
      BY <1>1 DEF DInv, TypeOK, AllIdle, Idle
    <2>2. QED
      BY <1>1, <2>1 DEF DInv, Stages
  <1>12. DiskIsBehind'
    <2>1. ASSUME ~unread, main # "down", NEW u \in Tasks \ overtaken'
          PROVE  memory'[u] >= durable[u]
      <3>1. u \notin overtaken
        BY <1>1
      <3>2. memory[u] >= durable[u]
        BY <2>1, <3>1 DEF DInv, DiskIsBehind
      <3>3. QED
        BY <1>2, <1>3, <1>4, <1>6, <3>2
    <2>2. ASSUME saved, NEW u \in Tasks \ lateTasks'
          PROVE  durable[u] = memory'[u]
      BY <1>1, <1>4, <2>2 DEF DInv, DiskIsBehind
    <2>3. QED
      BY <1>1, <2>1, <2>2 DEF DiskIsBehind
  <1>13. QED
    BY <1>7, <1>8, <1>9, <1>10, <1>11, <1>12 DEF DInv

\* A save, periodic or final, leaves on the disk what memory holds.
LEMMA SaveKeeps ==
    ASSUME DInv, Flush \/ StopStore
    PROVE  DInv'
  <1>1. /\ durable' = memory /\ running'= running /\ main # "down"
        /\ UNCHANGED <<stats, workerVars, memory, overtaken, main, accepting, unread, lateTasks>>
        /\ flushing' \in BOOLEAN /\ saved' \in BOOLEAN
        /\ \/ shut' = shut
           \/ shut = "store" /\ shut' = "engine"
    BY DEF DInv, TypeOK, Stages, Flush, StopStore, FinalSnapshot, Store!Persist, lifeVars, workerVars
  <1>2. \A t \in Tasks : memory[t] \in Nat
    BY DEF DInv, TypeOK, Store!Snapshots, PipelineAssumption
  <1>3. TypeOK'
    BY <1>1 DEF DInv, TypeOK, workerVars
  <1>4. Bounded' /\ InOrder' /\ NewestStatsKept'
    BY <1>1 DEF DInv, Bounded, Promised, InOrder, NewestStatsKept, workerVars
  <1>5. Stages'
    BY <1>1 DEF DInv, Stages, AllIdle, Idle, workerVars
  <1>6. DiskIsBehind'
    BY <1>1, <1>2 DEF DiskIsBehind
  <1>7. QED
    BY <1>3, <1>4, <1>5, <1>6 DEF DInv

\* Main and the shutdown goroutine move; nothing is learned, reported or saved.
LEMMA StagesKeep ==
    ASSUME DInv, \/ ServerClosed \/ ServeFails \/ Signal \/ ServerStopped
                 \/ StopStoreFails \/ StopEngine \/ EngineStopped
    PROVE  DInv'
  <1>1. /\ UNCHANGED <<pipelineVars, saved, unread, lateTasks>>
        /\ main # "down" /\ main' \in {"serving", "leaving"}
        /\ shut' \in {"idle", "server", "store", "engine", "workers", "done"}
        /\ flushing' \in BOOLEAN /\ accepting' \in BOOLEAN
        /\ shut' \in {"workers", "done"} => ~accepting'
        /\ shut' = "done" => AllIdle
    <2> USE DEF DInv, Stages
    <2>1. /\ main \in {"down", "serving", "leaving"} /\ flushing \in BOOLEAN /\ accepting \in BOOLEAN
          /\ shut \in {"idle", "server", "store", "engine", "workers", "done"}
      BY DEF TypeOK
    <2>2. CASE ServerClosed \/ ServeFails
      BY <2>1, <2>2 DEF ServerClosed, ServeFails, MainLeaves
    <2>3. CASE Signal \/ ServerStopped
      BY <2>1, <2>3 DEF Signal, ServerStopped
    <2>4. CASE StopStoreFails \/ StopEngine
      BY <2>1, <2>4 DEF StopStoreFails, StopEngine
    <2>5. CASE EngineStopped
      BY <2>1, <2>5 DEF EngineStopped, WorkersGone
    <2>6. QED
      BY <2>2, <2>3, <2>4, <2>5
  <1>2. TypeOK'
    BY <1>1 DEF DInv, TypeOK, pipelineVars, workerVars
  <1>3. Bounded' /\ InOrder' /\ NewestStatsKept'
    BY <1>1 DEF DInv, Bounded, Promised, InOrder, NewestStatsKept, pipelineVars, workerVars
  <1>4. Stages'
    BY <1>1 DEF Stages, AllIdle, Idle, pipelineVars, workerVars
  <1>5. DiskIsBehind'
    BY <1>1 DEF DInv, DiskIsBehind, pipelineVars
  <1>6. QED
    BY <1>2, <1>3, <1>4, <1>5 DEF DInv

LEMMA DInvStep ==
    ASSUME DInv, [Next]_vars
    PROVE  DInv'
  <1>1. ASSUME NEW found \in {durable, Store!Nothing}, Boot(found)
        PROVE  DInv'
    BY <1>1, BootKeeps
  <1>2. CASE Exit \/ Killed
    BY <1>2, EndKeeps DEF Exit, Killed
  <1>3. ASSUME NEW w \in Workers, NEW t \in Tasks, WorkerTakes(w, t)
        PROVE  DInv'
    BY <1>3, TakeKeeps
  <1>4. ASSUME NEW w \in Workers, WorkerObserves(w)
        PROVE  DInv'
    <2>1. measuring[w] \in Tasks
      BY <1>4 DEF WorkerObserves, Observe, DInv, TypeOK
    <2>2. QED
      BY <1>4, <2>1, ObserveKeeps
  <1>5. ASSUME NEW w \in Workers, WorkerReports(w)
        PROVE  DInv'
    <2>1. report[w] \in [task : Tasks, count : 1..MaxCount]
      BY <1>5 DEF WorkerReports, Report, DInv, TypeOK
    <2>2. PICK t \in Tasks, n \in 1..MaxCount : report[w] = Copy(t, n)
      BY <2>1 DEF Copy
    <2>3. QED
      BY <1>5, <2>2, ReportKeeps
  <1>6. CASE Flush \/ StopStore
    BY <1>6, SaveKeeps
  <1>7. CASE \/ ServerClosed \/ ServeFails \/ Signal \/ ServerStopped
             \/ StopStoreFails \/ StopEngine \/ EngineStopped
    BY <1>7, StagesKeep
  <1>8. CASE UNCHANGED vars
    BY <1>8 DEF vars, pipelineVars, workerVars, lifeVars, DInv, TypeOK, Bounded, Promised, InOrder,
                Stages, AllIdle, Idle, DiskIsBehind, NewestStatsKept
  <1>9. QED
    BY <1>1, <1>2, <1>3, <1>4, <1>5, <1>6, <1>7, <1>8 DEF Next

\* The invariant holds in every reachable state.
LEMMA DaemonInvariance == Spec => []DInv
  BY InitDInv, DInvStep, PTL DEF Spec

\* Type correctness: no task is counted beyond the bound, and what is on its way
\* to the store is a copy of some task.
THEOREM DaemonTypeCorrect == Spec => []TypeOK
  <1>1. DInv => TypeOK
    BY DEF DInv
  <1>2. QED
    BY DaemonInvariance, <1>1, PTL

\* The newest statistics of a task are in the store or on their way to it, unless
\* an older copy was applied after a newer one (moving_average.go, Observe, and
\* start.go, the observer).
THEOREM StoreHasNewest == Spec => []NewestStatsKept
  <1>1. DInv => NewestStatsKept
    BY DEF DInv
  <1>2. QED
    BY DaemonInvariance, <1>1, PTL

\* A shutdown that gets to its end with a successful final save leaves on the disk
\* all that the model learned, but for late and overtaken reports (start.go, the
\* shutdown goroutine).
THEOREM ShutdownKeepsAll == Spec => []CompletedShutdownKeepsAll
  <1>1. DInv => CompletedShutdownKeepsAll
    <2> SUFFICES ASSUME DInv, shut = "done", saved, NEW t \in Tasks \ (lateTasks \cup overtaken)
                 PROVE  durable[t] = stats[t]
      BY DEF CompletedShutdownKeepsAll
    <2>1. durable[t] = memory[t]
      BY DEF DInv, DiskIsBehind
    <2>2. \A w \in Workers : report[w] = NoReport
      BY DEF DInv, Stages, AllIdle, Idle
    <2>3. NoReport # Copy(t, stats[t])
      BY DEF NoReport, Copy, PipelineAssumption
    <2>4. memory[t] = stats[t]
      BY <2>2, <2>3 DEF DInv, NewestStatsKept
    <2>5. QED
      BY <2>1, <2>4
  <1>2. QED
    BY DaemonInvariance, <1>1, PTL

\* The data file never goes back to an older count of a task, across flushes,
\* shutdowns, crashes and restarts, but for overtaken reports and a start that
\* could not open the file.
THEOREM DiskIsMonotone == Spec => DiskNeverRegresses
  <1> DEFINE Kept == \A t \in Tasks \ overtaken : durable'[t] >= durable[t] \/ unread
  <1>1. DInv /\ [Next]_vars => Kept
    <2> SUFFICES ASSUME DInv, [Next]_vars, ~unread, NEW t \in Tasks \ overtaken
                 PROVE  durable'[t] >= durable[t]
      BY DEF DInv, TypeOK
    <2>1. durable[t] \in Nat
      BY DEF DInv, TypeOK, Store!Snapshots, PipelineAssumption
    <2>2. CASE Flush \/ StopStore
      <3>1. durable' = memory /\ main # "down"
        BY <2>2 DEF DInv, TypeOK, Stages, Flush, StopStore, FinalSnapshot, Store!Persist
      <3>2. QED
        BY <3>1 DEF DInv, DiskIsBehind
    <2>3. CASE ~(Flush \/ StopStore)
      <3>1. durable' = durable
        BY <2>3 DEF Next, vars, pipelineVars, Boot, Store!Begin, ServerClosed, ServeFails, MainLeaves,
           Exit, Killed, End, Store!End, WorkerTakes, Take, WorkerObserves, Observe, WorkerReports,
           Report, Store!Put, Signal, ServerStopped, StopStoreFails, StopEngine, EngineStopped
      <3>2. QED
        BY <2>1, <3>1
    <2>4. QED
      BY <2>2, <2>3
  <1>2. DInv /\ [Next]_vars => [Kept]_vars
    BY <1>1
  <1>3. Spec => [][Kept]_vars
    BY DaemonInvariance, <1>2, PTL DEF Spec
  <1>4. QED
    BY <1>3 DEF DiskNeverRegresses
=============================================================================
