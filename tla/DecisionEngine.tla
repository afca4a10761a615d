--------------------------- MODULE DecisionEngine ---------------------------
(***************************************************************************)
(* The decision engine: decision.Manager over a strategy and a prediction  *)
(* model, as handleAskV2 calls it, while learning.ModelAdapter feeds the   *)
(* model observations, storage.ModelStorage writes it to a file and reads  *)
(* it back, and the process restarts.                                      *)
(*                                                                         *)
(* Each method of a model and of the manager holds a lock of its own and   *)
(* no two of them hold it together, so a decision is made of a copy of the *)
(* manager's lists, a prediction, a confidence and the predictions for the *)
(* pending tasks, with anything in between.                                *)
(***************************************************************************)
EXTENDS Strategies, SequencesExt

CONSTANTS
    Deciders,       \* goroutines that serve POST /v2/ask
    Observers,      \* goroutines that call the adapter's Observe
    Configs,        \* configurations [model, alpha, min, type, buffer, fallback]
    ThresholdSets,  \* what UpdateThresholds may be given
    Readings,       \* what aggregator.GetState may return
    Requests,       \* [task, complexity] of an ask
    Pendings,       \* [task, complexity, predicted] given to AddPendingTask
    Observations,   \* [task, complexity, impact]
    OldFiles,       \* model files of earlier processes
    MaxPending,     \* bound on the pending tasks
    MaxPoints,      \* bound on the observations of a task by a new model, per kind
    MaxMore         \* bound on those by a model from an old file

ASSUME DecisionAssumption ==
    /\ {MaxPending, MaxMore} \subseteq Nat
    /\ \A k \in DOMAIN MaxPoints : MaxPoints[k] \in Nat
    /\ NoImpact \notin [Dims -> Int]
    /\ \A cfg \in Configs : cfg.min \in Int /\ cfg.buffer \in Int
    /\ \A r \in Requests : r.complexity \in Int
    /\ \A p \in Pendings : p.complexity \in Int /\ p.predicted \in [Dims -> Int] \cup {NoImpact}
    /\ IsFiniteSet(Observations)
    /\ \A b \in Observations : b.complexity \in Int /\ b.impact \in [Dims -> Int]
    /\ \A m \in OldFiles : IsModel(m)
    /\ \A s \in Readings :
           /\ s.cpu \in 0..100 /\ s.memory \in 0..100
           /\ s.gpus \in Seq([usage : 0..100, vram : -1..100])
    /\ \A t \in ThresholdSets \ {NoThresholds} : \A d \in Dims : t[d] \in Int

VARIABLES
    model, strategy,
    thresholds, pending,    \* under the manager's mutex
    file,                   \* the model file, with the history it goes with
    decider,                \* per decider: [step, ...], the context so far
    observer,               \* per observer
    seen                    \* history, per task: how many observations came
                            \* from elsewhere, and how often each of its own
                            \* was made

managerVars == <<thresholds, pending>>
vars == <<model, strategy, managerVars, file, decider, observer, seen>>

TaskNames == {r.task : r \in Requests} \cup {b.task : b \in Observations}
Made(t) == {b \in Observations : b.task = t}

\* The sum of f over observations of which b was made times[b] times.
Total(times, f) == SumFunction([b \in DOMAIN times |-> times[b] * f[b]])
Complexities(t) == [b \in Made(t) |-> 12 * b.complexity]
Impacts(t, d) == [b \in Made(t) |-> Scaled(b.impact)[d]]

\* Scaled numbers stand for floating-point ones: the observations are such that
\* the means of up to MaxPoints of them are integers.  Only what is said of
\* Welford's method rests on it.
ASSUME ScaleAssumption ==
    /\ "linear" \in DOMAIN MaxPoints
    /\ \A t \in TaskNames : \A times \in [Made(t) -> 0..MaxPoints["linear"]] :
           LET n == SumFunction(times)
           IN  n \in 1..MaxPoints["linear"] =>
                   /\ Total(times, Complexities(t)) % n = 0
                   /\ \A d \in Dims : Total(times, Impacts(t, d)) % n = 0

Idle == [step |-> "idle"]
NoFile == [exists |-> FALSE]

\* The history of a model whose observations were made elsewhere.
SeenElsewhere(m) ==
    [t \in TaskNames |-> [elsewhere |-> TaskStats(m, t).count,
                          points |-> [b \in Made(t) |-> 0]]]
Unseen == SeenElsewhere(EmptyFile)

Points(t) == SumFunction(seen[t].points)
\* What a model has been told of a task, by its history.
ToldBy(h, t) == h[t].elsewhere + SumFunction(h[t].points)
MayObserve(t) == Points(t) < IF seen[t].elsewhere = 0 THEN MaxPoints[model.kind] ELSE MaxMore

Starts(cfg) ==
    /\ CreateModel(cfg).kind # "error" /\ CreateStrategy(cfg).type \notin {"error", "overflow"}

Init ==
    /\ \E cfg \in Configs :
        /\ Starts(cfg)
        /\ model = CreateModel(cfg) /\ strategy = CreateStrategy(cfg)
    /\ thresholds \in ThresholdSets /\ pending = <<>>
    /\ file \in {NoFile} \cup {[exists |-> TRUE, model |-> m, seen |-> SeenElsewhere(m)] : m \in OldFiles}
    /\ decider = [d \in Deciders |-> Idle]
    /\ observer = [o \in Observers |-> Idle]
    /\ seen = Unseen
-----------------------------------------------------------------------------
(* Decide, of handleAskV2.                                                 *)

askUnchanged == <<model, strategy, managerVars, file, observer, seen>>

\* A body that does not decode.
AskGarbled(d) ==
    /\ decider[d].step = "idle"
    /\ decider' = [decider EXCEPT ![d] =
            [step |-> "replied", by |-> "none", future |-> <<>>, status |-> 400, reasons |-> {}]]
    /\ UNCHANGED askUnchanged

\* A request: thresholds and pending tasks are copied under the read lock;
Ask(d) ==
    /\ decider[d].step = "idle"
    /\ \E r \in Requests :
        decider' = [decider EXCEPT ![d] =
            [step |-> "copied", request |-> r, thresholds |-> thresholds, pending |-> pending]]
    /\ UNCHANGED askUnchanged

\* the context gets a reading and a prediction;
BuildContext(d) ==
    /\ decider[d].step = "copied"
    /\ LET r == decider[d].request IN
       \E reading \in Readings :
        decider' = [decider EXCEPT ![d] =
            [step |-> "built", thresholds |-> @.thresholds, pending |-> @.pending, task |-> r.task,
             state |-> reading, prediction |-> Predict(model, r.task, r.complexity)]]
    /\ UNCHANGED askUnchanged

\* the strategy asks the model how sure it is, of which the decision depends on
\* whether it is 0;
AskConfidence(d) ==
    /\ decider[d].step = "built"
    /\ decider' = [decider EXCEPT ![d] =
            [step |-> "confident", thresholds |-> @.thresholds, pending |-> @.pending,
             state |-> @.state, prediction |-> @.prediction,
             sure |-> Confidence(model, @.task) # 0]]
    /\ UNCHANGED askUnchanged

\* calculatePendingImpact: a pending task without a prediction gets one now.
ImpactOf(p) == IF p.predicted # NoImpact THEN p.predicted ELSE Predict(model, p.task, p.complexity)
PendingImpact(tasks) ==
    LET known == {i \in DOMAIN tasks : ImpactOf(tasks[i]) # NoImpact}
    IN  [d \in Dims |-> SumFunction([i \in known |-> ImpactOf(tasks[i])[d]])]

Decision(d, s) == Decide(s, decider[d], decider[d].sure, PendingImpact(decider[d].pending))

\* and decides; the reply gives reasons only with a denial.
Conclude(d) ==
    /\ decider[d].step = "confident"
    /\ LET result == Decision(d, strategy) IN
       decider' = [decider EXCEPT ![d] =
            [step |-> "replied", by |-> result.by, future |-> result.future,
             status |-> IF result.by = "panic" THEN 500 ELSE IF result.allowed THEN 200 ELSE 503,
             reasons |-> IF result.allowed THEN {} ELSE result.reasons]]
    /\ UNCHANGED askUnchanged

ReplySent(d) ==
    /\ decider[d].step = "replied"
    /\ decider' = [decider EXCEPT ![d] = Idle]
    /\ UNCHANGED askUnchanged
-----------------------------------------------------------------------------
(* The manager's lists.                                                    *)

listsUnchanged == <<model, strategy, file, decider, observer, seen>>

AddPendingTask ==
    /\ Len(pending) < MaxPending
    /\ \E p \in Pendings : pending' = Append(pending, p)
    /\ UNCHANGED <<listsUnchanged, thresholds>>

\* The first task of that name goes.
RemovePendingTask ==
    /\ \E t \in TaskNames : pending' = RemoveFirstMatch(pending, LAMBDA p : p.task = t)
    /\ UNCHANGED <<listsUnchanged, thresholds>>

UpdateThresholds ==
    /\ thresholds' \in ThresholdSets
    /\ UNCHANGED <<listsUnchanged, pending>>
-----------------------------------------------------------------------------
(* ModelAdapter.Observe.                                                   *)

observeUnchanged == <<strategy, managerVars, file, decider>>

LearnedUnlocked(b) ==
    IF \E o \in Observers : observer[o].step = "fed" THEN model
    ELSE Observed(model, b.task, b.complexity, b.impact)
\* The model holds its lock while it learns: of two observations that overlap
\* neither writes over the other.
Learned(b) == Observed(model, b.task, b.complexity, b.impact)

\* The observation goes to the model,
ObserveFeed(o) ==
    /\ observer[o].step = "idle"
    /\ \E b \in Observations :
        /\ MayObserve(b.task)
        /\ model' = Learned(b)
        /\ seen' = [seen EXCEPT ![b.task].points[b] = @ + 1]
        /\ observer' = [observer EXCEPT ![o] =
               [step |-> "fed", task |-> b.task, told |-> ToldBy(seen, b.task) + 1]]
    /\ UNCHANGED observeUnchanged

\* and then the model's statistics to the observer.
ObserveReport(o) ==
    /\ observer[o].step = "fed"
    /\ observer' = [observer EXCEPT ![o] =
           [step |-> "reported", covers |-> TaskStats(model, @.task).count >= @.told]]
    /\ UNCHANGED <<observeUnchanged, model, seen>>

ObserveReturns(o) ==
    /\ observer[o].step = "reported"
    /\ observer' = [observer EXCEPT ![o] = Idle]
    /\ UNCHANGED <<observeUnchanged, model, seen>>
-----------------------------------------------------------------------------
(* ModelStorage, and the process.                                          *)

\* Under the storage's mutex a temporary file is written and renamed; it is
\* removed when one of the steps fails, and seen by nobody before the rename.
SaveModel ==
    /\ file' \in {file, [exists |-> TRUE, model |-> Saved(model), seen |-> seen]}
    /\ UNCHANGED <<model, strategy, managerVars, decider, observer, seen>>

DeleteModel ==
    /\ file' = NoFile
    /\ UNCHANGED <<model, strategy, managerVars, decider, observer, seen>>

\* Bound: of the files of another kind of model, only the old ones are loaded.
LoadBound == file.model.kind = model.kind \/ file.model \in OldFiles

\* No file, or one that does not decode, leaves the model as it is.
LoadModel ==
    /\ file.exists /\ file.model.kind # "none" /\ model.kind # "none" /\ LoadBound
    /\ model' = Loaded(model, file.model)
    /\ seen' = IF file.model.kind = model.kind THEN file.seen ELSE SeenElsewhere(model')
    /\ observer' = [o \in Observers |-> IF observer[o].step = "fed"
                        THEN [observer[o] EXCEPT !.told = ToldBy(seen', observer[o].task)]
                        ELSE observer[o]]
    /\ UNCHANGED <<strategy, managerVars, file, decider>>

\* The process dies and starts again, perhaps with another configuration.
Restart ==
    /\ \E cfg \in Configs :
        /\ Starts(cfg)
        /\ model' = CreateModel(cfg) /\ strategy' = CreateStrategy(cfg)
    /\ pending' = <<>> /\ thresholds' \in ThresholdSets
    /\ decider' = [d \in Deciders |-> Idle]
    /\ observer' = [o \in Observers |-> Idle]
    /\ seen' = Unseen
    /\ UNCHANGED file
-----------------------------------------------------------------------------
DeciderStep(d) ==
    AskGarbled(d) \/ Ask(d) \/ BuildContext(d) \/ AskConfidence(d) \/ Conclude(d) \/ ReplySent(d)

ObserverStep(o) == ObserveFeed(o) \/ ObserveReport(o) \/ ObserveReturns(o)

StorageStep == SaveModel \/ DeleteModel \/ LoadModel

Next ==
    \/ \E d \in Deciders : DeciderStep(d)
    \/ \E o \in Observers : ObserverStep(o)
    \/ AddPendingTask \/ RemovePendingTask \/ UpdateThresholds
    \/ StorageStep
    \/ Restart

Spec == Init /\ [][Next]_vars
-----------------------------------------------------------------------------
(* Properties.                                                             *)

\* The impacts of the pending tasks add up to an integer.
QueueIsSummed ==
    \A d \in Deciders : decider[d].step = "confident" =>
        \A r \in Dims : PendingImpact(decider[d].pending)[r] \in Int

\* Variables keep their range; in particular, what a reply predicts is a
\* percentage.
TypeOK ==
    /\ IsModel(model)
    /\ strategy.type \in Predictives \cup {"threshold"}
    /\ Len(pending) <= MaxPending
    /\ \A d \in Deciders : decider[d].step \in {"idle", "copied", "built", "confident", "replied"}
    /\ \A d \in Deciders : decider[d].step = "replied" =>
           \A r \in DOMAIN decider[d].future : decider[d].future[r] \in 0..100 * Unit
    /\ \A o \in Observers : observer[o].step \in {"idle", "fed", "reported"}
    /\ QueueIsSummed

\* The regression of a task's observations, computed in one piece.
LeastSquares(t, times) ==
    LET n == SumFunction(times)
        Mean(f) == Total(times, f) \div n
        Moment(f, g) ==
            Total(times, [b \in DOMAIN times |-> (f[b] - Mean(f)) * (g[b] - Mean(g))])
        x == Complexities(t)
        y(d) == Impacts(t, d)
    IN  [count |-> n, x |-> Mean(x), var |-> Moment(x, x),
         mean |-> [d \in Dims |-> Mean(y(d))], cov |-> [d \in Dims |-> Moment(x, y(d))]]

\* Welford's running means, variance and covariances are those of least squares
\* over all observations of the task, whatever their order, and across saves,
\* restarts and loads.
WelfordIsLeastSquares ==
    model.kind = "linear" => \A t \in TaskNames :
        (seen[t].elsewhere = 0 /\ Points(t) > 0) =>
            model.tasks[t] = LeastSquares(t, seen[t].points)

\* No observation makes a model less sure of its task, or sure of a task that
\* it cannot predict; a moving average is exempt beyond 50 observations, where
\* fastExp grows again.
ConfidenceNeverFalls ==
    [][\A o \in Observers : (observer[o].step = "idle" /\ observer'[o].step = "fed") =>
        LET t == observer'[o].task
        IN  (model.kind = "moving_average" => model'.tasks[t].count <= 50) =>
                /\ Confidence(model', t) >= Confidence(model, t)
                /\ Confidence(model', t) > 0 => Predict(model', t, 0) # NoImpact]_vars

\* No decision follows a nil prediction: one observation may make the model
\* confident after the prediction was found missing.
DecideNeverPanics ==
    \A d \in Deciders : decider[d].step = "replied" => decider[d].status # 500

\* A decision about to be made of thresholds and a prediction.
Comparable(d) ==
    /\ decider[d].step = "confident" /\ decider[d].thresholds # NoThresholds
    /\ Usable(decider[d].sure, decider[d].prediction)

\* Made by a strategy of that type, with a buffer of 50 percent, it denies r.
Denies(d, type, r) ==
    LET c == decider[d]
    IN  Overload[r] \in Decide([type |-> type, buffer |-> 50], c, c.sure, PendingImpact(c.pending)).reasons

\* Where the model has an answer, the strategies are ordered by their caution
\* on each resource whose impact is not negative: what the present state forbids
\* (but for the disks and the further GPUs, which are not predicted) prediction
\* forbids, and what prediction forbids the buffer and the queue forbid.
CautionOrder ==
    \A d \in Deciders : Comparable(d) => \A r \in Dims :
        /\ decider[d].prediction[r] >= 0 =>
               /\ Denies(d, "predictive", r) => Denies(d, "conservative", r)
               /\ (Len(decider[d].state.gpus) <= 1 /\ Denies(d, "threshold", r))
                  => Denies(d, "predictive", r)
        /\ (PendingImpact(decider[d].pending)[r] >= 0 /\ Denies(d, "predictive", r))
           => Denies(d, "queue_aware", r)

\* What the adapter reports of a task counts the observation just made and all
\* made before it, whoever else observes meanwhile; when a load has come between,
\* all that the file holds.
ReportCoversObservation ==
    \A o \in Observers : (observer[o].step = "reported" /\ model.kind # "none") =>
        observer[o].covers
=============================================================================
