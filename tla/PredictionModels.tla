-------------------------- MODULE PredictionModels --------------------------
(***************************************************************************)
(* The prediction models of internal/decision/model, as values: what each  *)
(* predicts, learns, reports, writes to a file and reads from one.         *)
(*                                                                         *)
(* A model is [kind, param, tasks]: param is minObservations of a linear   *)
(* model and alpha, in fifths, of a moving average; tasks maps the name of *)
(* each task that was observed to its data [count, x, var, mean, cov], of  *)
(* which a moving average uses count and mean only.                        *)
(*                                                                         *)
(* The floating-point numbers are scaled integers, chosen so that means of *)
(* four and three steps of the moving average are exact: an impact is in   *)
(* 1/3000 percent, a complexity in twelfths.  A prediction of the linear   *)
(* model is rounded down to the unit.                                      *)
(***************************************************************************)
EXTENDS Integers, Functions

CONSTANT NoImpact       \* nil: no prediction

Unit == 3000
Dims == {"cpu", "memory", "gpu", "vram"}
NoDelta == [d \in Dims |-> 0]

Blank(n) == [count |-> n, x |-> 0, var |-> 0, mean |-> NoDelta, cov |-> NoDelta]

\* A task that has data was observed; a sum of squares is not negative.
Data == [count : Nat \ {0}, x : Int, var : Nat, mean : [Dims -> Int], cov : [Dims -> Int]]
IsModel(m) ==
    /\ m = [kind |-> m.kind, param |-> m.param, tasks |-> m.tasks]
    /\ m.kind \in {"none", "moving_average", "linear"} /\ m.param \in Int
    /\ m.tasks = [t \in DOMAIN m.tasks |-> m.tasks[t]]
    /\ \A t \in DOMAIN m.tasks : m.kind # "none" /\ m.tasks[t] \in Data
-----------------------------------------------------------------------------
(* The decisions of the code.                                              *)

NotGrown(n) == n
\* Observe counts the observation.
Grown(n) == n + 1

OldDeviations(dx, dy, dy2) == dx * dy
\* The covariance grows by the deviation of x from its old mean times that of
\* y from its new one.
CoMoment(dx, dy, dy2) == dx * dy2

FewerTerms(n) == 50 - 2 * n
\* The base of the power in fastExp(-n/5), times 50.
FastExpBase(n) == 50 - n

\* A linear model needs two observations.
AtLeastTwo(min) == IF min < 2 THEN 2 ELSE min

\* alpha <= 0 || alpha > 1
AlphaOf(alpha) == IF alpha \in 1..5 THEN alpha ELSE 1
-----------------------------------------------------------------------------
(* Creation.                                                               *)

New(kind, param) == [kind |-> kind, param |-> param, tasks |-> <<>>]

\* Factory.Create; a kind that it does not know is an error.
CreateModel(cfg) ==
    CASE cfg.model = "none" -> New("none", 0)
      [] cfg.model = "moving_average" -> New("moving_average", AlphaOf(cfg.alpha))
      [] cfg.model = "linear" -> New("linear", AtLeastTwo(cfg.min))
      [] OTHER -> [kind |-> "error"]
-----------------------------------------------------------------------------
(* Observe.                                                                *)

Scaled(impact) == [d \in Dims |-> impact[d] * Unit]

\* Welford's method: n observations, the last one (x, y).
Regressed(data, x, y) ==
    LET n == Grown(data.count)
        x2 == data.x + (x - data.x) \div n
        mean2 == [d \in Dims |-> data.mean[d] + (y[d] - data.mean[d]) \div n]
    IN  [count |-> n, x |-> x2, mean |-> mean2,
         var |-> data.var + (x - data.x) * (x - x2),
         cov |-> [d \in Dims |->
                    data.cov[d] + CoMoment(x - data.x, y[d] - data.mean[d], y[d] - mean2[d])]]

Smoothed(alpha, data, y) ==
    [data EXCEPT !.count = Grown(@),
                 !.mean = [d \in Dims |-> (alpha * y[d] + (5 - alpha) * @[d]) \div 5]]

\* The first observation of a task, and a further one.
FirstData(m, x, y) == [Blank(1) EXCEPT !.x = IF m.kind = "linear" THEN x ELSE 0, !.mean = y]
NextData(m, data, x, y) ==
    IF m.kind = "linear" THEN Regressed(data, x, y) ELSE Smoothed(m.param, data, y)

Known(m, task) == task \in DOMAIN m.tasks

Observed(m, task, complexity, impact) ==
    LET x == 12 * complexity
        y == Scaled(impact)
        data == IF Known(m, task) THEN NextData(m, m.tasks[task], x, y) ELSE FirstData(m, x, y)
    IN  IF m.kind = "none" THEN m
        ELSE [m EXCEPT !.tasks = [t \in DOMAIN @ \cup {task} |-> IF t = task THEN data ELSE @[t]]]
-----------------------------------------------------------------------------
(* Predict and Confidence.                                                 *)

\* a * x + b, where a = cov / var and b = mean - a * (mean of x).
Line(data, x) ==
    [d \in Dims |-> IF data.var = 0 THEN data.mean[d]
                    ELSE data.mean[d] + (data.cov[d] * (x - data.x)) \div data.var]

\* A linear model has enough data from minObservations on.
Enough(m, task) ==
    Known(m, task) /\ m.tasks[task].count >= (IF m.kind = "linear" THEN m.param ELSE 1)

Predict(m, task, complexity) ==
    IF ~Enough(m, task) THEN NoImpact
    ELSE IF m.kind = "linear" THEN Line(m.tasks[task], 12 * complexity) ELSE m.tasks[task].mean

\* Only the order of the confidences of one kind of model, and whether one is
\* zero or negative, is kept.  Linear: 1 - e^(-k/10)/2 for k observations more
\* than needed, and half of that, which is below 1/2, when x has not varied.
LinearConfidence(m, data) == data.count - m.param + (IF data.var > 0 THEN 1001 ELSE 1)

\* Moving average: 1 - fastExp(-n/5), the tenth power of the base taken off 1.
AverageConfidence(data) ==
    LET base == FastExpBase(data.count) IN 50 - (IF base < 0 THEN -base ELSE base)

Confidence(m, task) ==
    IF ~Enough(m, task) \/ m.tasks[task].count = 0 THEN 0
    ELSE IF m.kind = "linear" THEN LinearConfidence(m, m.tasks[task])
    ELSE AverageConfidence(m.tasks[task])
-----------------------------------------------------------------------------
(* TaskStats, Save and Load.                                               *)

\* The statistics of one task; nil, with a count of 0, when there are none.
TaskStats(m, task) ==
    IF Known(m, task) THEN [count |-> m.tasks[task].count, avg |-> m.tasks[task].mean]
    ELSE [count |-> 0, avg |-> NoDelta]

\* A file is empty or holds the JSON of a model.
EmptyFile == [kind |-> "none", param |-> 0, tasks |-> <<>>]
Saved(m) == IF m.kind = "none" THEN EmptyFile ELSE m

\* The JSON of another kind of model decodes too: of its fields only the
\* tasks and their counts have a name that is known.
Foreign(file) == [param |-> 0, tasks |-> [t \in DOMAIN file.tasks |-> Blank(file.tasks[t].count)]]

\* Load; an empty file does not decode and leaves the model alone.
Loaded(m, file) ==
    IF m.kind = "none" \/ file.kind = "none" THEN m
    ELSE IF file.kind = m.kind THEN file
    ELSE [kind |-> m.kind, param |-> Foreign(file).param, tasks |-> Foreign(file).tasks]
=============================================================================
