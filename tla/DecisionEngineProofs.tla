------------------------ MODULE DecisionEngineProofs ------------------------
(***************************************************************************)
(* What TLAPS proves of the decision engine, for any tasks, observations,  *)
(* readings, configurations and numbers of goroutines.                     *)
(*                                                                         *)
(* The queue-aware strategy adds up the impacts of the pending tasks, and  *)
(* the history the observations of a task: SumProofs says what sums are.   *)
(***************************************************************************)
EXTENDS DecisionEngine, SumProofs, SequenceTheorems, TLAPS

Numbers == [Dims -> Int]

\* Every model there is, in memory or in the file, is one.
Models ==
    /\ IsModel(model)
    /\ file.exists => IsModel(file.model)

\* The created strategies are the known ones.
KnownStrategy == strategy.type \in Predictives \cup {"threshold"}

\* What a decider has gathered so far is what the engine may give it.
Contexts ==
    \A d \in Deciders :
        /\ decider[d].step = "copied" =>
               /\ decider[d].request \in Requests
               /\ decider[d].thresholds \in ThresholdSets
        /\ decider[d].step \in {"built", "confident"} =>
               /\ decider[d].thresholds \in ThresholdSets
               /\ decider[d].state \in Readings
               /\ decider[d].prediction \in Numbers \cup {NoImpact}

Arrays ==
    /\ decider = [d \in Deciders |-> decider[d]]
    /\ observer = [o \in Observers |-> observer[o]]
    /\ thresholds \in ThresholdSets

DInv == Arrays /\ Models /\ KnownStrategy /\ Contexts /\ DecideNeverPanics
-----------------------------------------------------------------------------
(* Arithmetic.                                                             *)

\* A quotient lies between 0 and the dividend: a running mean moves towards
\* the observation and not beyond it.
LEMMA QuotientBetween ==
    ASSUME NEW a \in Int, NEW n \in Nat \ {0}
    PROVE  /\ a \div n \in Int
           /\ a >= 0 => 0 <= a \div n /\ a \div n <= a
           /\ a <= 0 => a <= a \div n /\ a \div n <= 0
  <1> DEFINE q == a \div n
             r == a % n
  <1>1. q \in Int /\ r \in Int /\ 0 <= r /\ r < n /\ a = n * q + r
    OBVIOUS
  <1> HIDE DEF q, r
  <1>2. q >= 0 => n * q >= q
    BY <1>1
  <1>3. q < 0 => n * q <= q /\ n * q <= -n
    BY <1>1
  <1>4. /\ q \in Int
        /\ a >= 0 => 0 <= q /\ q <= a
        /\ a <= 0 => a <= q /\ q <= 0
    <2>1. CASE q >= 1
      <3>1. n * q >= n
        BY <2>1, <1>1
      <3>2. QED
        BY <1>1, <1>2, <2>1, <3>1
    <2>2. CASE q = 0
      BY <1>1, <2>2
    <2>3. CASE q < 0
      BY <1>1, <1>3, <2>3
    <2>4. QED
      BY <1>1, <2>1, <2>2, <2>3
  <1>5. QED
    BY <1>4 DEF q

LEMMA SameSign ==
    ASSUME NEW a \in Int, NEW b \in Int, (a >= 0 /\ b >= 0) \/ (a <= 0 /\ b <= 0)
    PROVE  a * b \in Nat
  OBVIOUS

\* Welford's sum of squares grows by something that is not negative.
LEMMA SquaresGrow ==
    ASSUME NEW x \in Int, NEW mean \in Int, NEW n \in Nat \ {0}
    PROVE  (x - mean) * (x - (mean + (x - mean) \div n)) \in Nat
  <1> DEFINE a == x - mean
             q == a \div n
  <1>1. /\ a \in Int /\ q \in Int
        /\ a >= 0 => 0 <= q /\ q <= a
        /\ a <= 0 => a <= q /\ q <= 0
    BY QuotientBetween
  <1>2. x - (mean + q) = a - q
    BY <1>1
  <1> HIDE DEF a, q
  <1>3. a * (a - q) \in Nat
    BY <1>1, SameSign
  <1>4. QED
    BY <1>2, <1>3 DEF a, q
-----------------------------------------------------------------------------
(* The models.                                                             *)

LEMMA ScaledIsNumbers ==
    ASSUME NEW impact \in Numbers
    PROVE  Scaled(impact) \in Numbers
  BY DEF Numbers, Scaled, Unit

\* A linear model's further observation: one more, and no less variance.
LEMMA RegressedGrows ==
    ASSUME NEW data \in Data, NEW x \in Int, NEW y \in Numbers
    PROVE  /\ Regressed(data, x, y) \in Data
           /\ Regressed(data, x, y).count = data.count + 1
           /\ Regressed(data, x, y).var >= data.var
  <1> DEFINE n == Grown(data.count)
             x2 == data.x + (x - data.x) \div n
             mean2 == [d \in Dims |-> data.mean[d] + (y[d] - data.mean[d]) \div n]
             square == (x - data.x) * (x - x2)
             cov2 == [d \in Dims |->
                        data.cov[d] + CoMoment(x - data.x, y[d] - data.mean[d], y[d] - mean2[d])]
  <1>1. n = data.count + 1 /\ n \in Nat \ {0} /\ data.x \in Int /\ data.var \in Nat
    BY DEF Data, Grown
  <1>2. x2 \in Int
    BY <1>1, QuotientBetween
  <1>3. square \in Nat
    BY <1>1, SquaresGrow
  <1>4. mean2 \in Numbers
    <2>1. ASSUME NEW d \in Dims
          PROVE  data.mean[d] + (y[d] - data.mean[d]) \div n \in Int
      <3>1. data.mean[d] \in Int /\ y[d] \in Int
        BY DEF Data, Numbers
      <3>2. (y[d] - data.mean[d]) \div n \in Int
        BY <1>1, <3>1, QuotientBetween
      <3>3. QED
        BY <3>1, <3>2
    <2>2. QED
      BY <2>1 DEF Numbers
  <1>5. cov2 \in Numbers
    <2>1. ASSUME NEW d \in Dims
          PROVE  data.cov[d] + CoMoment(x - data.x, y[d] - data.mean[d], y[d] - mean2[d]) \in Int
      <3>1. data.cov[d] \in Int /\ y[d] \in Int /\ mean2[d] \in Int
        BY <1>4 DEF Data, Numbers
      <3>2. QED
        BY <1>1, <3>1 DEF CoMoment
    <2>2. QED
      BY <2>1 DEF Numbers
  <1>6. Regressed(data, x, y) =
            [count |-> n, x |-> x2, mean |-> mean2, var |-> data.var + square, cov |-> cov2]
    BY DEF Regressed
  <1> HIDE DEF n, x2, mean2, square, cov2
  <1>7. QED
    BY <1>1, <1>2, <1>3, <1>4, <1>5, <1>6 DEF Data, Numbers

\* A moving average's further observation.
LEMMA SmoothedGrows ==
    ASSUME NEW data \in Data, NEW alpha \in Int, NEW y \in Numbers
    PROVE  /\ Smoothed(alpha, data, y) \in Data
           /\ Smoothed(alpha, data, y).count = data.count + 1
  <1> DEFINE mean2 == [d \in Dims |-> (alpha * y[d] + (5 - alpha) * data.mean[d]) \div 5]
  <1>1. mean2 \in Numbers
    <2>1. ASSUME NEW d \in Dims
          PROVE  (alpha * y[d] + (5 - alpha) * data.mean[d]) \div 5 \in Int
      <3>1. data.mean[d] \in Int /\ y[d] \in Int
        BY DEF Data, Numbers
      <3>2. alpha * y[d] + (5 - alpha) * data.mean[d] \in Int
        BY <3>1
      <3>3. QED
        BY <3>2, QuotientBetween
    <2>2. QED
      BY <2>1 DEF Numbers
  <1>2. Smoothed(alpha, data, y) = [data EXCEPT !.count = data.count + 1, !.mean = mean2]
    BY DEF Smoothed, Grown, Data
  <1>3. /\ data = [count |-> data.count, x |-> data.x, var |-> data.var,
                   mean |-> data.mean, cov |-> data.cov]
        /\ data.count \in Nat /\ data.x \in Int /\ data.var \in Nat
        /\ data.cov \in Numbers
    BY DEF Data, Numbers
  <1> HIDE DEF mean2
  <1>4. Smoothed(alpha, data, y) =
            [count |-> data.count + 1, x |-> data.x, var |-> data.var,
             mean |-> mean2, cov |-> data.cov]
    BY <1>2, <1>3
  <1>5. QED
    BY <1>1, <1>3, <1>4 DEF Data, Numbers

\* Where a new or further observation leads.
LEMMA ObservedGrows ==
    ASSUME NEW m, IsModel(m), NEW task, NEW complexity \in Int, NEW impact \in Numbers,
           m.kind # "none"
    PROVE  LET m2 == Observed(m, task, complexity, impact)
           IN  /\ IsModel(m2) /\ m2.kind = m.kind /\ m2.param = m.param
               /\ Known(m2, task)
               /\ Known(m, task) =>
                      /\ m2.tasks[task].count = m.tasks[task].count + 1
                      /\ m.kind = "linear" => m2.tasks[task].var >= m.tasks[task].var
  <1> DEFINE x == 12 * complexity
             y == Scaled(impact)
             data == IF Known(m, task) THEN NextData(m, m.tasks[task], x, y) ELSE FirstData(m, x, y)
             tasks2 == [t \in DOMAIN m.tasks \cup {task} |-> IF t = task THEN data ELSE m.tasks[t]]
  <1>1. x \in Int /\ y \in Numbers
    BY ScaledIsNumbers
  <1>2. /\ data \in Data
        /\ Known(m, task) =>
               /\ data.count = m.tasks[task].count + 1
               /\ m.kind = "linear" => data.var >= m.tasks[task].var
    <2>1. CASE Known(m, task)
      <3>1. m.tasks[task] \in Data /\ m.param \in Int
        BY <2>1 DEF Known, IsModel
      <3>2. CASE m.kind = "linear"
        <4>1. data = Regressed(m.tasks[task], x, y)
          BY <2>1, <3>2 DEF NextData
        <4>2. QED
          BY <1>1, <3>1, <4>1, RegressedGrows
      <3>3. CASE m.kind # "linear"
        <4>1. data = Smoothed(m.param, m.tasks[task], y)
          BY <2>1, <3>3 DEF NextData
        <4>2. QED
          BY <1>1, <3>1, <3>3, <4>1, SmoothedGrows
      <3>4. QED
        BY <3>2, <3>3
    <2>2. CASE ~Known(m, task)
      <3>1. data = [count |-> 1, x |-> IF m.kind = "linear" THEN x ELSE 0, var |-> 0,
                    mean |-> y, cov |-> NoDelta]
        BY <2>2 DEF FirstData, Blank
      <3>2. NoDelta \in Numbers
        BY DEF NoDelta, Numbers
      <3>3. QED
        BY <1>1, <2>2, <3>1, <3>2 DEF Data, Numbers
    <2>3. QED
      BY <2>1, <2>2
  <1>3. Observed(m, task, complexity, impact) =
            [kind |-> m.kind, param |-> m.param, tasks |-> tasks2]
    <2>1. Observed(m, task, complexity, impact) = [m EXCEPT !.tasks = tasks2]
      BY DEF Observed, IsModel
    <2>2. QED
      BY <2>1 DEF IsModel
  <1> HIDE DEF data
  <1>4. /\ DOMAIN tasks2 = DOMAIN m.tasks \cup {task}
        /\ \A t \in DOMAIN tasks2 : tasks2[t] \in Data
        /\ tasks2[task] = data
    BY <1>2 DEF IsModel
  <1>5. tasks2 = [t \in DOMAIN tasks2 |-> tasks2[t]]
    OBVIOUS
  <1> HIDE DEF tasks2
  <1>6. QED
    BY <1>2, <1>3, <1>4, <1>5 DEF IsModel, Known

\* What an observation leaves in the model, task by task.
LEMMA ObservedTasks ==
    ASSUME NEW m, IsModel(m), m.kind # "none", NEW task, NEW complexity, NEW impact,
           NEW m2, m2 = Observed(m, task, complexity, impact)
    PROVE  /\ \A u \in DOMAIN m.tasks : u # task => m2.tasks[u] = m.tasks[u]
           /\ Known(m, task) =>
                  m2.tasks[task] = NextData(m, m.tasks[task], 12 * complexity, Scaled(impact))
           /\ ~Known(m, task) => m2.tasks[task] = FirstData(m, 12 * complexity, Scaled(impact))
           /\ DOMAIN m2.tasks = DOMAIN m.tasks \cup {task}
  <1> DEFINE x == 12 * complexity
             y == Scaled(impact)
             data == IF Known(m, task) THEN NextData(m, m.tasks[task], x, y) ELSE FirstData(m, x, y)
             tasks2 == [u \in DOMAIN m.tasks \cup {task} |-> IF u = task THEN data ELSE m.tasks[u]]
  <1>1. m2 = [m EXCEPT !.tasks = tasks2]
    BY DEF Observed
  <1> HIDE DEF data
  <1>2. m2.tasks = tasks2
    BY <1>1 DEF IsModel
  <1>3. /\ DOMAIN tasks2 = DOMAIN m.tasks \cup {task} /\ tasks2[task] = data
        /\ \A u \in DOMAIN m.tasks : u # task => tasks2[u] = m.tasks[u]
    OBVIOUS
  <1>4. /\ Known(m, task) => data = NextData(m, m.tasks[task], x, y)
        /\ ~Known(m, task) => data = FirstData(m, x, y)
    BY DEF data
  <1>5. QED
    BY <1>2, <1>3, <1>4

\* An observation is one more for its task and none for the others.
LEMMA CountGrows ==
    ASSUME NEW m, IsModel(m), NEW task, NEW complexity \in Int, NEW impact \in Numbers,
           m.kind # "none", NEW m2, m2 = Observed(m, task, complexity, impact), NEW t
    PROVE  /\ m2.kind = m.kind
           /\ TaskStats(m2, t).count = TaskStats(m, t).count + (IF t = task THEN 1 ELSE 0)
  <1>1. /\ IsModel(m2) /\ m2.kind = m.kind /\ Known(m2, task)
        /\ Known(m, task) => m2.tasks[task].count = m.tasks[task].count + 1
    BY ObservedGrows
  <1>2. /\ DOMAIN m2.tasks = DOMAIN m.tasks \cup {task}
        /\ \A u \in DOMAIN m.tasks : u # task => m2.tasks[u] = m.tasks[u]
        /\ ~Known(m, task) => m2.tasks[task] = FirstData(m, 12 * complexity, Scaled(impact))
    BY ObservedTasks
  <1>3. \A x, y : FirstData(m, x, y).count = 1
    BY DEF FirstData, Blank
  <1>4. t \in DOMAIN m.tasks => m.tasks[t].count \in Int
    BY DEF IsModel, Data
  <1>5. CASE t = task
    BY <1>1, <1>2, <1>3, <1>4, <1>5 DEF TaskStats, Known
  <1>6. CASE t # task
    <2>1. Known(m2, t) <=> Known(m, t)
      BY <1>2, <1>6 DEF Known
    <2>2. Known(m, t) => m2.tasks[t].count = m.tasks[t].count
      BY <1>2, <1>6 DEF Known
    <2>3. TaskStats(m2, t).count = TaskStats(m, t).count /\ TaskStats(m, t).count \in Int
      BY <1>4, <2>1, <2>2 DEF TaskStats, Known
    <2>4. QED
      BY <1>1, <1>6, <2>3
  <1>7. QED
    BY <1>1, <1>5, <1>6

LEMMA CreatedIsModel ==
    ASSUME NEW cfg \in Configs, Starts(cfg)
    PROVE  IsModel(CreateModel(cfg))
  <1>1. cfg.min \in Int
    BY DecisionAssumption
  <1>2. \A kind, param : New(kind, param) = [kind |-> kind, param |-> param, tasks |-> <<>>]
    BY DEF New
  <1>3. <<>> = [t \in {} |-> <<>>[t]] /\ DOMAIN <<>> = {}
    OBVIOUS
  <1>4. AlphaOf(cfg.alpha) \in Int /\ AtLeastTwo(cfg.min) \in Int
    BY <1>1 DEF AlphaOf, AtLeastTwo
  <1>5. CreateModel(cfg).kind # "error"
    BY DEF Starts
  <1>6. CASE cfg.model = "none"
    BY <1>2, <1>3, <1>6 DEF CreateModel, IsModel
  <1>7. CASE cfg.model = "moving_average"
    BY <1>2, <1>3, <1>4, <1>7 DEF CreateModel, IsModel
  <1>8. CASE cfg.model = "linear"
    BY <1>2, <1>3, <1>4, <1>8 DEF CreateModel, IsModel
  <1>9. QED
    BY <1>5, <1>6, <1>7, <1>8 DEF CreateModel

LEMMA CreatedIsKnown ==
    ASSUME NEW cfg \in Configs, Starts(cfg)
    PROVE  CreateStrategy(cfg).type \in Predictives \cup {"threshold"}
  BY DEF Starts, CreateStrategy, Predictives

LEMMA SavedIsModel ==
    ASSUME NEW m, IsModel(m)
    PROVE  IsModel(Saved(m))
  BY DEF IsModel, Saved, EmptyFile

\* A foreign file gives every task a count and no more.
LEMMA LoadedIsModel ==
    ASSUME NEW m, NEW f, IsModel(m), IsModel(f)
    PROVE  IsModel(Loaded(m, f))
  <1>1. CASE m.kind = "none" \/ f.kind = "none" \/ f.kind = m.kind
    BY <1>1 DEF Loaded
  <1>2. CASE ~(m.kind = "none" \/ f.kind = "none" \/ f.kind = m.kind)
    <2> DEFINE tasks == [t \in DOMAIN f.tasks |-> Blank(f.tasks[t].count)]
    <2>1. Loaded(m, f) = [kind |-> m.kind, param |-> 0, tasks |-> tasks]
      BY <1>2 DEF Loaded, Foreign
    <2>2. NoDelta \in Numbers
      BY DEF NoDelta, Numbers
    <2>3. \A n \in Nat \ {0} : Blank(n) \in Data
      BY <2>2 DEF Blank, Data, Numbers
    <2>4. \A t \in DOMAIN tasks : tasks[t] \in Data
      <3>1. \A t \in DOMAIN f.tasks : f.tasks[t].count \in Nat \ {0}
        BY DEF IsModel, Data
      <3>2. QED
        BY <2>3, <3>1
    <2>5. tasks = [t \in DOMAIN tasks |-> tasks[t]]
      OBVIOUS
    <2> HIDE DEF tasks
    <2>6. QED
      BY <1>2, <2>1, <2>4, <2>5 DEF IsModel
  <1>3. QED
    BY <1>1, <1>2

\* A prediction is a number for each resource, and there is one when there is
\* enough data.
LEMMA PredictGives ==
    ASSUME NEW m, IsModel(m), NEW task, NEW complexity \in Int
    PROVE  /\ Enough(m, task) => Predict(m, task, complexity) \in Numbers
           /\ ~Enough(m, task) => Predict(m, task, complexity) = NoImpact
  <1>1. CASE Enough(m, task)
    <2>1. m.tasks[task] \in Data
      BY <1>1 DEF Enough, Known, IsModel
    <2>2. CASE m.kind # "linear"
      BY <1>1, <2>1, <2>2 DEF Predict, Data, Numbers
    <2>3. CASE m.kind = "linear"
      <3> DEFINE data == m.tasks[task]
                 x == 12 * complexity
      <3>1. data.var \in Nat /\ data.x \in Int /\ x \in Int
        BY <2>1 DEF Data
      <3> HIDE DEF x
      <3>2. ASSUME NEW d \in Dims
            PROVE  (IF data.var = 0 THEN data.mean[d]
                    ELSE data.mean[d] + (data.cov[d] * (x - data.x)) \div data.var) \in Int
        <4>1. data.mean[d] \in Int /\ data.cov[d] \in Int
          BY <2>1 DEF Data
        <4>2. data.cov[d] * (x - data.x) \in Int
          BY <3>1, <4>1
        <4>3. QED
          BY <3>1, <4>1, <4>2, QuotientBetween
      <3>3. Line(data, x) \in Numbers
        BY <3>2 DEF Line, Numbers
      <3>4. QED
        BY <1>1, <2>3, <3>3 DEF Predict, x
    <2>4. QED
      BY <1>1, <2>2, <2>3
  <1>2. QED
    BY <1>1 DEF Predict

\* One more observation makes a model no less sure, and a model that is sure
\* predicts.
LEMMA ObservedIsSurer ==
    ASSUME NEW m, IsModel(m), NEW task, NEW complexity \in Int, NEW impact \in Numbers,
           LET m2 == Observed(m, task, complexity, impact)
           IN  m.kind = "moving_average" => m2.tasks[task].count <= 50
    PROVE  LET m2 == Observed(m, task, complexity, impact)
           IN  /\ Confidence(m2, task) >= Confidence(m, task)
               /\ Confidence(m2, task) > 0 => Predict(m2, task, 0) # NoImpact
  <1>1. CASE m.kind = "none"
    <2>1. Observed(m, task, complexity, impact) = m /\ ~Enough(m, task)
      BY <1>1 DEF Observed, IsModel, Enough, Known
    <2>2. QED
      BY <2>1 DEF Confidence
  <1>2. CASE m.kind # "none"
    <2> DEFINE m2 == Observed(m, task, complexity, impact)
    <2>1. /\ IsModel(m2) /\ m2.kind = m.kind /\ m2.param = m.param
          /\ Known(m2, task)
          /\ Known(m, task) =>
                 /\ m2.tasks[task].count = m.tasks[task].count + 1
                 /\ m.kind = "linear" => m2.tasks[task].var >= m.tasks[task].var
          /\ m.kind = "moving_average" => m2.tasks[task].count <= 50
      BY <1>2, ObservedGrows
    <2> HIDE DEF m2
    <2>2. m2.tasks[task] \in Data /\ m.param \in Int /\ m.kind \in {"linear", "moving_average"}
      BY <1>2, <2>1 DEF Known, IsModel
    <2>3. Known(m, task) => m.tasks[task] \in Data
      BY DEF Known, IsModel
    <2>4. Confidence(m2, task) >= Confidence(m, task)
      <3>1. CASE m.kind = "linear"
        <4>1. CASE Enough(m, task)
          <5>1. Known(m, task) /\ m.tasks[task].count >= m.param
            BY <3>1, <4>1 DEF Enough
          <5>2. Enough(m2, task)
            BY <2>1, <2>2, <2>3, <3>1, <5>1 DEF Enough, Data
          <5>3. QED
            BY <2>1, <2>2, <2>3, <3>1, <4>1, <5>1, <5>2
               DEF Confidence, LinearConfidence, Data
        <4>2. CASE ~Enough(m, task)
          <5>1. Confidence(m, task) = 0
            BY <4>2 DEF Confidence
          <5>2. CASE Enough(m2, task)
            BY <2>1, <2>2, <3>1, <5>1, <5>2 DEF Confidence, Enough, LinearConfidence, Data
          <5>3. CASE ~Enough(m2, task)
            BY <5>1, <5>3 DEF Confidence
          <5>4. QED
            BY <5>2, <5>3
        <4>3. QED
          BY <4>1, <4>2
      <3>2. CASE m.kind = "moving_average"
        <4>1. Enough(m2, task) /\ m2.tasks[task].count \in 1..50
          BY <2>1, <2>2, <3>2 DEF Enough, Data
        <4>2. Confidence(m2, task) = m2.tasks[task].count
          BY <2>1, <3>2, <4>1 DEF Confidence, AverageConfidence, FastExpBase
        <4>3. CASE Known(m, task)
          <5>1. m.tasks[task].count \in 1..49 /\ Enough(m, task)
            BY <2>1, <2>3, <3>2, <4>1, <4>3 DEF Enough, Data
          <5>2. Confidence(m, task) = m.tasks[task].count
            BY <3>2, <5>1 DEF Confidence, AverageConfidence, FastExpBase
          <5>3. QED
            BY <2>1, <4>2, <4>3, <5>1, <5>2
        <4>4. CASE ~Known(m, task)
          BY <4>1, <4>2, <4>4 DEF Confidence, Enough
        <4>5. QED
          BY <4>3, <4>4
      <3>3. QED
        BY <2>2, <3>1, <3>2
    <2>5. Confidence(m2, task) > 0 => Predict(m2, task, 0) # NoImpact
      <3>1. Enough(m2, task) => Predict(m2, task, 0) \in Numbers
        BY <2>1, PredictGives
      <3>2. ~Enough(m2, task) => Confidence(m2, task) = 0
        BY DEF Confidence
      <3>3. QED
        BY <3>1, <3>2, DecisionAssumption DEF Numbers
    <2>6. QED
      BY <2>4, <2>5 DEF m2
  <1>3. QED
    BY <1>1, <1>2
-----------------------------------------------------------------------------
(* The invariant.                                                          *)

LEMMA InitDInv == Init => DInv
  <1> SUFFICES ASSUME Init PROVE DInv
    OBVIOUS
  <1>1. PICK cfg \in Configs :
            Starts(cfg) /\ model = CreateModel(cfg) /\ strategy = CreateStrategy(cfg)
    BY DEF Init
  <1>2. IsModel(model) /\ KnownStrategy
    BY <1>1, CreatedIsModel, CreatedIsKnown DEF KnownStrategy
  <1>3. file.exists => IsModel(file.model)
    BY DecisionAssumption DEF Init, NoFile
  <1>4. /\ decider = [d \in Deciders |-> Idle] /\ observer = [o \in Observers |-> Idle]
        /\ thresholds \in ThresholdSets
    BY DEF Init
  <1>5. QED
    BY <1>2, <1>3, <1>4 DEF DInv, Arrays, Models, Contexts, DecideNeverPanics, Idle

\* Only a decider's own steps change what it is at, until the process restarts.
LEMMA DeciderStepDoes ==
    ASSUME DInv, NEW d \in Deciders, DeciderStep(d)
    PROVE  DInv'
  <1>1. /\ UNCHANGED <<model, strategy, thresholds, pending, file, observer>>
        /\ DOMAIN decider' = Deciders
        /\ decider' = [e \in Deciders |-> decider'[e]]
        /\ \A e \in Deciders \ {d} : decider'[e] = decider[e]
    BY DEF DInv, Arrays, DeciderStep, AskGarbled, Ask, BuildContext, AskConfidence, Conclude,
           ReplySent, askUnchanged, managerVars
  <1>2. Arrays' /\ Models' /\ KnownStrategy'
    BY <1>1 DEF DInv, Arrays, Models, KnownStrategy
  <1>3. ASSUME /\ decider'[d].step = "copied" =>
                      /\ decider'[d].request \in Requests
                      /\ decider'[d].thresholds \in ThresholdSets
               /\ decider'[d].step \in {"built", "confident"} =>
                      /\ decider'[d].thresholds \in ThresholdSets
                      /\ decider'[d].state \in Readings
                      /\ decider'[d].prediction \in Numbers \cup {NoImpact}
               /\ decider'[d].step = "replied" => decider'[d].status # 500
        PROVE  DInv'
    BY <1>1, <1>2, <1>3 DEF DInv, Contexts, DecideNeverPanics
  <1>4. CASE AskGarbled(d)
    BY <1>3, <1>4 DEF AskGarbled, DInv, Arrays
  <1>5. CASE Ask(d)
    BY <1>3, <1>5 DEF Ask, DInv, Arrays
  <1>6. CASE BuildContext(d)
    <2>1. PICK reading \in Readings : decider'[d] =
              [step |-> "built", thresholds |-> decider[d].thresholds,
               pending |-> decider[d].pending, task |-> decider[d].request.task,
               state |-> reading,
               prediction |-> Predict(model, decider[d].request.task, decider[d].request.complexity)]
      BY <1>6 DEF BuildContext, DInv, Arrays
    <2>2. decider[d].request \in Requests /\ decider[d].thresholds \in ThresholdSets
      BY <1>6 DEF BuildContext, DInv, Contexts
    <2>3. decider[d].request.complexity \in Int /\ IsModel(model)
      BY <2>2, DecisionAssumption DEF DInv, Models
    <2>4. Predict(model, decider[d].request.task, decider[d].request.complexity)
              \in Numbers \cup {NoImpact}
      BY <2>3, PredictGives
    <2>5. QED
      BY <1>3, <2>1, <2>2, <2>4
  <1>7. CASE AskConfidence(d)
    <2>1. /\ decider'[d].step = "confident"
          /\ decider'[d].thresholds = decider[d].thresholds
          /\ decider'[d].state = decider[d].state
          /\ decider'[d].prediction = decider[d].prediction
      BY <1>7 DEF AskConfidence, DInv, Arrays
    <2>2. QED
      BY <1>3, <1>7, <2>1 DEF AskConfidence, DInv, Contexts
  <1>8. CASE Conclude(d)
    <2> DEFINE result == Decision(d, strategy)
    <2>1. result.by # "panic"
      <3>1. strategy.type # "panic"
        BY DEF DInv, KnownStrategy, Predictives
      <3>2. QED
        BY <3>1 DEF Decision, Decide, Undecided, DecideNow, DecideAhead, FellBack, Usable
    <2> HIDE DEF result
    <2>2. decider'[d] =
              [step |-> "replied", by |-> result.by, future |-> result.future,
               status |-> IF result.by = "panic" THEN 500 ELSE IF result.allowed THEN 200 ELSE 503,
               reasons |-> IF result.allowed THEN {} ELSE result.reasons]
      BY <1>8 DEF Conclude, DInv, Arrays, result
    <2>3. decider'[d].step = "replied" /\ decider'[d].status # 500
      <3>1. decider'[d].status = IF result.allowed THEN 200 ELSE 503
        BY <2>1, <2>2
      <3>2. QED
        BY <2>2, <3>1
    <2>4. QED
      BY <1>3, <2>3
  <1>9. CASE ReplySent(d)
    BY <1>3, <1>9 DEF ReplySent, DInv, Arrays, Idle
  <1>10. QED
    BY <1>4, <1>5, <1>6, <1>7, <1>8, <1>9 DEF DeciderStep

\* A step that leaves the deciders alone, or makes them all idle.
LEMMA OthersKeep ==
    ASSUME DInv, Arrays', Models', KnownStrategy',
           decider' = decider \/ decider' = [d \in Deciders |-> Idle]
    PROVE  DInv'
  BY DEF DInv, Contexts, DecideNeverPanics, Idle

LEMMA Invariance == DInv /\ [Next]_vars => DInv'
  <1> SUFFICES ASSUME DInv, [Next]_vars PROVE DInv'
    OBVIOUS
  <1>1. CASE UNCHANGED vars
    BY <1>1 DEF vars, managerVars, DInv, Arrays, Models, KnownStrategy, Contexts, DecideNeverPanics
  <1>2. CASE \E d \in Deciders : DeciderStep(d)
    BY <1>2, DeciderStepDoes
  <1>3. ASSUME NEW o \in Observers, ObserverStep(o) PROVE DInv'
    <2>1. /\ UNCHANGED <<strategy, thresholds, file, decider>>
          /\ observer' = [p \in Observers |-> observer'[p]]
      BY <1>3 DEF ObserverStep, ObserveFeed, ObserveReport, ObserveReturns, observeUnchanged,
                  managerVars, DInv, Arrays
    <2>2. IsModel(model')
      <3>1. CASE ObserveFeed(o)
        <4>1. PICK b \in Observations : model' = Observed(model, b.task, b.complexity, b.impact)
          BY <3>1 DEF ObserveFeed, Learned
        <4>2. b.complexity \in Int /\ b.impact \in Numbers /\ IsModel(model)
          BY DecisionAssumption DEF Numbers, DInv, Models
        <4>3. CASE model.kind = "none"
          BY <4>1, <4>2, <4>3 DEF Observed
        <4>4. CASE model.kind # "none"
          BY <4>1, <4>2, <4>4, ObservedGrows
        <4>5. QED
          BY <4>3, <4>4
      <3>2. CASE model' = model
        BY <3>2 DEF DInv, Models
      <3>3. QED
        BY <1>3, <3>1, <3>2 DEF ObserverStep, ObserveReport, ObserveReturns
    <2>3. Arrays' /\ Models' /\ KnownStrategy'
      BY <2>1, <2>2 DEF DInv, Arrays, Models, KnownStrategy
    <2>4. QED
      BY <2>1, <2>3, OthersKeep
  <1>4. CASE AddPendingTask \/ RemovePendingTask \/ UpdateThresholds
    <2>1. UNCHANGED <<model, strategy, file, decider, observer>> /\ thresholds' \in ThresholdSets
      BY <1>4 DEF AddPendingTask, RemovePendingTask, UpdateThresholds, listsUnchanged, DInv, Arrays
    <2>2. QED
      BY <2>1, OthersKeep DEF DInv, Arrays, Models, KnownStrategy
  <1>5. CASE SaveModel \/ DeleteModel
    <2>1. UNCHANGED <<model, strategy, thresholds, decider, observer>>
      BY <1>5 DEF SaveModel, DeleteModel, managerVars
    <2>2. IsModel(Saved(model)) /\ IsModel(model)
      BY SavedIsModel DEF DInv, Models
    <2>3. file'.exists => IsModel(file'.model)
      BY <1>5, <2>2 DEF SaveModel, DeleteModel, NoFile, DInv, Models
    <2>4. QED
      BY <2>1, <2>2, <2>3, OthersKeep DEF DInv, Arrays, Models, KnownStrategy
  <1>6. CASE LoadModel
    <2>1. /\ UNCHANGED <<strategy, thresholds, file, decider>>
          /\ observer' = [o \in Observers |-> observer'[o]]
          /\ IsModel(model) /\ IsModel(file.model) /\ file.exists
          /\ model' = Loaded(model, file.model)
      BY <1>6 DEF LoadModel, managerVars, DInv, Models
    <2>2. IsModel(model')
      BY <2>1, LoadedIsModel
    <2>3. QED
      BY <2>1, <2>2, OthersKeep DEF DInv, Arrays, Models, KnownStrategy
  <1>7. CASE Restart
    <2>1. PICK cfg \in Configs :
              Starts(cfg) /\ model' = CreateModel(cfg) /\ strategy' = CreateStrategy(cfg)
      BY <1>7 DEF Restart
    <2>2. IsModel(model') /\ KnownStrategy'
      BY <2>1, CreatedIsModel, CreatedIsKnown DEF KnownStrategy
    <2>3. /\ decider' = [d \in Deciders |-> Idle] /\ observer' = [o \in Observers |-> Idle]
          /\ thresholds' \in ThresholdSets /\ file' = file
      BY <1>7 DEF Restart
    <2>4. QED
      BY <2>2, <2>3, OthersKeep DEF DInv, Arrays, Models
  <1>8. QED
    BY <1>1, <1>2, <1>3, <1>4, <1>5, <1>6, <1>7 DEF Next, StorageStep

LEMMA SpecDInv == Spec => []DInv
  BY InitDInv, Invariance, PTL DEF Spec
-----------------------------------------------------------------------------
(* The pending tasks.                                                      *)

\* Whose tasks are pending: those that were added.
Queues ==
    /\ pending \in Seq(Pendings) /\ Len(pending) <= MaxPending
    /\ \A d \in Deciders : decider[d].step \in {"copied", "built", "confident"} =>
           decider[d].pending \in Seq(Pendings)

\* A list without the first task of a name is a list, and not longer.
Without(s, t) == RemoveFirstMatch(s, LAMBDA p : p.task = t)

LEMMA RemovalKeeps ==
    ASSUME NEW S, NEW s \in Seq(S), NEW t
    PROVE  Without(s, t) \in Seq(S) /\ Len(Without(s, t)) <= Len(s)
  <1> DEFINE I == {i \in 1..Len(s) : s[i].task = t}
             i == Min(I)
             rest == Without(s, t)
  <1>1. CASE I = {}
    <2>1. ~\E j \in 1..Len(s) : s[j].task = t
      BY <1>1
    <2>2. rest = s
      BY <2>1 DEF Without, RemoveFirstMatch
    <2>3. QED
      BY <2>2
  <1>2. CASE I # {}
    <2>1. i \in I
      <3>1. I \subseteq Nat
        OBVIOUS
      <3> HIDE DEF I
      <3>2. \E j \in I : \A k \in I : j <= k
        BY <1>2, <3>1, LeastNatural
      <3>3. QED
        BY <3>2 DEF Min
    <2>2. rest = SubSeq(s, 1, i - 1) \o SubSeq(s, i + 1, Len(s))
      BY <1>2 DEF Without, RemoveFirstMatch, RemoveAt, SelectInSeq
    <2>3. i \in 1..Len(s) /\ Len(s) \in Nat
      BY <2>1
    <2> HIDE DEF i, I, rest
    <2>4. /\ SubSeq(s, 1, i - 1) \in Seq(S)
          /\ Len(SubSeq(s, 1, i - 1)) = i - 1
      <3>1. \A j \in 1..(i - 1) : s[j] \in S
        BY <2>3
      <3>2. QED
        BY <2>3, <3>1, SubSeqProperties
    <2>5. /\ SubSeq(s, i + 1, Len(s)) \in Seq(S)
          /\ Len(SubSeq(s, i + 1, Len(s))) = Len(s) - i
      <3>1. \A j \in (i + 1)..Len(s) : s[j] \in S
        BY <2>3
      <3>2. QED
        BY <2>3, <3>1, SubSeqProperties
    <2>6. /\ rest \in Seq(S)
          /\ Len(rest) = (i - 1) + (Len(s) - i)
      BY <2>2, <2>4, <2>5, ConcatProperties
    <2>7. QED
      BY <2>3, <2>6 DEF rest
  <1>3. QED
    BY <1>1, <1>2

LEMMA InitQueues == Init => Queues
  <1> SUFFICES ASSUME Init PROVE Queues
    OBVIOUS
  <1>1. pending = <<>> /\ decider = [d \in Deciders |-> Idle]
    BY DEF Init
  <1>2. <<>> \in Seq(Pendings) /\ Len(<<>>) = 0
    OBVIOUS
  <1>3. QED
    BY <1>1, <1>2, DecisionAssumption DEF Queues, Idle

LEMMA QueuesStep == DInv /\ Queues /\ [Next]_vars => Queues'
  <1> SUFFICES ASSUME DInv, Queues, [Next]_vars PROVE Queues'
    OBVIOUS
  <1>1. ASSUME NEW d \in Deciders, DeciderStep(d) PROVE Queues'
    <2>1. /\ pending' = pending
          /\ \A e \in Deciders \ {d} : decider'[e] = decider[e]
      BY <1>1 DEF DInv, Arrays, DeciderStep, AskGarbled, Ask, BuildContext, AskConfidence,
         Conclude, ReplySent, askUnchanged, managerVars
    <2>2. decider'[d].step \in {"copied", "built", "confident"} =>
              decider'[d].pending = (IF decider[d].step = "idle" THEN pending ELSE decider[d].pending)
              /\ decider[d].step \in {"idle", "copied", "built"}
      BY <1>1 DEF DInv, Arrays, DeciderStep, AskGarbled, Ask, BuildContext, AskConfidence,
         Conclude, ReplySent, Idle
    <2>3. QED
      BY <2>1, <2>2 DEF Queues
  <1>2. CASE AddPendingTask
    <2>1. PICK p \in Pendings : pending' = Append(pending, p)
      BY <1>2 DEF AddPendingTask
    <2>2. pending' \in Seq(Pendings) /\ Len(pending') = Len(pending) + 1
      BY <2>1 DEF Queues
    <2>3. Len(pending) < MaxPending /\ decider' = decider
      BY <1>2 DEF AddPendingTask, listsUnchanged
    <2>4. Len(pending) \in Nat /\ MaxPending \in Nat
      BY DecisionAssumption DEF Queues
    <2>5. QED
      BY <2>2, <2>3, <2>4 DEF Queues
  <1>3. CASE RemovePendingTask
    <2>1. PICK t \in TaskNames : pending' = Without(pending, t)
      BY <1>3 DEF RemovePendingTask, Without
    <2>2. pending' \in Seq(Pendings) /\ Len(pending') <= Len(pending)
      BY <2>1, RemovalKeeps DEF Queues
    <2>3. decider' = decider
      BY <1>3 DEF RemovePendingTask, listsUnchanged
    <2>4. Len(pending) \in Nat /\ Len(pending') \in Nat /\ MaxPending \in Nat
      BY <2>2, DecisionAssumption DEF Queues
    <2>5. QED
      BY <2>2, <2>3, <2>4 DEF Queues
  <1>4. CASE Restart
    <2>1. pending' = <<>> /\ decider' = [d \in Deciders |-> Idle]
      BY <1>4 DEF Restart
    <2>2. <<>> \in Seq(Pendings) /\ Len(<<>>) = 0
      OBVIOUS
    <2>3. QED
      BY <2>1, <2>2, DecisionAssumption DEF Queues, Idle
  <1>5. CASE UNCHANGED <<pending, decider>>
    BY <1>5 DEF Queues
  <1>6. CASE UpdateThresholds \/ SaveModel \/ DeleteModel \/ LoadModel \/ UNCHANGED vars
    BY <1>5, <1>6 DEF UpdateThresholds, SaveModel, DeleteModel, LoadModel, vars, managerVars,
       listsUnchanged
  <1>7. ASSUME NEW o \in Observers, ObserverStep(o) PROVE Queues'
    BY <1>5, <1>7 DEF ObserverStep, ObserveFeed, ObserveReport, ObserveReturns,
       observeUnchanged, managerVars
  <1>8. QED
    BY <1>1, <1>2, <1>3, <1>4, <1>6, <1>7 DEF Next, StorageStep

LEMMA SpecQueues == Spec => []Queues
  BY SpecDInv, InitQueues, QueuesStep, PTL DEF Spec

\* The impacts of a list of pending tasks add up to numbers, whatever the model
\* predicts for those without a prediction.
LEMMA ImpactAddsUp ==
    ASSUME IsModel(model), NEW tasks \in Seq(Pendings)
    PROVE  PendingImpact(tasks) \in Numbers
  <1> DEFINE known == {i \in DOMAIN tasks : ImpactOf(tasks[i]) # NoImpact}
  <1>1. IsFiniteSet(known)
    <2>1. DOMAIN tasks = 1..Len(tasks) /\ Len(tasks) \in Nat
      OBVIOUS
    <2>2. IsFiniteSet(DOMAIN tasks)
      BY <2>1, FS_Interval
    <2>3. QED
      BY <2>2, FS_Subset
  <1>2. ASSUME NEW i \in known
        PROVE  ImpactOf(tasks[i]) \in Numbers
    <2>1. tasks[i] \in Pendings /\ ImpactOf(tasks[i]) # NoImpact
      OBVIOUS
    <2>2. /\ tasks[i].complexity \in Int
          /\ tasks[i].predicted # NoImpact => tasks[i].predicted \in Numbers
      BY <2>1, DecisionAssumption DEF Numbers
    <2>3. Predict(model, tasks[i].task, tasks[i].complexity) \in Numbers \cup {NoImpact}
      BY <2>2, PredictGives
    <2>4. QED
      BY <2>1, <2>2, <2>3 DEF ImpactOf
  <1> HIDE DEF known
  <1>3. ASSUME NEW d \in Dims
        PROVE  SumFunction([i \in known |-> ImpactOf(tasks[i])[d]]) \in Int
    <2> DEFINE f == [i \in known |-> ImpactOf(tasks[i])[d]]
    <2>1. DOMAIN f = known /\ \A i \in known : f[i] \in Int
      BY <1>2 DEF Numbers
    <2> HIDE DEF f
    <2>2. SumFunctionOnSet(f, DOMAIN f) \in Int
      BY <1>1, <2>1, SumIsInt
    <2>3. SumFunction(f) \in Int
      BY <2>2 DEF SumFunction
    <2>4. QED
      BY <2>3 DEF f
  <1>4. PendingImpact(tasks) = [d \in Dims |-> SumFunction([i \in known |-> ImpactOf(tasks[i])[d]])]
    BY DEF PendingImpact, known
  <1>5. QED
    BY <1>3, <1>4 DEF Numbers

LEMMA QueueAddsUp == DInv /\ Queues => QueueIsSummed
  BY ImpactAddsUp DEF DInv, Models, Queues, QueueIsSummed, Numbers
-----------------------------------------------------------------------------
(* What a strategy denies.                                                 *)

\* A strategy that predicts denies a resource whose future is over its limit.
LEMMA AheadDenies ==
    ASSUME NEW type \in Predictives, NEW c, NEW queued, NEW r \in Dims,
           c.thresholds # NoThresholds, Usable(c.sure, c.prediction)
    PROVE  LET s == [type |-> type, buffer |-> 50]
           IN  Overload[r] \in Decide(s, c, c.sure, queued).reasons
               <=> Future(c.state, Delta(s, c.prediction, queued))[r] > c.thresholds[r] * Unit
  <1> DEFINE s == [type |-> type, buffer |-> 50]
             future == Future(c.state, Delta(s, c.prediction, queued))
  <1>1. s.type # "threshold" /\ c.prediction # NoImpact
    BY DEF Predictives, Usable
  <1>2. Decide(s, c, c.sure, queued).reasons = FutureReasons(future, c.thresholds)
    BY <1>1 DEF Decide, DecideAhead
  <1> HIDE DEF future
  <1>3. \A d \in Dims : Overload[d] = Overload[r] => d = r
    BY DEF Dims, Overload
  <1>4. Overload[r] \in FutureReasons(future, c.thresholds) <=> future[r] > c.thresholds[r] * Unit
    BY <1>3 DEF FutureReasons
  <1>5. QED
    BY <1>2, <1>4 DEF future

\* More impact never means less of a future.
LEMMA ClampMonotone ==
    ASSUME NEW a \in Int, NEW b \in Int, a <= b
    PROVE  Clamp(a) \in Int /\ Clamp(b) \in Int /\ Clamp(a) <= Clamp(b)
  <1>1. 100 * Unit = 300000
    BY DEF Unit
  <1>2. QED
    BY <1>1 DEF Clamp

\* What is over its limit now is over it after an impact that is not negative.
LEMMA OverStays ==
    ASSUME NEW now \in 0..100, NEW limit \in Int, now > limit, NEW p \in Int, p >= 0
    PROVE  Clamp(now * Unit + p) > limit * Unit
  <1>1. now * Unit \in Int /\ limit * Unit \in Int /\ now * Unit + p \in Int
    BY DEF Unit
  <1>2. now * Unit >= 0 /\ now * Unit > limit * Unit /\ limit * Unit < 300000
    BY DEF Unit
  <1> DEFINE v == now * Unit
             w == limit * Unit
  <1>3. v \in Int /\ w \in Int /\ v >= 0 /\ v > w /\ w < 300000
    BY <1>1, <1>2
  <1> HIDE DEF v, w
  <1>4. Clamp(v + p) = (IF v + p < 0 THEN 0 ELSE IF v + p > 300000 THEN 300000 ELSE v + p)
    BY DEF Clamp, Unit
  <1>5. Clamp(v + p) > w
    BY <1>3, <1>4
  <1>6. QED
    BY <1>5 DEF v, w

LEMMA PercentIsInt ==
    \A v : v \in 0..100 \/ v \in -1..100 => v \in Int
  OBVIOUS

LEMMA FirstGpu ==
    ASSUME NEW S, NEW gpus \in Seq(S), gpus # <<>>
    PROVE  1 \in DOMAIN gpus /\ gpus[1] \in S
  OBVIOUS

LEMMA CurrentIsInt ==
    ASSUME NEW s \in Readings, NEW r \in Dims, ~Missing(s, r)
    PROVE  Current(s, r) \in Int
  <1>1. /\ s.cpu \in 0..100 /\ s.memory \in 0..100
        /\ s.gpus \in Seq([usage : 0..100, vram : -1..100])
    BY DecisionAssumption
  <1>2. s.gpus # <<>> => s.gpus[1] \in [usage : 0..100, vram : -1..100]
    BY <1>1, FirstGpu
  <1>3. s.gpus # <<>> => s.gpus[1].usage \in 0..100 /\ s.gpus[1].vram \in -1..100
    BY <1>2
  <1>4. Current(s, r) \in 0..100 \/ Current(s, r) \in -1..100
    <2>1. CASE r = "cpu" \/ r = "memory"
      BY <1>1, <2>1 DEF Current
    <2>2. CASE r = "gpu" \/ r = "vram"
      BY <1>3, <2>2 DEF Current, Missing
    <2>3. QED
      BY <2>1, <2>2 DEF Dims
  <1>5. QED
    BY <1>4, PercentIsInt, Zenon

LEMMA FutureMonotone ==
    ASSUME NEW s \in Readings, NEW delta1, NEW delta2, NEW r \in Dims,
           delta1[r] \in Int, delta2[r] \in Int, delta1[r] <= delta2[r]
    PROVE  /\ Future(s, delta1)[r] \in Int /\ Future(s, delta2)[r] \in Int
           /\ Future(s, delta1)[r] <= Future(s, delta2)[r]
  <1>1. CASE Missing(s, r)
    <2>1. Future(s, delta1)[r] = 0 /\ Future(s, delta2)[r] = 0
      BY <1>1 DEF Future, Clamp, Unit
    <2>2. QED
      BY <2>1
  <1>2. CASE ~Missing(s, r)
    <2>1. Current(s, r) \in Int
      BY <1>2, CurrentIsInt
    <2>2. /\ Future(s, delta1)[r] = Clamp(Current(s, r) * Unit + delta1[r])
          /\ Future(s, delta2)[r] = Clamp(Current(s, r) * Unit + delta2[r])
      BY <1>2 DEF Future
    <2>3. /\ Current(s, r) * Unit + delta1[r] \in Int
          /\ Current(s, r) * Unit + delta2[r] \in Int
          /\ Current(s, r) * Unit + delta1[r] <= Current(s, r) * Unit + delta2[r]
      BY <2>1 DEF Unit
    <2> DEFINE a == Current(s, r) * Unit + delta1[r]
               b == Current(s, r) * Unit + delta2[r]
    <2> HIDE DEF a, b
    <2>4. Clamp(a) \in Int /\ Clamp(b) \in Int /\ Clamp(a) <= Clamp(b)
      BY <2>3, ClampMonotone DEF a, b
    <2>5. QED
      BY <2>2, <2>4 DEF a, b
  <1>3. QED
    BY <1>1, <1>2

LEMMA BufferAdds ==
    ASSUME NEW delta \in Int, delta >= 0
    PROVE  Buffered(delta, 50) \in Int /\ delta <= Buffered(delta, 50)
  BY DEF Buffered

\* What the threshold strategy denies now, with one GPU at most, is over its
\* limit now; and it is not missing unless the limit is below zero.
LEMMA DeniedNow ==
    ASSUME NEW s \in Readings, NEW t, \A d \in Dims : t[d] \in Int, NEW r \in Dims,
           Len(s.gpus) <= 1, Overload[r] \in Check(s, t)
    PROVE  /\ Missing(s, r) => t[r] < 0
           /\ ~Missing(s, r) => Current(s, r) \in 0..100 /\ Current(s, r) > t[r]
  <1> DEFINE over == {i \in DOMAIN s.gpus : s.gpus[i].usage > t.gpu \/ s.gpus[i].vram > t.vram}
             first == s.gpus[CHOOSE i \in over : \A j \in over : i <= j]
  <1>1. /\ s.cpu \in 0..100 /\ s.memory \in 0..100
        /\ s.gpus \in Seq([usage : 0..100, vram : -1..100])
    BY DecisionAssumption
  <1>2. /\ t["cpu"] = t.cpu /\ t["memory"] = t.memory /\ t["gpu"] = t.gpu /\ t["vram"] = t.vram
        /\ t.cpu \in Int /\ t.memory \in Int /\ t.gpu \in Int /\ t.vram \in Int
    BY DEF Dims
  <1>3. DOMAIN s.gpus \subseteq {1} /\ (DOMAIN s.gpus # {} => s.gpus # <<>>)
    BY <1>1
  <1>4. over # {} => /\ over = {1} /\ first = s.gpus[1] /\ s.gpus # <<>>
                     /\ s.gpus[1].usage \in 0..100 /\ s.gpus[1].vram \in -1..100
                     /\ s.gpus[1].usage > t.gpu \/ s.gpus[1].vram > t.vram
    <2> SUFFICES ASSUME over # {}
                 PROVE  /\ over = {1} /\ first = s.gpus[1] /\ s.gpus # <<>>
                        /\ s.gpus[1].usage \in 0..100 /\ s.gpus[1].vram \in -1..100
                        /\ s.gpus[1].usage > t.gpu \/ s.gpus[1].vram > t.vram
      OBVIOUS
    <2>1. over = {1} /\ DOMAIN s.gpus # {} /\ 1 \in DOMAIN s.gpus
      BY <1>3
    <2>2. s.gpus[1] \in [usage : 0..100, vram : -1..100]
      BY <1>1, <1>3, <2>1, FirstGpu
    <2>3. s.gpus[1].usage > t.gpu \/ s.gpus[1].vram > t.vram
      BY <2>1
    <2> HIDE DEF over
    <2>4. (CHOOSE i \in over : \A j \in over : i <= j) = 1
      BY <2>1
    <2>5. QED
      BY <1>3, <2>1, <2>2, <2>3, <2>4
  <1>5. Check(s, t) =
            {q \in {"cpu_overload"} : s.cpu > t.cpu}
            \cup {q \in {"memory_overload"} : s.memory > t.memory}
            \cup {q \in {"gpu_overload"} : over # {} /\ first.usage > t.gpu}
            \cup {q \in {"vram_overload"} : over # {} /\ first.usage <= t.gpu}
            \cup {q \in {"storage_low"} : \E free \in s.disks : free < t.minFree}
    BY DEF Check
  <1> HIDE DEF over, first
  <1>6. CASE r = "cpu"
    <2>1. s.cpu > t.cpu
      BY <1>5, <1>6 DEF Overload
    <2>2. QED
      BY <1>1, <1>2, <1>6, <2>1 DEF Missing, Current
  <1>7. CASE r = "memory"
    <2>1. s.memory > t.memory
      BY <1>5, <1>7 DEF Overload
    <2>2. QED
      BY <1>1, <1>2, <1>7, <2>1 DEF Missing, Current
  <1>8. CASE r = "gpu"
    <2>1. over # {} /\ first.usage > t.gpu
      BY <1>5, <1>8 DEF Overload
    <2>2. QED
      BY <1>2, <1>4, <1>8, <2>1 DEF Missing, Current
  <1>9. CASE r = "vram"
    <2>1. over # {} /\ first.usage <= t.gpu
      BY <1>5, <1>9 DEF Overload
    <2>2. s.gpus[1].usage <= t.gpu /\ s.gpus[1].usage \in Int /\ t.gpu \in Int
      <3>1. first = s.gpus[1] /\ s.gpus[1].usage \in 0..100
        BY <1>4, <2>1
      <3>2. s.gpus[1].usage \in Int
        BY <3>1, PercentIsInt, Zenon
      <3>3. QED
        BY <1>2, <2>1, <3>1, <3>2, Zenon
    <2>3. s.gpus[1].vram > t.vram /\ s.gpus[1].vram \in -1..100 /\ t.vram \in Int /\ s.gpus # <<>>
      BY <1>2, <1>4, <2>1, <2>2
    <2>4. QED
      BY <1>2, <1>9, <2>3 DEF Missing, Current
  <1>10. QED
    BY <1>6, <1>7, <1>8, <1>9 DEF Dims
-----------------------------------------------------------------------------
(* Theorems.                                                               *)

\* No sequence of observations, saves, loads, restarts and decisions makes a
\* strategy follow a nil prediction: what it asks of the model at two moments
\* is not trusted to agree.
THEOREM NilIsNeverFollowed == Spec => []DecideNeverPanics
  <1>1. DInv => DecideNeverPanics
    BY DEF DInv
  <1>2. QED
    BY <1>1, SpecDInv, PTL

\* Whatever is observed, in whatever order and whatever was loaded before, no
\* observation makes a linear model less sure of its task, nor a moving average
\* up to the fiftieth, and a sure model predicts.
THEOREM LearningIsMonotone == Spec => ConfidenceNeverFalls
  <1> DEFINE Surer ==
          \A o \in Observers : (observer[o].step = "idle" /\ observer'[o].step = "fed") =>
              LET t == observer'[o].task
              IN  (model.kind = "moving_average" => model'.tasks[t].count <= 50) =>
                      /\ Confidence(model', t) >= Confidence(model, t)
                      /\ Confidence(model', t) > 0 => Predict(model', t, 0) # NoImpact
  <1>1. DInv /\ [Next]_vars => [Surer]_vars
    <2> SUFFICES ASSUME DInv, Next, NEW o \in Observers,
                        observer[o].step = "idle", observer'[o].step = "fed",
                        model.kind = "moving_average"
                            => model'.tasks[observer'[o].task].count <= 50
                 PROVE  LET t == observer'[o].task
                        IN  /\ Confidence(model', t) >= Confidence(model, t)
                            /\ Confidence(model', t) > 0 => Predict(model', t, 0) # NoImpact
      BY Zenon
    <2>1. ObserveFeed(o)
      <3>1. CASE \E d \in Deciders : DeciderStep(d)
        BY <3>1 DEF DeciderStep, AskGarbled, Ask, BuildContext, AskConfidence, Conclude,
                    ReplySent, askUnchanged
      <3>2. CASE AddPendingTask \/ RemovePendingTask \/ UpdateThresholds \/ SaveModel \/ DeleteModel
        BY <3>2 DEF AddPendingTask, RemovePendingTask, UpdateThresholds, listsUnchanged,
                    SaveModel, DeleteModel
      <3>3. CASE LoadModel
        BY <3>3 DEF LoadModel
      <3>4. CASE Restart
        BY <3>4 DEF Restart, Idle
      <3>5. ASSUME NEW p \in Observers, ObserverStep(p) PROVE ObserveFeed(o)
        <4>1. CASE p = o
          BY <3>5, <4>1 DEF ObserverStep, ObserveReport, ObserveReturns, DInv, Arrays
        <4>2. CASE p # o
          <5>1. observer'[o] = observer[o]
            BY <3>5, <4>2 DEF ObserverStep, ObserveFeed, ObserveReport, ObserveReturns, DInv, Arrays
          <5>2. QED
            BY <5>1
        <4>3. QED
          BY <4>1, <4>2
      <3>6. QED
        BY <3>1, <3>2, <3>3, <3>4, <3>5 DEF Next, StorageStep
    <2>2. PICK b \in Observations :
              /\ model' = Observed(model, b.task, b.complexity, b.impact)
              /\ observer'[o].task = b.task
      BY <2>1 DEF ObserveFeed, Learned, DInv, Arrays
    <2>3. b.complexity \in Int /\ b.impact \in Numbers /\ IsModel(model)
      BY DecisionAssumption DEF Numbers, DInv, Models
    <2>4. QED
      BY <2>2, <2>3, ObservedIsSurer
  <1>2. Spec => [][Surer]_vars
    BY <1>1, SpecDInv, PTL DEF Spec
  <1>3. QED
    BY <1>2 DEF ConfidenceNeverFalls

\* On each resource whose impact is not negative the strategies are ordered by
\* caution, for any readings, thresholds, observations and pending tasks.
THEOREM Cautious == Spec => []CautionOrder
  <1> SUFFICES DInv /\ QueueIsSummed => CautionOrder
    BY SpecDInv, SpecQueues, QueueAddsUp, PTL
  <1> SUFFICES ASSUME DInv, QueueIsSummed, NEW d \in Deciders,
                      Comparable(d), NEW r \in Dims
               PROVE  /\ decider[d].prediction[r] >= 0 =>
                             /\ Denies(d, "predictive", r) => Denies(d, "conservative", r)
                             /\ (Len(decider[d].state.gpus) <= 1 /\ Denies(d, "threshold", r))
                                => Denies(d, "predictive", r)
                      /\ (PendingImpact(decider[d].pending)[r] >= 0 /\ Denies(d, "predictive", r))
                         => Denies(d, "queue_aware", r)
    BY DEF CautionOrder
  <1> DEFINE c == decider[d]
             queued == PendingImpact(c.pending)
             Refuses(type) ==
                 Overload[r] \in Decide([type |-> type, buffer |-> 50], c, c.sure, queued).reasons
             Ahead(delta) == Future(c.state, delta)[r] > c.thresholds[r] * Unit
  <1>1. /\ c.state \in Readings /\ c.prediction \in Numbers
        /\ c.thresholds # NoThresholds /\ Usable(c.sure, c.prediction)
        /\ \A q \in Dims : c.thresholds[q] \in Int
        /\ queued[r] \in Int /\ c.prediction[r] \in Int
    BY DecisionAssumption DEF Comparable, DInv, Contexts, Usable, QueueIsSummed, Numbers
  <1> HIDE DEF c, queued
  <1>2. Refuses("predictive") <=> Ahead(c.prediction)
    <2>1. Delta([type |-> "predictive", buffer |-> 50], c.prediction, queued) = c.prediction
      BY DEF Delta
    <2>2. QED
      BY <1>1, <2>1, AheadDenies DEF Predictives
  <1>3. Refuses("conservative") <=> Ahead(WithBuffer(c.prediction, 50))
    <2>1. Delta([type |-> "conservative", buffer |-> 50], c.prediction, queued)
              = WithBuffer(c.prediction, 50)
      BY DEF Delta
    <2>2. QED
      BY <1>1, <2>1, AheadDenies DEF Predictives
  <1>4. Refuses("queue_aware") <=> Ahead(WithQueue(c.prediction, queued))
    <2>1. Delta([type |-> "queue_aware", buffer |-> 50], c.prediction, queued)
              = WithQueue(c.prediction, queued)
      BY DEF Delta
    <2>2. QED
      BY <1>1, <2>1, AheadDenies DEF Predictives
  <1>5. Refuses("threshold") <=> Overload[r] \in Check(c.state, c.thresholds)
    BY <1>1 DEF Decide, DecideNow
  <1> HIDE DEF Refuses
  <1>6. c.thresholds[r] * Unit \in Int
    BY <1>1 DEF Unit
  <1>7. (c.prediction[r] >= 0 /\ Refuses("predictive")) => Refuses("conservative")
    <2> SUFFICES ASSUME c.prediction[r] >= 0, Ahead(c.prediction)
                 PROVE  Ahead(WithBuffer(c.prediction, 50))
      BY <1>2, <1>3
    <2>1. WithBuffer(c.prediction, 50)[r] \in Int
          /\ c.prediction[r] <= WithBuffer(c.prediction, 50)[r]
      BY <1>1, BufferAdds DEF WithBuffer
    <2>2. QED
      BY <1>1, <1>6, <2>1, FutureMonotone
  <1>8. (queued[r] >= 0 /\ Refuses("predictive")) => Refuses("queue_aware")
    <2> SUFFICES ASSUME queued[r] >= 0, Ahead(c.prediction)
                 PROVE  Ahead(WithQueue(c.prediction, queued))
      BY <1>2, <1>4
    <2>1. WithQueue(c.prediction, queued)[r] \in Int
          /\ c.prediction[r] <= WithQueue(c.prediction, queued)[r]
      BY <1>1 DEF WithQueue
    <2>2. LET now == Future(c.state, c.prediction)[r]
              then == Future(c.state, WithQueue(c.prediction, queued))[r]
          IN  now \in Int /\ then \in Int /\ now <= then
      BY <1>1, <2>1, FutureMonotone
    <2>3. QED
      BY <1>6, <2>2
  <1>9. (c.prediction[r] >= 0 /\ Len(c.state.gpus) <= 1 /\ Refuses("threshold"))
        => Refuses("predictive")
    <2> SUFFICES ASSUME c.prediction[r] >= 0, Len(c.state.gpus) <= 1,
                        Overload[r] \in Check(c.state, c.thresholds)
                 PROVE  Future(c.state, c.prediction)[r] > c.thresholds[r] * Unit
      BY <1>2, <1>5
    <2>1. /\ Missing(c.state, r) => c.thresholds[r] < 0
          /\ ~Missing(c.state, r) =>
                 Current(c.state, r) \in 0..100 /\ Current(c.state, r) > c.thresholds[r]
      BY <1>1, DeniedNow
    <2>2. CASE Missing(c.state, r)
      <3>1. Future(c.state, c.prediction)[r] = 0
        BY <2>2 DEF Future, Clamp, Unit
      <3>2. QED
        BY <1>1, <2>1, <2>2, <3>1 DEF Unit
    <2>3. CASE ~Missing(c.state, r)
      <3>1. Future(c.state, c.prediction)[r] = Clamp(Current(c.state, r) * Unit + c.prediction[r])
        BY <2>3 DEF Future
      <3> DEFINE now == Current(c.state, r)
                 p == c.prediction[r]
                 limit == c.thresholds[r]
      <3>2. now \in 0..100 /\ limit \in Int /\ now > limit /\ p \in Int /\ p >= 0
        BY <1>1, <2>1, <2>3
      <3> HIDE DEF now, p, limit
      <3>3. Clamp(now * Unit + p) > limit * Unit
        BY <3>2, OverStays
      <3>4. QED
        BY <3>1, <3>3 DEF now, p, limit
    <2>4. QED
      BY <2>2, <2>3
  <1>10. QED
    BY <1>7, <1>8, <1>9 DEF Denies, Refuses, c, queued
-----------------------------------------------------------------------------
(* Types: what a reply predicts is a percentage.                           *)

LEMMA FutureIsPercentage ==
    ASSUME NEW s \in Readings, NEW delta \in Numbers, NEW r \in Dims
    PROVE  Future(s, delta)[r] \in 0..100 * Unit
  <1>1. ASSUME NEW a \in Int PROVE Clamp(a) \in 0..100 * Unit
    <2>1. 100 * Unit = 300000
      BY DEF Unit
    <2>2. QED
      BY <2>1 DEF Clamp
  <1>2. CASE Missing(s, r)
    BY <1>1, <1>2 DEF Future
  <1>3. CASE ~Missing(s, r)
    <2>1. Current(s, r) * Unit + delta[r] \in Int
      BY <1>3, CurrentIsInt DEF Unit, Numbers
    <2>2. Future(s, delta)[r] = Clamp(Current(s, r) * Unit + delta[r])
      BY <1>3 DEF Future
    <2>3. QED
      BY <1>1, <2>1, <2>2
  <1>4. QED
    BY <1>2, <1>3

LEMMA BufferedIsInt ==
    ASSUME NEW delta \in Int, NEW buffer \in Int
    PROVE  Buffered(delta, buffer) \in Int
  <1>1. delta * buffer \in Int
    OBVIOUS
  <1> DEFINE product == delta * buffer
  <1> HIDE DEF product
  <1>2. product \div 100 \in Int
    BY <1>1, QuotientBetween DEF product
  <1>3. QED
    BY <1>2 DEF Buffered, product

\* What a strategy adds to the current state is a number for each resource.
LEMMA DeltaIsNumbers ==
    ASSUME NEW s, s.type \in Predictives, s.buffer \in Int,
           NEW prediction \in Numbers, NEW queued \in Numbers
    PROVE  Delta(s, prediction, queued) \in Numbers
  <1>1. WithBuffer(prediction, s.buffer) \in Numbers
    BY BufferedIsInt DEF WithBuffer, Numbers
  <1>2. WithQueue(prediction, queued) \in Numbers
    BY DEF WithQueue, Numbers
  <1>3. QED
    BY <1>1, <1>2 DEF Delta, Predictives

\* Where the goroutines are, and the futures of the replies.
Places ==
    /\ strategy.buffer \in Int
    /\ \A d \in Deciders :
           /\ decider[d].step \in {"idle", "copied", "built", "confident", "replied"}
           /\ decider[d].step = "replied" =>
                  \A r \in DOMAIN decider[d].future : decider[d].future[r] \in 0..100 * Unit
    /\ \A o \in Observers : observer[o].step \in {"idle", "fed", "reported"}

LEMMA CreatedBuffer ==
    ASSUME NEW cfg \in Configs, Starts(cfg)
    PROVE  CreateStrategy(cfg).buffer \in Int
  <1>1. cfg.buffer \in Int
    BY DecisionAssumption
  <1>2. QED
    BY <1>1 DEF Starts, CreateStrategy, Predictives

LEMMA InitPlaces == Init => Places
  <1> SUFFICES ASSUME Init PROVE Places
    OBVIOUS
  <1>1. strategy.buffer \in Int
    BY CreatedBuffer DEF Init
  <1>2. QED
    BY <1>1 DEF Init, Places, Idle

\* A decision gives a future when it looks ahead.
LEMMA DecisionGives ==
    ASSUME DInv, Queues, Places, NEW d \in Deciders, decider[d].step = "confident",
           NEW r \in DOMAIN Decision(d, strategy).future
    PROVE  Decision(d, strategy).future[r] \in 0..100 * Unit
  <1> DEFINE c == decider[d]
             queued == PendingImpact(c.pending)
             future == Future(c.state, Delta(strategy, c.prediction, queued))
  <1>1. /\ c.state \in Readings /\ c.prediction \in Numbers \cup {NoImpact}
        /\ queued \in Numbers
        /\ strategy.type \in Predictives \cup {"threshold"} /\ strategy.buffer \in Int
    BY ImpactAddsUp DEF DInv, Models, Contexts, KnownStrategy, Queues, Places
  <1>2. Decision(d, strategy) = Decide(strategy, c, c.sure, queued)
    BY DEF Decision
  <1> HIDE DEF c, queued
  <1>3. \/ Decision(d, strategy).future = <<>>
        \/ /\ strategy.type \in Predictives /\ c.prediction \in Numbers
           /\ Decision(d, strategy).future = future
    <2> HIDE DEF future
    <2>1. CASE c.thresholds = NoThresholds
      BY <1>2, <2>1 DEF Decide, Undecided
    <2>2. CASE c.thresholds # NoThresholds /\ strategy.type = "threshold"
      BY <1>2, <2>2 DEF Decide, DecideNow
    <2>3. CASE /\ c.thresholds # NoThresholds /\ strategy.type # "threshold"
               /\ Usable(c.sure, c.prediction)
      BY <1>1, <1>2, <2>3 DEF Decide, DecideAhead, Usable, future
    <2>4. CASE /\ c.thresholds # NoThresholds /\ strategy.type # "threshold"
               /\ ~Usable(c.sure, c.prediction)
      BY <1>2, <2>4 DEF Decide, FellBack, DecideNow
    <2>5. QED
      BY <2>1, <2>2, <2>3, <2>4
  <1>4. Decision(d, strategy).future # <<>>
    <2>1. DOMAIN <<>> = {}
      OBVIOUS
    <2>2. QED
      BY <2>1
  <1>5. Delta(strategy, c.prediction, queued) \in Numbers
    BY <1>1, <1>3, <1>4, DeltaIsNumbers
  <1>6. DOMAIN future = Dims
    BY DEF Future
  <1>7. QED
    BY <1>1, <1>3, <1>4, <1>5, <1>6, FutureIsPercentage

LEMMA PlacesStep == DInv /\ Queues /\ Places /\ [Next]_vars => Places'
  <1> SUFFICES ASSUME DInv, Queues, Places, [Next]_vars PROVE Places'
    OBVIOUS
  <1>1. ASSUME NEW d \in Deciders, DeciderStep(d) PROVE Places'
    <2>1. /\ UNCHANGED <<strategy, observer>>
          /\ \A e \in Deciders \ {d} : decider'[e] = decider[e]
      BY <1>1 DEF DInv, Arrays, DeciderStep, AskGarbled, Ask, BuildContext, AskConfidence,
         Conclude, ReplySent, askUnchanged
    <2>2. CASE Conclude(d)
      <3> DEFINE result == Decision(d, strategy)
      <3>1. decider[d].step = "confident"
        BY <2>2 DEF Conclude
      <3>2. \A r \in DOMAIN result.future : result.future[r] \in 0..100 * Unit
        BY <3>1, DecisionGives
      <3> HIDE DEF result
      <3>3. decider'[d].step = "replied" /\ decider'[d].future = result.future
        BY <2>2 DEF Conclude, DInv, Arrays, result
      <3>4. QED
        BY <2>1, <3>2, <3>3 DEF Places
    <2>3. CASE AskGarbled(d)
      <3>1. decider'[d].step = "replied" /\ decider'[d].future = <<>>
        BY <2>3 DEF AskGarbled, DInv, Arrays
      <3>2. DOMAIN <<>> = {}
        OBVIOUS
      <3>3. QED
        BY <2>1, <3>1, <3>2 DEF Places
    <2>4. CASE Ask(d) \/ BuildContext(d) \/ AskConfidence(d) \/ ReplySent(d)
      <3>1. decider'[d].step \in {"idle", "copied", "built", "confident"}
        BY <2>4 DEF Ask, BuildContext, AskConfidence, ReplySent, Idle, DInv, Arrays
      <3>2. QED
        BY <2>1, <3>1 DEF Places
    <2>5. QED
      BY <1>1, <2>2, <2>3, <2>4 DEF DeciderStep
  <1>2. ASSUME NEW o \in Observers, ObserverStep(o) PROVE Places'
    <2>1. UNCHANGED <<strategy, decider>>
      BY <1>2 DEF ObserverStep, ObserveFeed, ObserveReport, ObserveReturns, observeUnchanged
    <2>2. /\ \A p \in Observers \ {o} : observer'[p] = observer[p]
          /\ observer'[o].step \in {"idle", "fed", "reported"}
      <3>1. CASE ObserveFeed(o)
        <4>1. PICK b \in Observations : observer' = [observer EXCEPT ![o] =
                  [step |-> "fed", task |-> b.task, told |-> ToldBy(seen, b.task) + 1]]
          BY <3>1 DEF ObserveFeed
        <4>2. QED
          BY <4>1 DEF DInv, Arrays
      <3>2. CASE ObserveReport(o)
        BY <3>2 DEF ObserveReport, DInv, Arrays
      <3>3. CASE ObserveReturns(o)
        BY <3>3 DEF ObserveReturns, Idle, DInv, Arrays
      <3>4. QED
        BY <1>2, <3>1, <3>2, <3>3 DEF ObserverStep
    <2>3. QED
      BY <2>1, <2>2 DEF Places
  <1>3. CASE LoadModel
    <2>1. UNCHANGED <<strategy, decider>>
      BY <1>3 DEF LoadModel
    <2>2. ASSUME NEW o \in Observers PROVE observer'[o].step = observer[o].step
      BY <1>3 DEF LoadModel, DInv, Arrays
    <2>3. QED
      BY <2>1, <2>2 DEF Places
  <1>4. CASE Restart
    <2>1. strategy'.buffer \in Int
      BY <1>4, CreatedBuffer DEF Restart
    <2>2. QED
      BY <1>4, <2>1 DEF Restart, Places, Idle
  <1>5. CASE UNCHANGED <<strategy, decider, observer>>
    BY <1>5 DEF Places
  <1>6. CASE \/ AddPendingTask \/ RemovePendingTask \/ UpdateThresholds
             \/ SaveModel \/ DeleteModel \/ UNCHANGED vars
    BY <1>5, <1>6 DEF AddPendingTask, RemovePendingTask, UpdateThresholds, SaveModel, DeleteModel,
       vars, listsUnchanged
  <1>7. QED
    BY <1>1, <1>2, <1>3, <1>4, <1>6 DEF Next, StorageStep

\* Whatever is asked, observed, loaded and queued, models and lists keep their
\* shape, pending tasks add up, and every reply that predicts gives percentages
\* (decision/strategy, clamp).
THEOREM DecisionTypeCorrect == Spec => []TypeOK
  <1>1. Spec => []Places
    BY SpecDInv, SpecQueues, InitPlaces, PlacesStep, PTL DEF Spec
  <1>2. DInv /\ Queues /\ Places => TypeOK
    <2> SUFFICES ASSUME DInv, Queues, Places PROVE TypeOK
      OBVIOUS
    <2>1. QueueIsSummed
      BY QueueAddsUp
    <2>2. QED
      BY <2>1 DEF DInv, Models, KnownStrategy, Queues, Places, TypeOK
  <1>3. QED
    BY <1>1, <1>2, SpecDInv, SpecQueues, PTL
-----------------------------------------------------------------------------
(* What the adapter reports: the model's count of a task is the number of  *)
(* its observations, those made elsewhere included.                        *)

IsHistory(h) ==
    /\ h = [t \in TaskNames |-> h[t]]
    /\ \A t \in TaskNames :
           /\ h[t] = [elsewhere |-> h[t].elsewhere, points |-> h[t].points]
           /\ h[t].elsewhere \in Int /\ h[t].points \in [Made(t) -> Int]

\* h is the history of the model m.
Tells(m, h) ==
    /\ IsHistory(h)
    /\ m.kind # "none" => \A t \in TaskNames : TaskStats(m, t).count = ToldBy(h, t)

\* An observation that was fed to the model is counted before it is reported,
\* and whatever a load puts in the model's place comes with its own history.
Counts ==
    /\ Tells(model, seen)
    /\ file.exists => Tells(file.model, file.seen)
    /\ \A o \in Observers :
           /\ observer[o].step = "fed" => observer[o].told \in Int /\ observer[o].task \in TaskNames
           /\ observer[o].step = "fed" /\ model.kind # "none" =>
                  observer[o].told <= TaskStats(model, observer[o].task).count
           /\ observer[o].step = "reported" /\ model.kind # "none" => observer[o].covers

LEMMA MadeIsFinite == \A t : IsFiniteSet(Made(t))
  <1>1. \A t : Made(t) \in SUBSET Observations
    BY DEF Made
  <1>2. IsFiniteSet(Observations)
    BY DecisionAssumption
  <1>3. QED
    BY <1>1, <1>2, FS_Subset

LEMMA CountIsNat ==
    ASSUME NEW m, IsModel(m), NEW t
    PROVE  TaskStats(m, t).count \in Nat
  BY DEF TaskStats, Known, IsModel, Data

\* A history whose observations were all made elsewhere.
LEMMA ElsewhereTells ==
    ASSUME NEW m, IsModel(m)
    PROVE  /\ IsHistory(SeenElsewhere(m))
           /\ \A t \in TaskNames : TaskStats(m, t).count = ToldBy(SeenElsewhere(m), t)
  <1> DEFINE h == SeenElsewhere(m)
  <1>1. h = [t \in TaskNames |-> [elsewhere |-> TaskStats(m, t).count,
                                  points |-> [b \in Made(t) |-> 0]]]
    BY DEF SeenElsewhere, Made
  <1> HIDE DEF h
  <1>2. ASSUME NEW t \in TaskNames
        PROVE  /\ h[t] = [elsewhere |-> h[t].elsewhere, points |-> h[t].points]
               /\ h[t].elsewhere \in Int /\ h[t].points \in [Made(t) -> Int]
               /\ TaskStats(m, t).count = ToldBy(h, t)
    <2> DEFINE zeros == [b \in Made(t) |-> 0]
    <2>1. DOMAIN zeros = Made(t) /\ \A b \in Made(t) : zeros[b] = 0
      OBVIOUS
    <2>2. zeros \in [Made(t) -> Int]
      OBVIOUS
    <2> HIDE DEF zeros
    <2>3. SumFunction(zeros) = 0
      BY <2>1, MadeIsFinite, SumOfZeros DEF SumFunction
    <2>4. h[t] = [elsewhere |-> TaskStats(m, t).count, points |-> zeros]
      BY <1>1 DEF zeros
    <2>5. TaskStats(m, t).count \in Int
      BY CountIsNat
    <2> DEFINE n == TaskStats(m, t).count
    <2> HIDE DEF n
    <2>6. /\ h[t] = [elsewhere |-> n, points |-> zeros]
          /\ n \in Int
      BY <2>4, <2>5 DEF n
    <2>7. ToldBy(h, t) = n
      BY <2>3, <2>6 DEF ToldBy
    <2>8. QED
      BY <2>2, <2>6, <2>7 DEF n
  <1>3. h = [t \in TaskNames |-> h[t]]
    BY <1>1
  <1>4. QED
    BY <1>2, <1>3 DEF IsHistory, h

LEMMA TimesMove ==
    ASSUME NEW S, IsFiniteSet(S), NEW times \in [S -> Int], NEW b \in S, NEW times2 \in [S -> Int],
           \A c \in S : times2[c] = IF c = b THEN times[c] + 1 ELSE times[c]
    PROVE  SumFunction(times2) = SumFunction(times) + 1
  <1>1. \A c \in S : times[c] \in Int
    OBVIOUS
  <1>2. SumFunctionOnSet(times2, S) = SumFunctionOnSet(times, S) + 1
    BY <1>1, TermMoves
  <1>3. DOMAIN times = S /\ DOMAIN times2 = S
    OBVIOUS
  <1>4. QED
    BY <1>2, <1>3 DEF SumFunction

\* One more observation in a history.
Again(f, b) == [f EXCEPT ![b] = @ + 1]
Longer(h, b) == [h EXCEPT ![b.task].points[b] = @ + 1]

LEMMA HistoryMoves ==
    ASSUME NEW h, IsHistory(h), NEW b \in Observations, NEW h2, h2 = Longer(h, b)
    PROVE  /\ b.task \in TaskNames /\ b \in Made(b.task)
           /\ \A t \in TaskNames \ {b.task} : h2[t] = h[t]
           /\ h2[b.task] = [elsewhere |-> h[b.task].elsewhere,
                            points |-> Again(h[b.task].points, b)]
  <1>1. b.task \in TaskNames /\ b \in Made(b.task)
    BY DEF TaskNames, Made
  <1> DEFINE t == b.task
             e == h[t].elsewhere
             f == h[t].points
             f2 == [f EXCEPT ![b] = f[b] + 1]
  <1>2. h[t] = [elsewhere |-> e, points |-> f]
    BY <1>1 DEF IsHistory
  <1>3. h2[t] = [h[t] EXCEPT !.points = f2]
    <2>1. h2[t] = [h[t] EXCEPT !.points[b] = @ + 1]
      BY <1>1 DEF IsHistory, Longer
    <2>2. QED
      BY <2>1
  <1>4. \A u \in TaskNames \ {t} : h2[u] = h[u]
    BY DEF IsHistory, Longer
  <1> HIDE DEF e, f2
  <1>5. h2[t] = [elsewhere |-> e, points |-> f2]
    BY <1>2, <1>3
  <1>6. QED
    BY <1>1, <1>4, <1>5 DEF e, f2, Again

\* The history after one more observation.
LEMMA OneMoreTold ==
    ASSUME NEW h, IsHistory(h), NEW b \in Observations, NEW h2, h2 = Longer(h, b)
    PROVE  /\ IsHistory(h2)
           /\ \A t \in TaskNames : ToldBy(h2, t) = ToldBy(h, t) + (IF t = b.task THEN 1 ELSE 0)
           /\ \A t \in TaskNames : ToldBy(h, t) \in Int
  <1>1. ASSUME NEW t \in TaskNames
        PROVE  /\ h[t].points \in [Made(t) -> Int] /\ h[t].elsewhere \in Int
               /\ SumFunction(h[t].points) \in Int /\ ToldBy(h, t) \in Int
    <2>1. h[t].points \in [Made(t) -> Int] /\ h[t].elsewhere \in Int
      BY DEF IsHistory
    <2> DEFINE f == h[t].points
    <2> HIDE DEF f
    <2>2. DOMAIN f = Made(t) /\ \A c \in Made(t) : f[c] \in Int
      BY <2>1 DEF f
    <2>3. SumFunction(f) \in Int
      BY <2>2, MadeIsFinite, SumIsInt DEF SumFunction
    <2>4. QED
      BY <2>1, <2>3 DEF f, ToldBy
  <1>2. /\ b.task \in TaskNames /\ b \in Made(b.task)
        /\ \A u \in TaskNames \ {b.task} : h2[u] = h[u]
        /\ h2[b.task] = [elsewhere |-> h[b.task].elsewhere,
                         points |-> Again(h[b.task].points, b)]
    BY HistoryMoves
  <1> DEFINE t == b.task
             f == h[t].points
             g == h2[t].points
  <1>3. /\ h2[t] = [elsewhere |-> h[t].elsewhere, points |-> [f EXCEPT ![b] = f[b] + 1]]
        /\ g = [f EXCEPT ![b] = f[b] + 1] /\ h2[t].elsewhere = h[t].elsewhere
    BY <1>2 DEF Again
  <1>4. f \in [Made(t) -> Int] /\ SumFunction(f) \in Int
    BY <1>1, <1>2
  <1> HIDE DEF f, g
  <1>5. /\ DOMAIN g = Made(t) /\ g \in [Made(t) -> Int] /\ DOMAIN f = Made(t)
        /\ \A c \in Made(t) : f[c] \in Int
        /\ \A c \in Made(t) : g[c] = IF c = b THEN f[c] + 1 ELSE f[c]
    BY <1>2, <1>3, <1>4
  <1>6. SumFunction(g) = SumFunction(f) + 1
    <2> DEFINE S == Made(t)
    <2>1. /\ IsFiniteSet(S) /\ b \in S /\ f \in [S -> Int] /\ g \in [S -> Int]
          /\ \A c \in S : g[c] = IF c = b THEN f[c] + 1 ELSE f[c]
      BY <1>2, <1>4, <1>5, MadeIsFinite
    <2> HIDE DEF S
    <2>2. QED
      BY <2>1, TimesMove
  <1>7. ToldBy(h2, t) = ToldBy(h, t) + 1
    <2> DEFINE e == h[t].elsewhere
               n == SumFunction(f)
    <2>1. e \in Int /\ n \in Int
      BY <1>1, <1>2, <1>4
    <2>2. ToldBy(h, t) = e + n /\ ToldBy(h2, t) = e + (n + 1)
      BY <1>3, <1>6, Zenon DEF ToldBy, f, g
    <2> HIDE DEF e, n
    <2>3. e + (n + 1) = (e + n) + 1
      BY <2>1
    <2>4. QED
      BY <2>2, <2>3, Zenon
  <1>8. IsHistory(h2)
    <2>1. h2 = [u \in TaskNames |-> h2[u]]
      BY DEF IsHistory, Longer
    <2>2. /\ h2[t] = [elsewhere |-> h2[t].elsewhere, points |-> h2[t].points]
          /\ h2[t].elsewhere \in Int /\ h2[t].points \in [Made(t) -> Int]
      BY <1>1, <1>2, <1>3, <1>5 DEF g
    <2>3. ASSUME NEW u \in TaskNames
          PROVE  /\ h2[u] = [elsewhere |-> h2[u].elsewhere, points |-> h2[u].points]
                 /\ h2[u].elsewhere \in Int /\ h2[u].points \in [Made(u) -> Int]
      <3>1. CASE u = t
        BY <2>2, <3>1, Zenon
      <3>2. CASE u # t
        BY <1>2, <3>2, Zenon DEF IsHistory
      <3>3. QED
        BY <3>1, <3>2
    <2>4. QED
      BY <2>1, <2>3, Zenon DEF IsHistory
  <1>9. QED
    BY <1>1, <1>2, <1>7, <1>8 DEF ToldBy

LEMMA CreatedTells ==
    ASSUME NEW cfg \in Configs, Starts(cfg)
    PROVE  Tells(CreateModel(cfg), Unseen)
  <1>1. EmptyFile.tasks = <<>> /\ DOMAIN <<>> = {}
    BY DEF EmptyFile
  <1>2. <<>> = [t \in DOMAIN <<>> |-> <<>>[t]]
    OBVIOUS
  <1>3. IsModel(EmptyFile)
    BY <1>1, <1>2 DEF IsModel, EmptyFile
  <1>4. CreateModel(cfg).tasks = <<>>
    BY DEF CreateModel, New, Starts
  <1>5. \A t : TaskStats(CreateModel(cfg), t).count = TaskStats(EmptyFile, t).count
    BY <1>1, <1>4 DEF TaskStats, Known
  <1>6. Unseen = SeenElsewhere(EmptyFile)
    BY DEF Unseen
  <1>7. QED
    BY <1>3, <1>5, <1>6, ElsewhereTells DEF Tells

LEMMA InitCounts == Init => Counts
  <1> SUFFICES ASSUME Init PROVE Counts
    OBVIOUS
  <1>1. Tells(model, seen)
    BY CreatedTells DEF Init
  <1>2. file.exists => Tells(file.model, file.seen)
    <2>1. CASE file = NoFile
      BY <2>1 DEF NoFile
    <2>2. ASSUME NEW m \in OldFiles,
                 file = [exists |-> TRUE, model |-> m, seen |-> SeenElsewhere(m)]
          PROVE  Tells(file.model, file.seen)
      <3>1. IsModel(m)
        BY DecisionAssumption
      <3>2. Tells(m, SeenElsewhere(m))
        BY <3>1, ElsewhereTells DEF Tells
      <3>3. QED
        BY <2>2, <3>2
    <2>3. QED
      BY <2>1, <2>2 DEF Init
  <1>3. QED
    BY <1>1, <1>2 DEF Init, Counts, Idle

\* One more observation is one more in the model and in the history.
LEMMA FeedCounts ==
    ASSUME DInv, Counts, NEW o \in Observers, ObserveFeed(o)
    PROVE  Counts'
  <1>1. PICK b \in Observations :
            /\ model' = Observed(model, b.task, b.complexity, b.impact)
            /\ seen' = Longer(seen, b)
            /\ observer' = [observer EXCEPT ![o] =
                   [step |-> "fed", task |-> b.task, told |-> ToldBy(seen, b.task) + 1]]
    BY DEF ObserveFeed, Learned, Longer
  <1>2. file' = file
    BY DEF ObserveFeed, observeUnchanged
  <1>3. /\ b.complexity \in Int /\ b.impact \in Numbers /\ IsModel(model)
        /\ b.task \in TaskNames
    BY DecisionAssumption DEF Numbers, DInv, Models, TaskNames
  <1>4. /\ IsHistory(seen')
        /\ \A t \in TaskNames : ToldBy(seen', t) = ToldBy(seen, t) + (IF t = b.task THEN 1 ELSE 0)
        /\ \A t \in TaskNames : ToldBy(seen, t) \in Int
    <2> DEFINE h2 == Longer(seen, b)
    <2>1. IsHistory(seen)
      BY DEF Counts, Tells
    <2>2. seen' = h2
      BY <1>1
    <2> HIDE DEF h2
    <2>3. /\ IsHistory(h2)
          /\ \A t \in TaskNames : ToldBy(h2, t) = ToldBy(seen, t) + (IF t = b.task THEN 1 ELSE 0)
          /\ \A t \in TaskNames : ToldBy(seen, t) \in Int
      BY <2>1, OneMoreTold DEF h2
    <2>4. QED
      BY <2>2, <2>3 DEF IsHistory, ToldBy
  <1>5. /\ DOMAIN observer' = Observers
        /\ \A p \in Observers \ {o} : observer'[p] = observer[p]
        /\ observer'[o].step = "fed" /\ observer'[o].task = b.task
        /\ observer'[o].told = ToldBy(seen, b.task) + 1
    BY <1>1 DEF DInv, Arrays
  <1>6. CASE model.kind = "none"
    <2>1. model' = model
      BY <1>1, <1>6 DEF Observed
    <2>2. Tells(model', seen') /\ observer'[o].told \in Int /\ observer'[o].task \in TaskNames
      BY <1>3, <1>4, <1>5, <1>6, <2>1 DEF Tells
    <2>3. QED
      BY <1>2, <1>5, <1>6, <2>1, <2>2 DEF Counts
  <1>7. CASE model.kind # "none"
    <2>1. /\ model'.kind = model.kind
          /\ \A t : TaskStats(model', t).count
                       = TaskStats(model, t).count + (IF t = b.task THEN 1 ELSE 0)
          /\ \A t : TaskStats(model, t).count \in Int
      <3> DEFINE m2 == model'
      <3>1. m2 = Observed(model, b.task, b.complexity, b.impact)
        BY <1>1
      <3> HIDE DEF m2
      <3>2. ASSUME NEW t
            PROVE  /\ m2.kind = model.kind
                   /\ TaskStats(m2, t).count
                         = TaskStats(model, t).count + (IF t = b.task THEN 1 ELSE 0)
                   /\ TaskStats(model, t).count \in Int
        BY <1>3, <1>7, <3>1, CountGrows, CountIsNat
      <3>3. QED
        BY <3>2 DEF m2
    <2>2. \A t \in TaskNames : TaskStats(model, t).count = ToldBy(seen, t)
      BY <1>7 DEF Counts, Tells
    <2>3. Tells(model', seen')
      BY <1>4, <2>1, <2>2 DEF Tells
    <2>4. /\ observer'[o].told <= TaskStats(model', observer'[o].task).count
          /\ observer'[o].told \in Int /\ observer'[o].task \in TaskNames
      BY <1>3, <1>4, <1>5, <2>1, <2>2
    <2>5. ASSUME NEW p \in Observers \ {o}
          PROVE  /\ observer'[p].step = "fed" =>
                        /\ observer'[p].told \in Int /\ observer'[p].task \in TaskNames
                        /\ observer'[p].told <= TaskStats(model', observer'[p].task).count
                 /\ observer'[p].step = "reported" => observer'[p].covers
      <3>1. observer'[p] = observer[p]
        BY <1>5
      <3>2. CASE observer[p].step = "fed"
        <4> DEFINE told == observer[p].told
                   n == TaskStats(model, observer[p].task).count
                   n2 == TaskStats(model', observer[p].task).count
        <4>1. told \in Int /\ told <= n /\ n \in Int /\ (n2 = n \/ n2 = n + 1)
          BY <1>7, <2>1, <3>2 DEF Counts
        <4> HIDE DEF told, n, n2
        <4>2. told \in Int /\ told <= n2
          BY <4>1
        <4>3. observer[p].task \in TaskNames
          BY <3>2 DEF Counts
        <4>4. QED
          BY <3>1, <3>2, <4>2, <4>3 DEF told, n2
      <3>3. CASE observer[p].step # "fed"
        BY <1>7, <3>1, <3>3 DEF Counts
      <3>4. QED
        BY <3>2, <3>3
    <2>6. QED
      BY <1>2, <1>5, <2>3, <2>4, <2>5 DEF Counts
  <1>8. QED
    BY <1>6, <1>7

\* A load brings its own history, and what an observer was told becomes what
\* that history tells.
LEMMA LoadCounts ==
    ASSUME DInv, Counts, LoadModel
    PROVE  Counts'
  <1>1. /\ file.exists /\ file.model.kind # "none" /\ model.kind # "none" /\ file' = file
        /\ model' = Loaded(model, file.model)
        /\ seen' = IF file.model.kind = model.kind THEN file.seen ELSE SeenElsewhere(model')
    BY DEF LoadModel
  <1>2. IsModel(model') /\ model'.kind = model.kind
    <2>1. IsModel(model) /\ IsModel(file.model)
      BY <1>1 DEF DInv, Models
    <2>2. IsModel(Loaded(model, file.model))
      BY <2>1, LoadedIsModel
    <2>3. Loaded(model, file.model).kind = model.kind
      BY <1>1 DEF Loaded
    <2>4. QED
      BY <1>1, <2>2, <2>3
  <1>3. Tells(model', seen')
    <2>1. CASE file.model.kind = model.kind
      <3>1. model' = file.model /\ seen' = file.seen
        BY <1>1, <2>1 DEF Loaded
      <3>2. QED
        BY <1>1, <3>1 DEF Counts
    <2>2. CASE file.model.kind # model.kind
      <3>1. seen' = SeenElsewhere(model')
        BY <1>1, <2>2
      <3> DEFINE m == model'
      <3>2. IsModel(m)
        BY <1>2
      <3> HIDE DEF m
      <3>3. Tells(m, SeenElsewhere(m))
        BY <3>2, ElsewhereTells DEF Tells
      <3>4. QED
        BY <3>1, <3>3 DEF m
    <2>3. QED
      BY <2>1, <2>2
  <1>4. ASSUME NEW o \in Observers
        PROVE  /\ observer'[o].step = "fed" =>
                      /\ observer'[o].told \in Int /\ observer'[o].task \in TaskNames
                      /\ observer'[o].told <= TaskStats(model', observer'[o].task).count
               /\ observer'[o].step = "reported" => observer'[o].covers
    <2>1. CASE observer[o].step = "fed"
      <3> DEFINE t == observer[o].task
      <3>1. observer'[o] = [observer[o] EXCEPT !.told = ToldBy(seen', t)]
        BY <2>1 DEF LoadModel
      <3>2. TaskStats(model', t).count \in Nat
        BY <1>2, CountIsNat
      <3>3. t \in TaskNames
        BY <2>1 DEF Counts
      <3>4. TaskStats(model', t).count = ToldBy(seen', t)
        BY <1>1, <1>2, <1>3, <3>3 DEF Tells
      <3>5. QED
        BY <2>1, <3>1, <3>2, <3>3, <3>4
    <2>2. CASE observer[o].step # "fed"
      BY <1>1, <2>2 DEF LoadModel, Counts
    <2>3. QED
      BY <2>1, <2>2
  <1>5. QED
    BY <1>1, <1>3, <1>4 DEF Counts

LEMMA CountsStep == DInv /\ Counts /\ [Next]_vars => Counts'
  <1> SUFFICES ASSUME DInv, Counts, [Next]_vars PROVE Counts'
    OBVIOUS
  <1>1. CASE UNCHANGED <<model, file, observer, seen>>
    BY <1>1 DEF Counts, Tells, IsHistory, ToldBy
  <1>2. ASSUME NEW d \in Deciders, DeciderStep(d) PROVE Counts'
    BY <1>1, <1>2 DEF DeciderStep, AskGarbled, Ask, BuildContext, AskConfidence, Conclude,
       ReplySent, askUnchanged
  <1>3. CASE AddPendingTask \/ RemovePendingTask \/ UpdateThresholds \/ UNCHANGED vars
    BY <1>1, <1>3 DEF AddPendingTask, RemovePendingTask, UpdateThresholds, listsUnchanged, vars
  <1>4. ASSUME NEW o \in Observers, ObserverStep(o) PROVE Counts'
    <2>1. CASE ObserveFeed(o)
      BY <2>1, FeedCounts
    <2>2. CASE ObserveReport(o)
      <3>1. /\ observer[o].step = "fed"
            /\ observer' = [observer EXCEPT ![o] = [step |-> "reported",
                   covers |-> TaskStats(model, observer[o].task).count >= observer[o].told]]
            /\ UNCHANGED <<model, seen, file>>
        BY <2>2 DEF ObserveReport, observeUnchanged
      <3>2. observer'[o].step = "reported" /\ (model.kind # "none" => observer'[o].covers)
        <4> DEFINE covers == TaskStats(model, observer[o].task).count >= observer[o].told
        <4>1. model.kind # "none" => covers
          <5>1. TaskStats(model, observer[o].task).count \in Int
            BY CountIsNat DEF DInv, Models
          <5>2. QED
            BY <3>1, <5>1 DEF Counts
        <4> HIDE DEF covers
        <4>2. observer'[o] = [step |-> "reported", covers |-> covers]
          BY <3>1 DEF DInv, Arrays, covers
        <4>3. observer'[o].step = "reported" /\ observer'[o].covers = covers
          BY <4>2
        <4>4. QED
          BY <4>1, <4>3
      <3>3. \A p \in Observers \ {o} : observer'[p] = observer[p]
        BY <3>1 DEF DInv, Arrays
      <3>4. Tells(model', seen') /\ (file'.exists => Tells(file'.model, file'.seen))
        BY <3>1 DEF Counts, Tells, IsHistory, ToldBy
      <3>5. QED
        BY <3>1, <3>2, <3>3, <3>4 DEF Counts
    <2>3. CASE ObserveReturns(o)
      <3>1. UNCHANGED <<model, seen, file>>
        BY <2>3 DEF ObserveReturns, observeUnchanged
      <3>2. observer'[o].step = "idle" /\ \A p \in Observers \ {o} : observer'[p] = observer[p]
        BY <2>3 DEF ObserveReturns, Idle, DInv, Arrays
      <3>3. QED
        BY <3>1, <3>2 DEF Counts, Tells, IsHistory, ToldBy
    <2>4. QED
      BY <1>4, <2>1, <2>2, <2>3 DEF ObserverStep
  <1>5. CASE SaveModel \/ DeleteModel
    <2>1. UNCHANGED <<model, seen, observer>>
      BY <1>5 DEF SaveModel, DeleteModel
    <2>2. Tells(Saved(model), seen)
      BY DEF Counts, Tells, Saved, EmptyFile
    <2>3. file'.exists => Tells(file'.model, file'.seen)
      <3>1. \/ file' = file \/ file' = NoFile
            \/ file' = [exists |-> TRUE, model |-> Saved(model), seen |-> seen]
        BY <1>5 DEF SaveModel, DeleteModel
      <3>2. QED
        BY <2>2, <3>1 DEF NoFile, Counts
    <2>4. QED
      BY <2>1, <2>3 DEF Counts
  <1>6. CASE LoadModel
    BY <1>6, LoadCounts
  <1>7. CASE Restart
    <2>1. Tells(model', seen')
      <3>1. PICK cfg \in Configs : Starts(cfg) /\ model' = CreateModel(cfg) /\ seen' = Unseen
        BY <1>7 DEF Restart
      <3>2. Tells(CreateModel(cfg), Unseen)
        BY <3>1, CreatedTells
      <3>3. QED
        BY <3>1, <3>2
    <2>2. file' = file /\ observer' = [o \in Observers |-> Idle]
      BY <1>7 DEF Restart
    <2>3. QED
      BY <2>1, <2>2 DEF Counts, Idle
  <1>8. QED
    BY <1>2, <1>3, <1>4, <1>5, <1>6, <1>7 DEF Next, StorageStep

\* What the adapter reports of a task counts the observation just made and all
\* made before it, for any observers at once, unless a load came between
\* (learning/adapter.go, Observe).
THEOREM ReportsAreCurrent == Spec => []ReportCoversObservation
  <1>1. Spec => []Counts
    BY SpecDInv, InitCounts, CountsStep, PTL DEF Spec
  <1>2. Counts => ReportCoversObservation
    BY DEF Counts, ReportCoversObservation
  <1>3. QED
    BY <1>1, <1>2, PTL
-----------------------------------------------------------------------------
(* Welford's method: the count times a mean is the sum of what was         *)
(* observed, and a moment is the sum of products less what the means make  *)
(* of it.  Both stay so with one more observation, and are least squares.  *)

\* A quotient that leaves no remainder.
LEMMA ExactQuotient ==
    ASSUME NEW n \in Nat \ {0}, NEW p \in Int
    PROVE  (n * p) \div n = p
  <1> DEFINE a == n * p
             q == a \div n
             r == a % n
  <1>1. a \in Int
    OBVIOUS
  <1> HIDE DEF a
  <1>2. q \in Int /\ r \in Int /\ 0 <= r /\ r < n /\ a = n * q + r
    BY <1>1
  <1> HIDE DEF q, r
  <1>3. n * (p - q) = r
    BY <1>2 DEF a
  <1>4. p - q >= 1 => n * (p - q) >= n
    BY <1>2
  <1>5. p - q <= -1 => n * (p - q) <= -n
    BY <1>2
  <1>6. p - q = 0
    BY <1>2, <1>3, <1>4, <1>5
  <1>7. QED
    BY <1>2, <1>6 DEF q, a

\* The running mean of n + 1 integers whose mean is one.
MovedMean(n, mean, x) == mean + (x - mean) \div (n + 1)

LEMMA MeanMoves ==
    ASSUME NEW n \in Nat, NEW mean \in Int, NEW x \in Int, (n * mean + x) % (n + 1) = 0
    PROVE  /\ MovedMean(n, mean, x) \in Int
           /\ (n + 1) * MovedMean(n, mean, x) = n * mean + x
  <1> DEFINE a == n * mean + x
             p == a \div (n + 1)
  <1>1. a \in Int /\ n + 1 \in Nat \ {0}
    OBVIOUS
  <1>2. p \in Int /\ a = (n + 1) * p
    BY <1>1
  <1> HIDE DEF p
  <1>3. x - mean = (n + 1) * (p - mean)
    <2>1. a = (n + 1) * mean + (x - mean)
      OBVIOUS
    <2>2. QED
      BY <1>1, <1>2, <2>1
  <1>4. (x - mean) \div (n + 1) = p - mean
    BY <1>1, <1>2, <1>3, ExactQuotient
  <1>5. MovedMean(n, mean, x) = p
    BY <1>2, <1>4 DEF MovedMean
  <1>6. QED
    BY <1>2, <1>5

\* The deviation of x from its old mean times that of y from its new one is
\* what the moment about the means grows by.
LEMMA MomentMoves ==
    ASSUME NEW n \in Nat, NEW xMean \in Int, NEW yMean \in Int, NEW yMean2 \in Int,
           NEW x \in Int, NEW y \in Int, NEW xs \in Int, NEW ys \in Int, NEW products \in Int,
           xs = n * xMean, ys = n * yMean, (n + 1) * yMean2 = ys + y
    PROVE  (products - xs * yMean) + (x - xMean) * (y - yMean2)
               = (products + x * y) - (xs + x) * yMean2
  <1>1. xs + xMean = (n + 1) * xMean
    OBVIOUS
  <1>2. yMean2 * (xs + xMean) = xMean * (ys + y)
    <2>1. yMean2 * ((n + 1) * xMean) = xMean * ((n + 1) * yMean2)
      OBVIOUS
    <2>2. QED
      BY <1>1, <2>1
  <1>3. xMean * ys = xs * yMean
    <2>1. xMean * (n * yMean) = (n * xMean) * yMean
      OBVIOUS
    <2>2. QED
      BY <2>1
  <1>4. yMean2 * xs + yMean2 * xMean = xs * yMean + xMean * y
    <2>1. yMean2 * (xs + xMean) = yMean2 * xs + yMean2 * xMean
      OBVIOUS
    <2>2. xMean * (ys + y) = xMean * ys + xMean * y
      OBVIOUS
    <2>3. QED
      BY <1>2, <1>3, <2>1, <2>2
  <1>5. (x - xMean) * (y - yMean2) = x * y - x * yMean2 - xMean * y + xMean * yMean2
    OBVIOUS
  <1>6. (xs + x) * yMean2 = yMean2 * xs + x * yMean2
    OBVIOUS
  <1>7. yMean2 * xMean = xMean * yMean2
    OBVIOUS
  <1>8. QED
    <2> DEFINE e1 == xs * yMean
               e2 == x * y
               e3 == x * yMean2
               e4 == xMean * y
               e5 == xMean * yMean2
               e6 == yMean2 * xs
    <2>1. e1 \in Int /\ e2 \in Int /\ e3 \in Int /\ e4 \in Int /\ e5 \in Int /\ e6 \in Int
      OBVIOUS
    <2>2. e6 + e5 = e1 + e4
      BY <1>4, <1>7
    <2>3. /\ (x - xMean) * (y - yMean2) = e2 - e3 - e4 + e5
          /\ (xs + x) * yMean2 = e6 + e3
      BY <1>5, <1>6
    <2> HIDE DEF e1, e2, e3, e4, e5, e6
    <2>4. (products - e1) + (e2 - e3 - e4 + e5) = (products + e2) - (e6 + e3)
      BY <2>1, <2>2
    <2>5. QED
      BY <2>3, <2>4 DEF e1, e2

\* Integers that were observed, and how often.
Product(f, g) == [c \in DOMAIN f |-> f[c] * g[c]]

LEMMA ProductIsInt ==
    ASSUME NEW S, NEW f \in [S -> Int], NEW g \in [S -> Int]
    PROVE  Product(f, g) \in [S -> Int] /\ \A c \in S : Product(f, g)[c] = f[c] * g[c]
  BY DEF Product

LEMMA TotalIsSum ==
    ASSUME NEW S, NEW times \in [S -> Int], NEW f \in [S -> Int]
    PROVE  /\ Product(times, f) \in [S -> Int]
           /\ Total(times, f) = SumFunctionOnSet(Product(times, f), S)
  <1>1. Total(times, f) = SumFunction(Product(times, f))
    BY DEF Total, Product
  <1>2. Product(times, f) \in [S -> Int] /\ DOMAIN Product(times, f) = S
    BY DEF Product
  <1>3. QED
    BY <1>1, <1>2 DEF SumFunction

LEMMA TotalIsInt ==
    ASSUME NEW S, IsFiniteSet(S), NEW times \in [S -> Int], NEW f \in [S -> Int]
    PROVE  Total(times, f) \in Int
  <1> DEFINE h == Product(times, f)
  <1>1. h \in [S -> Int] /\ Total(times, f) = SumFunctionOnSet(h, S)
    BY TotalIsSum
  <1> HIDE DEF h
  <1>2. \A c \in S : h[c] \in Int
    BY <1>1
  <1>3. QED
    BY <1>1, <1>2, SumIsInt

\* One more observation.
LEMMA TotalMoves ==
    ASSUME NEW S, IsFiniteSet(S), NEW times \in [S -> Int], NEW f \in [S -> Int],
           NEW b \in S, NEW times2 \in [S -> Int],
           \A c \in S : times2[c] = IF c = b THEN times[c] + 1 ELSE times[c]
    PROVE  Total(times2, f) = Total(times, f) + f[b]
  <1> DEFINE g == Product(times, f)
             g2 == Product(times2, f)
  <1>2. /\ g \in [S -> Int] /\ Total(times, f) = SumFunctionOnSet(g, S)
        /\ g2 \in [S -> Int] /\ Total(times2, f) = SumFunctionOnSet(g2, S)
    BY TotalIsSum
  <1>3. \A c \in S : g[c] = times[c] * f[c] /\ g2[c] = times2[c] * f[c]
    BY DEF Product
  <1> HIDE DEF g, g2
  <1>4. f[b] \in Int /\ \A c \in S : g[c] \in Int
    BY <1>2
  <1>5. ASSUME NEW c \in S
        PROVE  g2[c] = IF c = b THEN g[c] + f[b] ELSE g[c]
    <2>1. times[c] \in Int /\ f[c] \in Int
      OBVIOUS
    <2>2. CASE c = b
      <3>1. g2[c] = (times[c] + 1) * f[c] /\ g[c] = times[c] * f[c]
        BY <1>3, <2>2
      <3>2. (times[c] + 1) * f[c] = times[c] * f[c] + f[c]
        BY <2>1
      <3>3. QED
        BY <2>2, <3>1, <3>2
    <2>3. CASE c # b
      BY <1>3, <2>3
    <2>4. QED
      BY <2>2, <2>3
  <1>6. SumFunctionOnSet(g2, S) = SumFunctionOnSet(g, S) + f[b]
    <2> DEFINE k == f[b]
    <2>1. k \in Int /\ \A c \in S : g2[c] = IF c = b THEN g[c] + k ELSE g[c]
      BY <1>4, <1>5
    <2> HIDE DEF k
    <2>2. SumFunctionOnSet(g2, S) = SumFunctionOnSet(g, S) + k
      BY <1>4, <2>1, TermMoves
    <2>3. QED
      BY <2>2 DEF k
  <1>7. QED
    BY <1>2, <1>6

\* The moment about the means.
Deviations(f, a, g, b) == [c \in DOMAIN f |-> (f[c] - a) * (g[c] - b)]

LEMMA MomentAboutMeans ==
    ASSUME NEW S, IsFiniteSet(S), NEW times \in [S -> Int],
           NEW f \in [S -> Int], NEW g \in [S -> Int], NEW a \in Int, NEW b \in Int,
           Total(times, g) = SumFunction(times) * b
    PROVE  Total(times, Deviations(f, a, g, b)) = Total(times, Product(f, g)) - Total(times, f) * b
  <1> DEFINE p == Product(times, Product(f, g))
             q == Product(times, f)
             r == Product(times, g)
             dev == Deviations(f, a, g, b)
             h == Product(times, dev)
             i == -b
             j == -a
             k == a * b
             k1 == [c \in S |-> p[c] + i * q[c]]
             k2 == [c \in S |-> k1[c] + j * r[c]]
  <1>1. dev \in [S -> Int] /\ Product(f, g) \in [S -> Int]
    BY ProductIsInt DEF Deviations
  <1>2. /\ p \in [S -> Int] /\ Total(times, Product(f, g)) = SumFunctionOnSet(p, S)
        /\ q \in [S -> Int] /\ Total(times, f) = SumFunctionOnSet(q, S)
        /\ r \in [S -> Int] /\ Total(times, g) = SumFunctionOnSet(r, S)
        /\ h \in [S -> Int] /\ Total(times, dev) = SumFunctionOnSet(h, S)
    BY <1>1, TotalIsSum
  <1>3. SumFunction(times) = SumFunctionOnSet(times, S) /\ \A c \in S : times[c] \in Int
    BY DEF SumFunction
  <1>4. ASSUME NEW c \in S
        PROVE  h[c] = k2[c] + k * times[c]
    <2> DEFINE t == times[c]
               x == f[c]
               y == g[c]
    <2>1. t \in Int /\ x \in Int /\ y \in Int
      OBVIOUS
    <2>2. Product(f, g)[c] = x * y
      BY ProductIsInt
    <2>3. p[c] = t * (x * y) /\ q[c] = t * x /\ r[c] = t * y
      BY <1>1, <2>2, ProductIsInt
    <2>4. h[c] = t * ((x - a) * (y - b))
      <3>1. dev[c] = (x - a) * (y - b)
        BY DEF Deviations
      <3>2. h[c] = times[c] * dev[c]
        BY <1>1, ProductIsInt
      <3>3. QED
        BY <3>1, <3>2
    <2>5. k2[c] = (p[c] + i * q[c]) + j * r[c]
      OBVIOUS
    <2> HIDE DEF t, x, y, p, q, r, h, k2
    <2>6. t * ((x - a) * (y - b)) = ((t * (x * y) + i * (t * x)) + j * (t * y)) + k * t
      BY <2>1
    <2>7. QED
      BY <2>3, <2>4, <2>5, <2>6 DEF t
  <1>5. /\ \A c \in S : p[c] \in Int /\ q[c] \in Int /\ r[c] \in Int
        /\ \A c \in S : k1[c] = p[c] + i * q[c] /\ k2[c] = k1[c] + j * r[c]
    BY <1>2
  <1>6. i \in Int /\ j \in Int /\ k \in Int
    OBVIOUS
  <1> HIDE DEF p, q, r, h, i, j, k, k1, k2
  <1>7. ASSUME NEW c \in S
        PROVE  k1[c] \in Int /\ k2[c] \in Int
    <2>1. k1[c] \in Int
      BY <1>5, <1>6
    <2>2. QED
      BY <1>5, <1>6, <2>1
  <1>8. SumFunctionOnSet(k1, S) = SumFunctionOnSet(p, S) + i * SumFunctionOnSet(q, S)
    BY <1>5, <1>6, SumIsLinear
  <1>9. SumFunctionOnSet(k2, S) = SumFunctionOnSet(k1, S) + j * SumFunctionOnSet(r, S)
    BY <1>5, <1>6, <1>7, SumIsLinear
  <1>10. SumFunctionOnSet(h, S) = SumFunctionOnSet(k2, S) + k * SumFunctionOnSet(times, S)
    BY <1>3, <1>4, <1>6, <1>7, SumIsLinear
  <1>11. Total(times, dev) = Total(times, Product(f, g)) - Total(times, f) * b
    <2> DEFINE P == SumFunctionOnSet(p, S)
               Q == SumFunctionOnSet(q, S)
               n == SumFunctionOnSet(times, S)
    <2>1. P \in Int /\ Q \in Int /\ n \in Int
      BY <1>3, <1>5, SumIsInt
    <2>2. SumFunctionOnSet(r, S) = n * b
      BY <1>2, <1>3
    <2>3. SumFunctionOnSet(h, S) = ((P + i * Q) + j * (n * b)) + k * n
      BY <1>8, <1>9, <1>10, <2>2
    <2> HIDE DEF P, Q, n
    <2>4. ((P + i * Q) + j * (n * b)) + k * n = P - Q * b
      BY <2>1 DEF i, j, k
    <2>5. QED
      BY <1>2, <2>3, <2>4 DEF P, Q
  <1>12. QED
    BY <1>11

\* The data of a task in terms of sums over its observations: a mean times the
\* count is the sum, a moment is taken about the means.
Fits(data, t, times) ==
    /\ data.count = SumFunction(times)
    /\ data.count * data.x = Total(times, Complexities(t))
    /\ data.var = Total(times, Product(Complexities(t), Complexities(t)))
                      - Total(times, Complexities(t)) * data.x
    /\ \A d \in Dims :
           /\ data.count * data.mean[d] = Total(times, Impacts(t, d))
           /\ data.cov[d] = Total(times, Product(Complexities(t), Impacts(t, d)))
                                - Total(times, Complexities(t)) * data.mean[d]

LEMMA HistoryIsInt ==
    ASSUME NEW t \in TaskNames
    PROVE  /\ IsFiniteSet(Made(t))
           /\ Complexities(t) \in [Made(t) -> Int]
           /\ \A d \in Dims : Impacts(t, d) \in [Made(t) -> Int]
  <1>1. IsFiniteSet(Made(t))
    BY MadeIsFinite
  <1>2. \A b \in Made(t) : 12 * b.complexity \in Int /\ b.impact \in [Dims -> Int]
    BY DecisionAssumption DEF Made
  <1>3. \A b \in Made(t) : \A d \in Dims : Scaled(b.impact)[d] \in Int
    BY <1>2, ScaledIsNumbers DEF Numbers
  <1>4. QED
    BY <1>1, <1>2, <1>3 DEF Complexities, Impacts

\* Data that fit are those of the definition.
LEMMA FitIsLeastSquares ==
    ASSUME NEW t \in TaskNames, NEW times \in [Made(t) -> Int], NEW data \in Data,
           Fits(data, t, times)
    PROVE  data = LeastSquares(t, times)
  <1> DEFINE S == Made(t)
             n == SumFunction(times)
             x == Complexities(t)
             y(d) == Impacts(t, d)
             Mean(f) == Total(times, f) \div n
             Moment(f, g) ==
                 Total(times, [b \in S |-> (f[b] - Mean(f)) * (g[b] - Mean(g))])
  <1>1. IsFiniteSet(S) /\ x \in [S -> Int] /\ \A d \in Dims : y(d) \in [S -> Int]
    BY HistoryIsInt
  <1>2. /\ n = data.count /\ n \in Nat \ {0} /\ data.x \in Int
        /\ \A d \in Dims : data.mean[d] \in Int
        /\ data = [count |-> data.count, x |-> data.x, var |-> data.var,
                   mean |-> data.mean, cov |-> data.cov]
        /\ data.mean = [d \in Dims |-> data.mean[d]] /\ data.cov = [d \in Dims |-> data.cov[d]]
    BY DEF Fits, Data
  <1>3. /\ Total(times, x) = n * data.x
        /\ \A d \in Dims : Total(times, y(d)) = n * data.mean[d]
    BY DEF Fits
  <1>4. Mean(x) = data.x /\ \A d \in Dims : Mean(y(d)) = data.mean[d]
    BY <1>2, <1>3, ExactQuotient
  <1>5. Moment(x, x) = data.var
    <2> DEFINE m == data.x
    <2>1. Moment(x, x) = Total(times, Deviations(x, m, x, m))
      <3>1. [c \in S |-> (x[c] - Mean(x)) * (x[c] - Mean(x))] = Deviations(x, m, x, m)
        BY <1>1, <1>4 DEF Deviations
      <3>2. QED
        BY <3>1
    <2>2. IsFiniteSet(S) /\ times \in [S -> Int] /\ x \in [S -> Int]
      BY <1>1
    <2>3. m \in Int /\ Total(times, x) = SumFunction(times) * m
      BY <1>2, <1>3
    <2> HIDE DEF m, S, x
    <2>4. Total(times, Deviations(x, m, x, m)) = Total(times, Product(x, x)) - Total(times, x) * m
      BY <2>2, <2>3, MomentAboutMeans
    <2>5. QED
      BY <2>1, <2>4 DEF Fits, m, x
  <1>6. ASSUME NEW d \in Dims
        PROVE  Moment(x, y(d)) = data.cov[d]
    <2> DEFINE z == Impacts(t, d)
               a == data.x
               m == data.mean[d]
    <2>1. Moment(x, z) = Total(times, Deviations(x, a, z, m))
      <3>1. [c \in S |-> (x[c] - Mean(x)) * (z[c] - Mean(z))] = Deviations(x, a, z, m)
        BY <1>1, <1>4 DEF Deviations
      <3>2. QED
        BY <3>1
    <2>2. IsFiniteSet(S) /\ times \in [S -> Int] /\ x \in [S -> Int] /\ z \in [S -> Int]
      BY <1>1
    <2>3. a \in Int /\ m \in Int /\ Total(times, z) = SumFunction(times) * m
      BY <1>2, <1>3
    <2> HIDE DEF a, m, S, x, z
    <2>4. Total(times, Deviations(x, a, z, m)) = Total(times, Product(x, z)) - Total(times, x) * m
      BY <2>2, <2>3, MomentAboutMeans
    <2>5. QED
      BY <2>1, <2>4 DEF Fits, m, x, z
  <1>7. LeastSquares(t, times) =
            [count |-> n, x |-> Mean(x), var |-> Moment(x, x),
             mean |-> [d \in Dims |-> Mean(y(d))], cov |-> [d \in Dims |-> Moment(x, y(d))]]
    BY DEF LeastSquares
  <1> HIDE DEF Mean, Moment, n
  <1>8. /\ [d \in Dims |-> Mean(y(d))] = data.mean
        /\ [d \in Dims |-> Moment(x, y(d))] = data.cov
    BY <1>2, <1>4, <1>6
  <1>9. QED
    BY <1>2, <1>4, <1>5, <1>7, <1>8

\* One more observation of a task with data,
LEMMA RegressedFits ==
    ASSUME NEW t \in TaskNames, NEW times \in [Made(t) -> Int], NEW b \in Made(t),
           NEW times2 \in [Made(t) -> Int],
           \A c \in Made(t) : times2[c] = IF c = b THEN times[c] + 1 ELSE times[c],
           NEW data \in Data, Fits(data, t, times),
           Total(times2, Complexities(t)) % SumFunction(times2) = 0,
           \A d \in Dims : Total(times2, Impacts(t, d)) % SumFunction(times2) = 0
    PROVE  Fits(Regressed(data, 12 * b.complexity, Scaled(b.impact)), t, times2)
  <1> DEFINE S == Made(t)
             X == Complexities(t)
             n == data.count
             x == 12 * b.complexity
             y == Scaled(b.impact)
             x2 == data.x + (x - data.x) \div (n + 1)
             mean2 == [d \in Dims |-> data.mean[d] + (y[d] - data.mean[d]) \div (n + 1)]
             data2 == Regressed(data, x, y)
  <1>1. IsFiniteSet(S) /\ X \in [S -> Int] /\ \A d \in Dims : Impacts(t, d) \in [S -> Int]
    BY HistoryIsInt
  <1>2. X[b] = x /\ \A d \in Dims : Impacts(t, d)[b] = y[d]
    BY DEF Complexities, Impacts
  <1>3. /\ n \in Nat /\ data.x \in Int /\ data.var \in Int /\ x \in Int
        /\ \A d \in Dims : data.mean[d] \in Int /\ data.cov[d] \in Int /\ y[d] \in Int
    <2>1. x \in Int /\ \A d \in Dims : y[d] \in Int
      BY <1>1, <1>2
    <2>2. QED
      BY <2>1 DEF Data
  <1>4. /\ data2.count = n + 1 /\ data2.x = x2 /\ data2.mean = mean2
        /\ data2.var = data.var + (x - data.x) * (x - x2)
        /\ \A d \in Dims : data2.cov[d] = data.cov[d] + (x - data.x) * (y[d] - mean2[d])
    BY DEF Regressed, Grown, CoMoment
  <1>5. SumFunction(times2) = n + 1
    <2>1. SumFunction(times2) = SumFunction(times) + 1
      BY <1>1, TimesMove
    <2>2. QED
      BY <2>1 DEF Fits
  <1>6. ASSUME NEW f \in [S -> Int]
        PROVE  Total(times2, f) = Total(times, f) + f[b] /\ Total(times, f) \in Int
    BY <1>1, TotalMoves, TotalIsInt
  <1> HIDE DEF X, n, x, y, x2, mean2, data2, S
  <1>7. x2 \in Int /\ (n + 1) * x2 = Total(times, X) + x
    <2> DEFINE xs == Total(times, X)
               m == data.x
    <2>1. xs = n * m /\ (n * m + x) % (n + 1) = 0
      BY <1>1, <1>2, <1>5, <1>6 DEF Fits, X, n
    <2>2. m \in Int /\ x2 = MovedMean(n, m, x)
      BY <1>3 DEF x2, MovedMean
    <2> HIDE DEF xs, m
    <2>3. x2 \in Int /\ (n + 1) * x2 = n * m + x
      BY <1>3, <2>1, <2>2, MeanMoves
    <2>4. QED
      BY <2>1, <2>3 DEF xs
  <1>8. ASSUME NEW d \in Dims
        PROVE  mean2[d] \in Int /\ (n + 1) * mean2[d] = Total(times, Impacts(t, d)) + y[d]
    <2> DEFINE ys == Total(times, Impacts(t, d))
               m == data.mean[d]
               z == y[d]
    <2>1. ys = n * m /\ (n * m + z) % (n + 1) = 0
      BY <1>1, <1>2, <1>5, <1>6 DEF Fits, n
    <2>2. m \in Int /\ z \in Int /\ mean2[d] = MovedMean(n, m, z)
      BY <1>3 DEF mean2, MovedMean
    <2> HIDE DEF ys, m, z
    <2>3. MovedMean(n, m, z) \in Int /\ (n + 1) * MovedMean(n, m, z) = n * m + z
      <3>1. n \in Nat
        BY <1>3
      <3>2. QED
        BY <2>1, <2>2, <3>1, MeanMoves
    <2> HIDE DEF mean2
    <2>4. mean2[d] \in Int /\ (n + 1) * mean2[d] = n * m + z
      BY <2>2, <2>3, Zenon
    <2>5. QED
      BY <2>1, <2>4 DEF ys, z
  <1>9. data2.var = Total(times2, Product(X, X)) - Total(times2, X) * x2
    <2> DEFINE xs == Total(times, X)
               products == Total(times, Product(X, X))
               m == data.x
    <2>1. Product(X, X) \in [S -> Int] /\ Product(X, X)[b] = x * x
      BY <1>1, <1>2, ProductIsInt DEF S
    <2>2. /\ Total(times2, Product(X, X)) = products + x * x /\ products \in Int
          /\ Total(times2, X) = xs + x /\ xs \in Int
      BY <1>1, <1>2, <1>6, <2>1
    <2>3. xs = n * m /\ m \in Int /\ data.var = products - xs * m
      BY <1>3 DEF Fits, X, n
    <2>4. data2.var = data.var + (x - m) * (x - x2) /\ (n + 1) * x2 = xs + x
      BY <1>4, <1>7
    <2> HIDE DEF xs, products, m
    <2>5. (products - xs * m) + (x - m) * (x - x2) = (products + x * x) - (xs + x) * x2
      BY <1>3, <1>7, <2>2, <2>3, <2>4, MomentMoves
    <2>6. QED
      BY <2>2, <2>3, <2>4, <2>5
  <1>10. ASSUME NEW d \in Dims
         PROVE  data2.cov[d] = Total(times2, Product(X, Impacts(t, d)))
                                   - Total(times2, X) * mean2[d]
    <2> DEFINE Y == Impacts(t, d)
               xs == Total(times, X)
               ys == Total(times, Y)
               products == Total(times, Product(X, Y))
               xm == data.x
               ym == data.mean[d]
               ym2 == mean2[d]
               z == y[d]
    <2>1. Product(X, Y) \in [S -> Int] /\ Product(X, Y)[b] = x * z
      BY <1>1, <1>2, ProductIsInt DEF S
    <2>2. /\ Total(times2, Product(X, Y)) = products + x * z /\ products \in Int
          /\ Total(times2, X) = xs + x /\ xs \in Int /\ ys \in Int
      BY <1>1, <1>2, <1>6, <2>1
    <2>3. /\ xs = n * xm /\ ys = n * ym /\ data.cov[d] = products - xs * ym
          /\ xm \in Int /\ ym \in Int /\ ym2 \in Int /\ z \in Int
      BY <1>3, <1>8 DEF Fits, X, n
    <2>4. data2.cov[d] = data.cov[d] + (x - xm) * (z - ym2) /\ (n + 1) * ym2 = ys + z
      BY <1>4, <1>8
    <2> HIDE DEF Y, xs, ys, products, xm, ym, ym2, z
    <2>5. (products - xs * ym) + (x - xm) * (z - ym2) = (products + x * z) - (xs + x) * ym2
      BY <1>3, <2>2, <2>3, <2>4, MomentMoves
    <2>6. QED
      BY <2>2, <2>3, <2>4, <2>5 DEF Y, ym2
  <1>11. /\ Total(times2, X) = Total(times, X) + x
         /\ \A d \in Dims : Total(times2, Impacts(t, d)) = Total(times, Impacts(t, d)) + y[d]
    BY <1>1, <1>2, <1>6
  <1>12. Fits(data2, t, times2)
    BY <1>4, <1>5, <1>7, <1>8, <1>9, <1>10, <1>11 DEF Fits, X
  <1>13. QED
    BY <1>12 DEF data2, x, y

LEMMA TotalOfZeros ==
    ASSUME NEW S, IsFiniteSet(S), NEW times \in [S -> Int], \A c \in S : times[c] = 0,
           NEW f \in [S -> Int]
    PROVE  Total(times, f) = 0
  <1> DEFINE h == Product(times, f)
  <1>1. Total(times, f) = SumFunctionOnSet(h, S)
    BY TotalIsSum
  <1>2. \A c \in S : f[c] \in Int /\ h[c] = times[c] * f[c]
    BY ProductIsInt
  <1> HIDE DEF h
  <1>3. \A c \in S : h[c] = 0
    BY <1>2
  <1>4. QED
    BY <1>1, <1>3, SumOfZeros

\* and the first of one without.
LEMMA FirstFits ==
    ASSUME NEW t \in TaskNames, NEW times \in [Made(t) -> Int], NEW b \in Made(t),
           NEW times2 \in [Made(t) -> Int],
           \A c \in Made(t) : times2[c] = IF c = b THEN times[c] + 1 ELSE times[c],
           \A c \in Made(t) : times[c] = 0,
           NEW m, m.kind = "linear"
    PROVE  Fits(FirstData(m, 12 * b.complexity, Scaled(b.impact)), t, times2)
  <1> DEFINE S == Made(t)
             X == Complexities(t)
             x == 12 * b.complexity
             y == Scaled(b.impact)
             data == FirstData(m, x, y)
  <1>1. IsFiniteSet(S) /\ X \in [S -> Int] /\ \A d \in Dims : Impacts(t, d) \in [S -> Int]
    BY HistoryIsInt
  <1>2. X[b] = x /\ \A d \in Dims : Impacts(t, d)[b] = y[d]
    BY DEF Complexities, Impacts
  <1>3. x \in Int /\ \A d \in Dims : y[d] \in Int
    BY <1>1, <1>2
  <1>4. /\ data.count = 1 /\ data.x = x /\ data.var = 0 /\ data.mean = y
        /\ \A d \in Dims : data.cov[d] = 0
    BY DEF FirstData, Blank, NoDelta
  <1>5. SumFunction(times2) = 1
    <2>1. SumFunctionOnSet(times, S) = 0
      BY <1>1, SumOfZeros
    <2>2. SumFunction(times) = 0
      BY <2>1 DEF SumFunction
    <2>3. SumFunction(times2) = SumFunction(times) + 1
      BY <1>1, TimesMove
    <2>4. QED
      BY <2>2, <2>3
  <1>6. ASSUME NEW f \in [S -> Int]
        PROVE  Total(times2, f) = f[b]
    <2>1. Total(times2, f) = Total(times, f) + f[b] /\ Total(times, f) = 0
      BY <1>1, TotalMoves, TotalOfZeros
    <2>2. f[b] \in Int
      OBVIOUS
    <2>3. QED
      BY <2>1, <2>2
  <1> HIDE DEF X, x, y, data, S
  <1>7. Total(times2, X) = x /\ \A d \in Dims : Total(times2, Impacts(t, d)) = y[d]
    BY <1>1, <1>2, <1>6
  <1>8. Total(times2, Product(X, X)) = x * x
    <2>1. Product(X, X) \in [S -> Int] /\ Product(X, X)[b] = x * x
      BY <1>1, <1>2, ProductIsInt DEF S
    <2>2. QED
      BY <1>6, <2>1
  <1>9. ASSUME NEW d \in Dims
        PROVE  Total(times2, Product(X, Impacts(t, d))) = x * y[d]
    <2> DEFINE Y == Impacts(t, d)
    <2>1. Y \in [S -> Int] /\ Y[b] = y[d]
      BY <1>1, <1>2
    <2> HIDE DEF Y
    <2>2. Product(X, Y) \in [S -> Int] /\ Product(X, Y)[b] = X[b] * Y[b]
      BY <1>1, <2>1, ProductIsInt DEF S
    <2>3. Total(times2, Product(X, Y)) = Product(X, Y)[b]
      BY <1>6, <2>2
    <2>4. QED
      BY <1>2, <2>1, <2>2, <2>3 DEF Y
  <1>10. x * x - x * x = 0 /\ \A d \in Dims : x * y[d] - x * y[d] = 0
    BY <1>3
  <1>11. Fits(data, t, times2)
    BY <1>3, <1>4, <1>5, <1>7, <1>8, <1>9, <1>10 DEF Fits, X
  <1>12. QED
    BY <1>11 DEF data, x, y

\* A linear model is a regression of its own observations, as often as each was
\* made.
Regression(m, h) ==
    /\ \A t \in TaskNames : h[t].points \in [Made(t) -> Nat]
    /\ m.kind = "linear" => \A t \in TaskNames :
           (h[t].elsewhere = 0 /\ SumFunction(h[t].points) > 0) =>
               Fits(m.tasks[t], t, h[t].points)

Regressions ==
    /\ Regression(model, seen)
    /\ file.exists => Regression(file.model, file.seen)

LEMMA ElsewhereRegresses == \A m, m2 : Regression(m2, SeenElsewhere(m))
  <1> SUFFICES ASSUME NEW m, NEW m2 PROVE Regression(m2, SeenElsewhere(m))
    OBVIOUS
  <1>1. ASSUME NEW t \in TaskNames
        PROVE  /\ SeenElsewhere(m)[t].points \in [Made(t) -> Nat]
               /\ SumFunction(SeenElsewhere(m)[t].points) = 0
    <2> DEFINE zeros == [b \in Made(t) |-> 0]
    <2>1. SeenElsewhere(m)[t].points = zeros
      BY DEF SeenElsewhere
    <2>2. zeros \in [Made(t) -> Nat] /\ DOMAIN zeros = Made(t) /\ \A b \in Made(t) : zeros[b] = 0
      OBVIOUS
    <2> HIDE DEF zeros
    <2>3. SumFunction(zeros) = 0
      BY <2>2, MadeIsFinite, SumOfZeros DEF SumFunction
    <2>4. QED
      BY <2>1, <2>2, <2>3
  <1> DEFINE h == SeenElsewhere(m)
  <1> HIDE DEF h
  <1>2. \A t \in TaskNames : h[t].points \in [Made(t) -> Nat] /\ SumFunction(h[t].points) = 0
    BY <1>1 DEF h
  <1>3. Regression(m2, h)
    BY <1>2 DEF Regression
  <1>4. QED
    BY <1>3 DEF h

\* The scale is such that the means of the observations are integers.
LEMMA ScaleIsExact ==
    ASSUME NEW t \in TaskNames, NEW times \in [Made(t) -> Nat],
           SumFunction(times) > 0, SumFunction(times) <= MaxPoints["linear"]
    PROVE  /\ Total(times, Complexities(t)) % SumFunction(times) = 0
           /\ \A d \in Dims : Total(times, Impacts(t, d)) % SumFunction(times) = 0
  <1> DEFINE S == Made(t)
             n == SumFunction(times)
             max == MaxPoints["linear"]
  <1>1. max \in Nat
    BY DecisionAssumption, ScaleAssumption
  <1>2. n \in Nat /\ \A c \in S : times[c] <= n
    <2>1. IsFiniteSet(S) /\ DOMAIN times = S /\ \A c \in S : times[c] \in Nat
      BY MadeIsFinite
    <2> HIDE DEF S
    <2>2. QED
      BY <2>1, SumOfNats DEF SumFunction
  <1>3. n \in 1..max
    BY <1>1, <1>2
  <1> HIDE DEF n
  <1>4. times \in [S -> 0..max]
    <2>1. \A c \in S : times[c] \in 0..max
      BY <1>1, <1>2, <1>3
    <2>2. QED
      BY <2>1
  <1>5. QED
    BY <1>3, <1>4, ScaleAssumption DEF n

LEMMA SumIsNat ==
    ASSUME NEW t, NEW times \in [Made(t) -> Nat]
    PROVE  SumFunction(times) \in Nat
  <1> DEFINE S == Made(t)
  <1>1. IsFiniteSet(S) /\ DOMAIN times = S /\ \A c \in S : times[c] \in Nat
    BY MadeIsFinite
  <1> HIDE DEF S
  <1>2. QED
    BY <1>1, SumOfNats DEF SumFunction

\* A task all of whose observations are the model's own has data when, and only
\* when, there is one.
LEMMA OwnIsKnown ==
    ASSUME NEW m, IsModel(m), m.kind # "none", NEW h, Tells(m, h), NEW t \in TaskNames,
           h[t].elsewhere = 0, SumFunction(h[t].points) \in Nat
    PROVE  /\ SumFunction(h[t].points) > 0 => Known(m, t) /\ m.tasks[t] \in Data
           /\ SumFunction(h[t].points) = 0 => ~Known(m, t)
  <1>1. TaskStats(m, t).count = SumFunction(h[t].points)
    <2> DEFINE n == SumFunction(h[t].points)
    <2>1. TaskStats(m, t).count = h[t].elsewhere + n /\ n \in Nat
      BY DEF Tells, ToldBy
    <2> HIDE DEF n
    <2>2. TaskStats(m, t).count = n
      BY <2>1
    <2>3. QED
      BY <2>2 DEF n
  <1>2. Known(m, t) => m.tasks[t] \in Data /\ m.tasks[t].count \in Nat \ {0}
    BY DEF IsModel, Known, Data
  <1>3. Known(m, t) => TaskStats(m, t).count = m.tasks[t].count
    BY DEF TaskStats
  <1>4. ~Known(m, t) => TaskStats(m, t).count = 0
    BY DEF TaskStats
  <1>5. QED
    BY <1>1, <1>2, <1>3, <1>4

LEMMA ObservedRegresses ==
    ASSUME NEW m, IsModel(m), NEW h, Tells(m, h), Regression(m, h), NEW b \in Observations,
           m.kind = "linear" /\ h[b.task].elsewhere = 0
               => SumFunction(h[b.task].points) < MaxPoints["linear"],
           NEW m2, m2 = Observed(m, b.task, b.complexity, b.impact),
           NEW h2, h2 = Longer(h, b)
    PROVE  Regression(m2, h2)
  <1> DEFINE t == b.task
             f == h[t].points
             g == h2[t].points
             x == 12 * b.complexity
             y == Scaled(b.impact)
  <1>1. /\ t \in TaskNames /\ b \in Made(t)
        /\ \A u \in TaskNames \ {t} : h2[u] = h[u]
        /\ h2[t] = [elsewhere |-> h[t].elsewhere, points |-> [f EXCEPT ![b] = f[b] + 1]]
    <2>1. IsHistory(h)
      BY DEF Tells
    <2> HIDE DEF t, f
    <2>2. /\ b.task \in TaskNames /\ b \in Made(b.task)
          /\ \A u \in TaskNames \ {b.task} : h2[u] = h[u]
          /\ h2[b.task] = [elsewhere |-> h[b.task].elsewhere,
                           points |-> Again(h[b.task].points, b)]
      BY <2>1, HistoryMoves
    <2>3. QED
      BY <2>2 DEF t, f, Again
  <1>2. f \in [Made(t) -> Nat]
    BY <1>1 DEF Regression
  <1>3. g = [f EXCEPT ![b] = f[b] + 1] /\ h2[t].elsewhere = h[t].elsewhere
    BY <1>1
  <1>4. /\ g \in [Made(t) -> Nat]
        /\ \A c \in Made(t) : g[c] = IF c = b THEN f[c] + 1 ELSE f[c]
    BY <1>1, <1>2, <1>3
  <1>5. \A u \in TaskNames : h2[u].points \in [Made(u) -> Nat]
    BY <1>1, <1>4 DEF Regression
  <1>6. ASSUME m2.kind = "linear"
        PROVE  m.kind = "linear"
    <2>1. b.complexity \in Int /\ b.impact \in Numbers
      BY DecisionAssumption DEF Numbers
    <2>2. m.kind # "none" => m2.kind = m.kind
      BY <2>1, ObservedGrows
    <2>3. m.kind = "none" => m2 = m
      BY DEF Observed
    <2>4. QED
      BY <1>6, <2>2, <2>3
  <1>7. ASSUME m.kind = "linear"
        PROVE  /\ \A u \in DOMAIN m.tasks : u # t => m2.tasks[u] = m.tasks[u]
               /\ Known(m, t) => m2.tasks[t] = Regressed(m.tasks[t], x, y)
               /\ ~Known(m, t) => m2.tasks[t] = FirstData(m, x, y)
    BY <1>7, ObservedTasks DEF NextData
  <1>8. ASSUME m.kind = "linear", NEW u \in TaskNames \ {t},
               h2[u].elsewhere = 0, SumFunction(h2[u].points) > 0
        PROVE  Fits(m2.tasks[u], u, h2[u].points)
    <2>1. h2[u] = h[u]
      BY <1>1
    <2>2. SumFunction(h[u].points) \in Nat
      BY SumIsNat DEF Regression
    <2>3. Known(m, u)
      BY <1>8, <2>1, <2>2, OwnIsKnown
    <2>4. m2.tasks[u] = m.tasks[u]
      BY <1>7, <1>8, <2>3 DEF Known
    <2>5. Fits(m.tasks[u], u, h[u].points)
      BY <1>8, <2>1 DEF Regression
    <2>6. QED
      BY <2>1, <2>4, <2>5
  <1>9. ASSUME m.kind = "linear", h[t].elsewhere = 0
        PROVE  Fits(m2.tasks[t], t, g)
    <2>1. f \in [Made(t) -> Int] /\ g \in [Made(t) -> Int] /\ SumFunction(f) \in Nat
      BY <1>2, <1>4, SumIsNat
    <2>2. SumFunction(g) = SumFunction(f) + 1
      <3> DEFINE S == Made(t)
      <3>1. /\ IsFiniteSet(S) /\ f \in [S -> Int] /\ g \in [S -> Int] /\ b \in S
            /\ \A c \in S : g[c] = IF c = b THEN f[c] + 1 ELSE f[c]
        BY <1>1, <1>4, <2>1, MadeIsFinite
      <3> HIDE DEF f, g, S
      <3>2. QED
        BY <3>1, TimesMove
    <2>3. SumFunction(f) < MaxPoints["linear"] /\ MaxPoints["linear"] \in Nat
      BY <1>9, DecisionAssumption, ScaleAssumption
    <2>4. /\ Total(g, Complexities(t)) % SumFunction(g) = 0
          /\ \A d \in Dims : Total(g, Impacts(t, d)) % SumFunction(g) = 0
      BY <1>1, <1>4, <2>1, <2>2, <2>3, ScaleIsExact
    <2>5. CASE SumFunction(f) = 0
      <3>1. ~Known(m, t)
        BY <1>1, <1>9, <2>5, OwnIsKnown
      <3>2. \A c \in Made(t) : f[c] = 0
        <4> DEFINE S == Made(t)
        <4>1. IsFiniteSet(S) /\ DOMAIN f = S /\ \A c \in S : f[c] \in Nat
          BY <1>2, MadeIsFinite
        <4> HIDE DEF S, f
        <4>2. SumFunctionOnSet(f, S) = 0
          BY <2>5, <4>1 DEF SumFunction
        <4>3. \A c \in S : f[c] <= 0
          BY <4>1, <4>2, SumOfNats
        <4>4. QED
          BY <4>1, <4>3 DEF S
      <3>3. m2.tasks[t] = FirstData(m, x, y)
        BY <1>7, <1>9, <3>1
      <3> HIDE DEF f, g
      <3>4. Fits(FirstData(m, x, y), t, g)
        BY <1>1, <1>4, <1>9, <2>1, <3>2, FirstFits
      <3>5. QED
        BY <3>3, <3>4
    <2>6. CASE SumFunction(f) > 0
      <3>1. Known(m, t) /\ m.tasks[t] \in Data
        BY <1>1, <1>9, <2>1, <2>6, OwnIsKnown
      <3>2. Fits(m.tasks[t], t, f)
        BY <1>1, <1>9, <2>6 DEF Regression
      <3>3. m2.tasks[t] = Regressed(m.tasks[t], x, y)
        BY <1>7, <1>9, <3>1
      <3> DEFINE data == m.tasks[t]
      <3> HIDE DEF f, g, data
      <3>4. Fits(Regressed(data, x, y), t, g)
        <4>1. data \in Data /\ Fits(data, t, f)
          BY <3>1, <3>2 DEF data
        <4>2. QED
          BY <1>1, <1>4, <2>1, <2>4, <4>1, RegressedFits
      <3>5. QED
        BY <3>3, <3>4 DEF data
    <2>7. QED
      BY <2>1, <2>5, <2>6
  <1>10. ASSUME m2.kind = "linear", NEW u \in TaskNames,
                h2[u].elsewhere = 0, SumFunction(h2[u].points) > 0
         PROVE  Fits(m2.tasks[u], u, h2[u].points)
    <2>1. CASE u = t
      BY <1>3, <1>6, <1>9, <1>10, <2>1
    <2>2. CASE u # t
      BY <1>6, <1>8, <1>10, <2>2
    <2>3. QED
      BY <2>1, <2>2
  <1>11. QED
    BY <1>5, <1>10 DEF Regression

LEMMA InitRegressions == Init => Regressions
  <1> SUFFICES ASSUME Init PROVE Regressions
    OBVIOUS
  <1>1. Regression(model, seen)
    BY ElsewhereRegresses DEF Init, Unseen
  <1>2. file.exists => Regression(file.model, file.seen)
    <2>1. CASE file = NoFile
      BY <2>1 DEF NoFile
    <2>2. ASSUME NEW m \in OldFiles,
                 file = [exists |-> TRUE, model |-> m, seen |-> SeenElsewhere(m)]
          PROVE  Regression(file.model, file.seen)
      BY <2>2, ElsewhereRegresses
    <2>3. QED
      BY <2>1, <2>2 DEF Init
  <1>3. QED
    BY <1>1, <1>2 DEF Regressions

LEMMA RegressionsStep == DInv /\ Counts /\ Regressions /\ [Next]_vars => Regressions'
  <1> SUFFICES ASSUME DInv, Counts, Regressions, [Next]_vars PROVE Regressions'
    OBVIOUS
  <1>1. CASE UNCHANGED <<model, file, seen>>
    BY <1>1 DEF Regressions
  <1>2. ASSUME NEW d \in Deciders, DeciderStep(d) PROVE Regressions'
    BY <1>1, <1>2 DEF DeciderStep, AskGarbled, Ask, BuildContext, AskConfidence, Conclude,
       ReplySent, askUnchanged
  <1>3. CASE AddPendingTask \/ RemovePendingTask \/ UpdateThresholds \/ UNCHANGED vars
    BY <1>1, <1>3 DEF AddPendingTask, RemovePendingTask, UpdateThresholds, listsUnchanged, vars
  <1>4. ASSUME NEW o \in Observers, ObserveFeed(o) PROVE Regressions'
    <2>1. PICK b \in Observations :
              /\ MayObserve(b.task)
              /\ model' = Observed(model, b.task, b.complexity, b.impact)
              /\ seen' = Longer(seen, b)
      BY <1>4 DEF ObserveFeed, Learned, Longer
    <2>2. model.kind = "linear" /\ seen[b.task].elsewhere = 0
              => SumFunction(seen[b.task].points) < MaxPoints["linear"]
      BY <2>1 DEF MayObserve, Points
    <2>3. Regression(model', seen')
      <3>1. IsModel(model) /\ Tells(model, seen) /\ Regression(model, seen)
        BY DEF DInv, Models, Counts, Regressions
      <3>2. QED
        BY <2>1, <2>2, <3>1, ObservedRegresses
    <2>4. file' = file
      BY <1>4 DEF ObserveFeed, observeUnchanged
    <2>5. QED
      BY <2>3, <2>4 DEF Regressions
  <1>5. ASSUME NEW o \in Observers, ObserverStep(o) PROVE Regressions'
    BY <1>1, <1>4, <1>5 DEF ObserverStep, ObserveReport, ObserveReturns, observeUnchanged
  <1>6. CASE SaveModel \/ DeleteModel
    <2>1. UNCHANGED <<model, seen>>
      BY <1>6 DEF SaveModel, DeleteModel
    <2>2. Regression(Saved(model), seen)
      BY DEF Regressions, Regression, Saved, EmptyFile
    <2>3. file'.exists => Regression(file'.model, file'.seen)
      <3>1. \/ file' = file \/ file' = NoFile
            \/ file' = [exists |-> TRUE, model |-> Saved(model), seen |-> seen]
        BY <1>6 DEF SaveModel, DeleteModel
      <3>2. QED
        BY <2>2, <3>1 DEF NoFile, Regressions
    <2>4. QED
      BY <2>1, <2>3 DEF Regressions
  <1>7. CASE LoadModel
    <2>1. file.exists /\ file' = file /\ file.model.kind # "none" /\ model.kind # "none"
      BY <1>7 DEF LoadModel
    <2>2. CASE file.model.kind = model.kind
      <3>1. model' = file.model /\ seen' = file.seen
        BY <1>7, <2>1, <2>2 DEF LoadModel, Loaded
      <3>2. QED
        BY <2>1, <3>1 DEF Regressions
    <2>3. CASE file.model.kind # model.kind
      <3>1. seen' = SeenElsewhere(model')
        BY <1>7, <2>3 DEF LoadModel
      <3>2. Regression(model', seen')
        BY <3>1, ElsewhereRegresses
      <3>3. QED
        BY <2>1, <3>2 DEF Regressions
    <2>4. QED
      BY <2>2, <2>3
  <1>8. CASE Restart
    <2>1. Regression(model', seen') /\ file' = file
      BY <1>8, ElsewhereRegresses DEF Restart, Unseen
    <2>2. QED
      BY <2>1 DEF Regressions
  <1>9. QED
    BY <1>2, <1>3, <1>5, <1>6, <1>7, <1>8 DEF Next, StorageStep

\* Every running mean, variance and covariance of a linear model is that of
\* least squares over all observations of the task, whatever their order, and
\* across saves, restarts and loads (decision/model/linear.go, updateTaskData).
THEOREM WelfordIsExact == Spec => []WelfordIsLeastSquares
  <1>1. Spec => []Counts
    BY SpecDInv, InitCounts, CountsStep, PTL DEF Spec
  <1>2. Spec => []Regressions
    BY <1>1, SpecDInv, InitRegressions, RegressionsStep, PTL DEF Spec
  <1>3. DInv /\ Counts /\ Regressions => WelfordIsLeastSquares
    <2> SUFFICES ASSUME DInv, Counts, Regressions, model.kind = "linear", NEW t \in TaskNames,
                        seen[t].elsewhere = 0, Points(t) > 0
                 PROVE  model.tasks[t] = LeastSquares(t, seen[t].points)
      BY DEF WelfordIsLeastSquares
    <2> DEFINE times == seen[t].points
    <2>1. /\ IsModel(model) /\ Tells(model, seen) /\ times \in [Made(t) -> Nat]
          /\ SumFunction(times) > 0
      BY DEF DInv, Models, Counts, Regressions, Regression, Points
    <2>2. times \in [Made(t) -> Int] /\ SumFunction(times) \in Nat
      BY <2>1, SumIsNat
    <2>3. model.tasks[t] \in Data
      BY <2>1, <2>2, OwnIsKnown
    <2>4. Fits(model.tasks[t], t, times)
      BY <2>1 DEF Regressions, Regression
    <2>5. QED
      BY <2>2, <2>3, <2>4, FitIsLeastSquares
  <1>4. QED
    BY <1>1, <1>2, <1>3, SpecDInv, PTL
=============================================================================
