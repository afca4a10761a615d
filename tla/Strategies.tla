----------------------------- MODULE Strategies -----------------------------
(***************************************************************************)
(* The decision strategies of internal/decision/strategy: what each makes  *)
(* of a reading of the system, the thresholds, a prediction and the tasks  *)
(* that are pending.                                                       *)
(*                                                                         *)
(* Readings and thresholds are in percent, as in Aggregator; predicted and *)
(* future values are in 1/3000 percent (Unit).  A GPU whose total memory   *)
(* is unknown has vram = -1.                                               *)
(***************************************************************************)
EXTENDS PredictionModels, Thresholds, Sequences

CONSTANT NoThresholds   \* nil: no thresholds configured

Overload == [cpu |-> "cpu_overload", memory |-> "memory_overload",
             gpu |-> "gpu_overload", vram |-> "vram_overload"]
-----------------------------------------------------------------------------
(* The decisions of the code.                                              *)

ClampedBelow(v) == IF v < 0 THEN 0 ELSE v
\* clamp(value, 0, 100)
Clamp(v) == IF v < 0 THEN 0 ELSE IF v > 100 * Unit THEN 100 * Unit ELSE v

BufferAlone(delta, buffer) == (delta * buffer) \div 100
\* A predicted impact times 1 + buffer percent.
Buffered(delta, buffer) == delta + (delta * buffer) \div 100

ConfidenceAlone(sure, prediction) == sure
\* What a prediction is used for, rather than the fallback.
Usable(sure, prediction) == sure /\ prediction # NoImpact
-----------------------------------------------------------------------------
(* Factory.Create: a strategy [type, buffer], whose fallback is always the *)
(* threshold strategy, or [type |-> "error"] for an unknown type.  A       *)
(* fallback of any other known type is created with a fallback of its own  *)
(* type, and so on without end.                                            *)

Predictives == {"predictive", "conservative", "queue_aware"}

CreateStrategy(cfg) ==
    CASE cfg.type = "threshold" -> [type |-> "threshold", buffer |-> 0]
      [] cfg.type \in Predictives -> IF cfg.fallback \in Predictives THEN [type |-> "overflow"]
                                     ELSE [type |-> cfg.type, buffer |-> cfg.buffer]
      [] OTHER -> [type |-> "error"]
-----------------------------------------------------------------------------
(* The state after the task.                                               *)

\* What a reading says of a resource; only the first GPU counts.
Missing(s, d) ==
    d \in {"gpu", "vram"} /\ (s.gpus = <<>> \/ (d = "vram" /\ s.gpus[1].vram = -1))
Current(s, d) ==
    CASE d = "cpu" -> s.cpu [] d = "memory" -> s.memory
      [] d = "gpu" -> s.gpus[1].usage [] d = "vram" -> s.gpus[1].vram

Future(s, delta) ==
    [d \in Dims |-> Clamp(IF Missing(s, d) THEN 0 ELSE Current(s, d) * Unit + delta[d])]

\* What each strategy adds to the current state; queued is the impact of the
\* pending tasks.
WithBuffer(prediction, buffer) == [d \in Dims |-> Buffered(prediction[d], buffer)]
WithQueue(prediction, queued) == [d \in Dims |-> queued[d] + prediction[d]]

Delta(strategy, prediction, queued) ==
    CASE strategy.type = "predictive" -> prediction
      [] strategy.type = "conservative" -> WithBuffer(prediction, strategy.buffer)
      [] strategy.type = "queue_aware" -> WithQueue(prediction, queued)

\* checkFutureThresholds, the same in all three.
FutureReasons(future, t) == {Overload[d] : d \in {e \in Dims : future[e] > t[e] * Unit}}
-----------------------------------------------------------------------------
(* Decide, of a context [state, thresholds, prediction] and whether the     *)
(* model's confidence differs from 0.                                      *)

\* The threshold strategy, whose answer is certain.
DecideNow(ctx) ==
    LET reasons == Check(ctx.state, ctx.thresholds)
    IN  [allowed |-> reasons = {}, reasons |-> reasons, by |-> "threshold", future |-> <<>>]

Undecided(type) == [allowed |-> TRUE, reasons |-> {}, by |-> type, future |-> <<>>]

\* The nil pointer that a strategy would follow.
Panic == [allowed |-> FALSE, reasons |-> {}, by |-> "panic", future |-> <<>>]

DecideAhead(strategy, ctx, queued) ==
    LET future == Future(ctx.state, Delta(strategy, ctx.prediction, queued))
        reasons == FutureReasons(future, ctx.thresholds)
    IN  IF ctx.prediction = NoImpact THEN Panic
        ELSE [allowed |-> reasons = {}, reasons |-> reasons, by |-> strategy.type, future |-> future]

\* The fallback's answer says that there was too little data.
FellBack(result) == [result EXCEPT !.reasons = @ \cup {"insufficient_data"}]

Decide(strategy, ctx, sure, queued) ==
    IF ctx.thresholds = NoThresholds THEN Undecided(strategy.type)
    ELSE IF strategy.type = "threshold" THEN DecideNow(ctx)
    ELSE IF Usable(sure, ctx.prediction) THEN DecideAhead(strategy, ctx, queued)
    ELSE FellBack(DecideNow(ctx))
=============================================================================
