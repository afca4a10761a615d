-------------------------- MODULE MCDecisionEngine --------------------------
(***************************************************************************)
(* One task, one goroutine that decides and two that observe, the three    *)
(* kinds of models, and a file that an earlier process left, perhaps of    *)
(* another kind of model.                                                  *)
(***************************************************************************)
EXTENDS DecisionEngine

Impact(cpu, gpu) == [cpu |-> cpu, memory |-> 0, gpu |-> gpu, vram |-> gpu]

MCRequests == {[task |-> "build", complexity |-> 3]}
MCPendings == {[task |-> "build", complexity |-> 1, predicted |-> NoImpact]}

\* The CPU impact falls with the complexity and the GPU impact grows.
MCObservations ==
    {[task |-> "build", complexity |-> 1, impact |-> Impact(12, 0)],
     [task |-> "build", complexity |-> 2, impact |-> Impact(-9, 6)]}

MCMaxPoints == [linear |-> 3, moving_average |-> 2, none |-> 1]

Cfg(kind, type) ==
    [model |-> kind, alpha |-> 2, min |-> 1, type |-> type, buffer |-> 50, fallback |-> ""]
MCConfigs ==
    {Cfg("linear", "queue_aware"), Cfg("moving_average", "conservative"), Cfg("none", "threshold"),
     [Cfg("linear", "predictive") EXCEPT !.fallback = "predictive"], Cfg("linear", "unknown")}

\* Over the CPU threshold and the disk's; the GPU's memory is unknown.
MCReadings == {[cpu |-> 85, memory |-> 20, gpus |-> <<[usage |-> 75, vram |-> -1]>>, disks |-> {5}]}
MCThresholds == {NoThresholds, [cpu |-> 80, memory |-> 85, gpu |-> 85, vram |-> 85, minFree |-> 10]}

Average(n) == [kind |-> "moving_average", param |-> 1,
               tasks |-> [t \in {"build"} |-> [Blank(n) EXCEPT !.mean = Scaled(Impact(10, 5))]]]
\* The file of a linear model may be loaded into a moving average, too.
Line2 == Observed(New("linear", 2), "build", 1, Impact(12, 0))
MCOldFiles == {Average(25), Observed(Line2, "build", 2, Impact(-9, 6))}

\* The observers differ in nothing but their names.
ObserverSymmetry == Permutations(Observers)
=============================================================================
