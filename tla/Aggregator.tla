----------------------------- MODULE Aggregator -----------------------------
(***************************************************************************)
(* The aggregator of readings (internal/monitor/aggregator.go): one        *)
(* goroutine collects on a ticker, building the new state without the      *)
(* mutex and storing it under the mutex, while debug requests inject       *)
(* values into the stored state.                                           *)
(*                                                                         *)
(* A state is [at, cpu, memory, gpus, disks]: the time it was begun or     *)
(* injected, usage percents, a sequence of [usage, vram] percents, and the *)
(* free gigabytes of each disk.  Counts of processes are left out; whether *)
(* the last writer was an injection is kept for the properties.            *)
(***************************************************************************)
EXTENDS Integers, Sequences

CONSTANTS
    Machine,    \* what the machine may look like: states without "at"
    Failures,   \* sets of monitors that may fail in one collect
    MaxTime     \* bound on the clock

VARIABLES
    now,            \* when the clock was last read
    state, ready,   \* under the mutex
    building,       \* states begun and not yet stored
    loop,           \* "start", "first", "select", "collect", "returned"
    done            \* Stop has closed the done channel (the context ends right after)

aggVars == <<now, state, ready, building, loop, done>>

Zero == [cpu |-> 0, memory |-> 0, gpus |-> <<>>, disks |-> {}]
At(t, s) ==
    [at |-> t, injected |-> FALSE,
     cpu |-> s.cpu, memory |-> s.memory, gpus |-> s.gpus, disks |-> s.disks]

AggInit ==
    /\ now = 1
    /\ state = At(0, Zero) /\ ready = FALSE
    /\ building = {} /\ loop = "start"
    /\ done = FALSE
-----------------------------------------------------------------------------
(* The decisions of the code.                                              *)

TickAnyTime == loop \in {"select", "collect"}
\* The ticker is read between two collects, by the goroutine that collects.
TickTaken == loop = "select"

\* What collect makes of a machine when the monitors of failed fail: their
\* part of the state keeps its zero value.
Collected(machine, failed) == [m \in DOMAIN Zero |-> IF m \in failed THEN Zero[m] ELSE machine[m]]
-----------------------------------------------------------------------------
\* time.Now: some time since it was last asked.
ClockReads == {t \in {now, now + 1} : t <= MaxTime}

\* collect up to the mutex: the time is read first.
Collect(from, to) ==
    /\ from
    /\ now' \in ClockReads
    /\ \E machine \in Machine, failed \in Failures :
           building' = building \cup {At(now', Collected(machine, failed))}
    /\ loop' = to
    /\ UNCHANGED <<state, ready, done>>

StartCollect == Collect(loop = "start", "first")
TickCollect == Collect(TickTaken, "collect")

\* collect under the mutex; after the first one Start returns and the loop runs.
Store ==
    /\ \E s \in building :
        /\ state' = s
        /\ building' = building \ {s}
    /\ ready' = TRUE
    /\ loop' = "select"
    /\ UNCHANGED <<now, done>>

LoopReturns ==
    /\ loop = "select"
    /\ done
    /\ loop' = "returned"
    /\ UNCHANGED <<now, state, ready, building, done>>

\* Stop, once, and cancel of the context that Start was given.  Stop closes the
\* channel and then the monitors, whatever the loop is doing; Close of the GPU
\* monitor, the only one there is, does nothing.
AggregatorStop ==
    /\ ~done
    /\ done' = TRUE
    /\ UNCHANGED <<now, state, ready, building, loop>>

-----------------------------------------------------------------------------
(* InjectMetrics: a metric is a record with the fields to override; "gpu"  *)
(* and "vram" go to the GPU of the index, which is made if it is missing.  *)

Injected(metrics, field, old) == IF field \in DOMAIN metrics THEN metrics[field] ELSE old

Longest(a, b) == IF a > b THEN a ELSE b

\* Indices count from 0 in the code.
InjectedGPUs(metrics, gpus) ==
    IF {"gpu", "vram"} \cap DOMAIN metrics = {} THEN gpus
    ELSE [i \in 1..Longest(Len(gpus), metrics.index + 1) |->
            LET old == IF i <= Len(gpus) THEN gpus[i] ELSE [usage |-> 0, vram |-> 0]
            IN  IF i # metrics.index + 1 THEN old
                ELSE [usage |-> Injected(metrics, "gpu", old.usage),
                      vram |-> Injected(metrics, "vram", old.vram)]]

InjectRefused(metrics) == metrics.index < 0

Inject(metrics) ==
    /\ now' \in ClockReads
    /\ state' = [state EXCEPT !.at = now', !.injected = TRUE,
                              !.cpu = Injected(metrics, "cpu", @),
                              !.memory = Injected(metrics, "memory", @),
                              !.gpus = InjectedGPUs(metrics, @)]
    /\ UNCHANGED <<ready, building, loop, done>>
=============================================================================
