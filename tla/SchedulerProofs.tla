--------------------------- MODULE SchedulerProofs ---------------------------
(***************************************************************************)
(* What holds of the retrain scheduler for any number of callers and of    *)
(* Starts.                                                                 *)
(***************************************************************************)
EXTENDS Scheduler, FiniteSetTheorems, TLAPS

\* As much of the type invariant as the argument needs: which functions the
\* variables are.
Shapes ==
    /\ starts \in Nat /\ starts <= MaxStarts
    /\ running \in BOOLEAN /\ overlapped \in BOOLEAN /\ panicked \in BOOLEAN
    /\ loop \in [Gens -> {"none", "spawned", "enter", "select", "retrain", "exited"}]
    /\ selecting \in [Gens -> Int]
    /\ deferred \in [Gens -> Int]
    /\ stop \in [Callers -> {"idle", "closed", "receive"}]
    /\ waiting \in [Callers -> Int]

\* How goroutines and channels are numbered: the g-th Start made goroutine g,
\* the fields hold the last channels made, and a goroutine that reads a field
\* reads its own channel or a later one.
Numbering ==
    /\ \A g \in Gens : loop[g] = "none" <=> g > starts
    /\ stopCh = starts /\ doneCh = starts
    /\ \A i \in stopClosed : i \in Int /\ i <= starts
    /\ running => starts > 0 /\ starts \notin stopClosed
    /\ \A g \in Gens : loop[g] = "select" => g <= selecting[g]

\* What keeps a second goroutine away while no Start overlaps a Stop: the last
\* goroutine is the only one alive, it closes its own channel, and a scheduler
\* that is stopped and whose Stops have returned has none.
Alone ==
    ~overlapped =>
        /\ ~panicked
        /\ \A g \in Gens : loop[g] \notin {"none", "exited"} => g = starts
        /\ \A g \in Gens : loop[g] \in {"enter", "select", "retrain"} => deferred[g] = g
        /\ \A g \in Gens : g \in doneClosed => loop[g] = "exited"
        /\ \A c \in Callers : stop[c] # "idle" => starts > 0
        /\ \A c \in Callers : stop[c] = "receive" => waiting[c] = starts
        /\ (~running /\ \A c \in Callers : stop[c] = "idle") =>
                \A g \in Gens : loop[g] \in {"none", "exited"}

SInv == Shapes /\ Numbering /\ RunningHasLoop /\ Alone
-----------------------------------------------------------------------------
\* Goroutine and channel numbers are positive integers.
LEMMA GenIsInt ==
    /\ \A g \in Gens : g \in Int /\ g > 0 /\ g <= MaxStarts
    /\ MaxStarts \in Nat
    /\ \A n \in Nat : n > 0 /\ n <= MaxStarts => n \in Gens
  BY SchedulerAssumption DEF SchedulerAssumption, Gens

\* The initial state satisfies the invariant.
LEMMA InitSInv == Init => SInv
  <1> SUFFICES ASSUME Init PROVE SInv
    OBVIOUS
  <1>1. Shapes
    <2>1. starts \in Nat /\ starts <= MaxStarts
      BY GenIsInt DEF Init
    <2>2. running \in BOOLEAN /\ overlapped \in BOOLEAN /\ panicked \in BOOLEAN
      BY DEF Init
    <2>3. loop \in [Gens -> {"none", "spawned", "enter", "select", "retrain", "exited"}]
      BY DEF Init
    <2>4. stop \in [Callers -> {"idle", "closed", "receive"}] /\ waiting \in [Callers -> Int]
      BY DEF Init
    <2>5. selecting \in [Gens -> Int] /\ deferred \in [Gens -> Int]
      BY DEF Init
    <2>6. QED
      BY <2>1, <2>2, <2>3, <2>4, <2>5 DEF Shapes
  <1>2. Numbering
    BY GenIsInt DEF Init, Numbering
  <1>3. RunningHasLoop /\ Alone
    BY DEF Init, RunningHasLoop, Alone
  <1>4. QED
    BY <1>1, <1>2, <1>3 DEF SInv

\* Every step keeps the shapes and the numbering.
LEMMA NumberingStep ==
    ASSUME Shapes, Numbering, [Next]_vars
    PROVE  Shapes' /\ Numbering'
  <1> USE GenIsInt DEF Shapes, Numbering
  <1>1. ASSUME NEW c \in Callers, Start(c)
        PROVE  Shapes' /\ Numbering'
    <2>1. starts + 1 \in Gens
      BY <1>1 DEF Start
    <2>2. Shapes'
      BY <1>1, <2>1 DEF Start, stopVars
    <2>3. Numbering'
      BY <1>1, <2>1 DEF Start, NewDone, channels
    <2>4. QED
      BY <2>2, <2>3
  <1>2. ASSUME NEW c \in Callers, StopClose(c)
        PROVE  Shapes' /\ Numbering'
    <2> USE <1>2 DEF StopClose, RunningAfterStop, loopVars, history
    <2>1. running' \in BOOLEAN
      OBVIOUS
    <2>2. Shapes'
      BY <2>1
    <2>3. Numbering'
      BY DEF ClosedByStop
    <2>4. QED
      BY <2>2, <2>3
  <1>3. ASSUME NEW c \in Callers, StopReadDone(c)
        PROVE  Shapes' /\ Numbering'
    BY <1>3 DEF StopReadDone, fields, channels, loopVars, history
  <1>4. ASSUME NEW c \in Callers, StopReturn(c)
        PROVE  Shapes' /\ Numbering'
    BY <1>4 DEF StopReturn, fields, channels, loopVars, history
  <1>5. ASSUME NEW g \in Gens, Cancel(g)
        PROVE  Shapes' /\ Numbering'
    BY <1>5 DEF Cancel, fields, loopVars, stopVars, history
  <1>6. ASSUME NEW g \in Gens, LoopBegin(g)
        PROVE  Shapes' /\ Numbering'
    BY <1>6 DEF LoopBegin, LoopMove, fields, channels, stopVars, history
  <1>7. ASSUME NEW g \in Gens, LoopEnter(g)
        PROVE  Shapes' /\ Numbering'
    BY <1>7 DEF LoopEnter, LoopMove, fields, channels, stopVars, history
  <1>8. ASSUME NEW g \in Gens, LoopTick(g)
        PROVE  Shapes' /\ Numbering'
    BY <1>8 DEF LoopTick, LoopMove, fields, channels, stopVars, history
  <1>9. ASSUME NEW g \in Gens, LoopRetrained(g)
        PROVE  Shapes' /\ Numbering'
    BY <1>9 DEF LoopRetrained, LoopMove, fields, channels, stopVars, history
  <1>10. ASSUME NEW g \in Gens, LoopExit(g)
         PROVE  Shapes' /\ Numbering'
    BY <1>10 DEF LoopExit, LoopMove, fields, stopVars
  <1>11. CASE UNCHANGED vars
    BY <1>11 DEF vars, fields, channels, loopVars, stopVars, history
  <1>12. QED
    BY <1>1, <1>2, <1>3, <1>4, <1>5, <1>6, <1>7, <1>8, <1>9, <1>10, <1>11 DEF Next
-----------------------------------------------------------------------------
\* No step takes the goroutine of a running scheduler away: its channel is the
\* newest, and who selects on the newest channel belongs to the newest Start.
LEMMA LoopStep ==
    ASSUME Shapes, Numbering, RunningHasLoop, [Next]_vars
    PROVE  RunningHasLoop'
  <1> USE GenIsInt DEF Shapes, Numbering, RunningHasLoop, Alive
  <1>1. ASSUME NEW c \in Callers, Start(c)
        PROVE  RunningHasLoop'
    <2>1. starts + 1 \in Gens /\ starts + 1 \notin stopClosed
      BY <1>1 DEF Start
    <2>2. QED
      BY <1>1, <2>1 DEF Start, channels
  <1>2. ASSUME NEW c \in Callers, StopClose(c)
        PROVE  RunningHasLoop'
    <2>1. ~running'
      BY <1>2 DEF StopClose, RunningAfterStop
    <2>2. QED
      BY <2>1
  <1>3. ASSUME NEW c \in Callers, StopReadDone(c) \/ StopReturn(c)
        PROVE  RunningHasLoop'
    <2>1. UNCHANGED <<running, stopCh, stopClosed, ctxDone, loop>>
      BY <1>3 DEF StopReadDone, StopReturn, fields, channels, loopVars
    <2>2. QED
      BY <2>1
  <1>4. ASSUME NEW g \in Gens, Cancel(g)
        PROVE  RunningHasLoop'
    BY <1>4 DEF Cancel, fields, loopVars
  <1>5. ASSUME NEW g \in Gens, LoopBegin(g) \/ LoopEnter(g) \/ LoopTick(g) \/ LoopRetrained(g)
        PROVE  RunningHasLoop'
    <2>1. UNCHANGED <<running, stopCh, stopClosed, ctxDone>>
      BY <1>5 DEF LoopBegin, LoopEnter, LoopTick, LoopRetrained, fields, channels
    <2>2. Alive \subseteq Alive'
      BY <1>5 DEF LoopBegin, LoopEnter, LoopTick, LoopRetrained, LoopMove
    <2>3. QED
      BY <2>1, <2>2
  <1>6. ASSUME NEW g \in Gens, LoopExit(g)
        PROVE  RunningHasLoop'
    <2>1. CASE g = starts /\ g \notin ctxDone
      <3>1. selecting[g] \in stopClosed /\ selecting[g] >= starts
        BY <1>6, <2>1 DEF LoopExit, LoopMove
      <3>2. selecting[g] = starts
        BY <3>1
      <3>3. ~running'
        BY <1>6, <3>1, <3>2 DEF LoopExit, fields
      <3>4. QED
        BY <3>3
    <2>2. CASE g # starts \/ g \in ctxDone
      BY <1>6, <2>2 DEF LoopExit, LoopMove, fields
    <2>3. QED
      BY <2>1, <2>2
  <1>7. CASE UNCHANGED vars
    BY <1>7 DEF vars, fields, channels, loopVars
  <1>8. QED
    BY <1>1, <1>2, <1>3, <1>4, <1>5, <1>6, <1>7 DEF Next

\* No step of a history without overlap brings a second goroutine: a Start that
\* finds the scheduler stopped and no Stop under way finds no goroutine either.
LEMMA AloneStep ==
    ASSUME Shapes, Numbering, Alone, [Next]_vars
    PROVE  Alone'
  <1> USE GenIsInt DEF Shapes, Numbering, Alone
  <1>1. ASSUME NEW c \in Callers, Start(c)
        PROVE  Alone'
    <2> SUFFICES ASSUME ~overlapped' PROVE Alone'
      BY DEF Alone
    <2>1. ~running /\ ~overlapped /\ \A d \in Callers : stop[d] = "idle"
      BY <1>1 DEF Start, CanStart
    <2>2. starts + 1 \in Gens /\ \A g \in Gens : loop[g] \in {"none", "exited"}
      BY <1>1, <2>1 DEF Start
    <2>3. starts + 1 \notin doneClosed
      BY <2>1, <2>2
    <2>4. QED
      BY <1>1, <2>1, <2>2, <2>3 DEF Start, channels, stopVars
  <1>2. ASSUME NEW c \in Callers, StopClose(c)
        PROVE  Alone'
    BY <1>2 DEF StopClose, loopVars, history
  <1>3. ASSUME NEW c \in Callers, StopReadDone(c)
        PROVE  Alone'
    BY <1>3 DEF StopReadDone, fields, channels, loopVars, history
  <1>4. ASSUME NEW c \in Callers, StopReturn(c)
        PROVE  Alone'
    <2> SUFFICES ASSUME ~overlapped' PROVE Alone'
      BY DEF Alone
    <2>1. ~overlapped /\ waiting[c] = starts /\ starts \in Gens
      BY <1>4 DEF StopReturn, history
    <2>2. loop[starts] = "exited"
      BY <1>4, <2>1 DEF StopReturn, Received
    <2>3. \A g \in Gens : loop[g] \in {"none", "exited"}
      BY <2>1, <2>2
    <2>4. QED
      BY <1>4, <2>1, <2>3 DEF StopReturn, fields, channels, loopVars, history
  <1>5. ASSUME NEW g \in Gens, Cancel(g)
        PROVE  Alone'
    BY <1>5 DEF Cancel, fields, loopVars, stopVars, history
  <1>6. ASSUME NEW g \in Gens, LoopBegin(g) \/ LoopEnter(g) \/ LoopTick(g) \/ LoopRetrained(g)
        PROVE  Alone'
    BY <1>6 DEF LoopBegin, LoopEnter, LoopTick, LoopRetrained, LoopMove, fields, channels,
                stopVars, history
  <1>7. ASSUME NEW g \in Gens, LoopExit(g)
        PROVE  Alone'
    BY <1>7 DEF LoopExit, LoopMove, fields, stopVars
  <1>8. CASE UNCHANGED vars
    BY <1>8 DEF vars, fields, channels, loopVars, stopVars, history
  <1>9. QED
    BY <1>1, <1>2, <1>3, <1>4, <1>5, <1>6, <1>7, <1>8 DEF Next
-----------------------------------------------------------------------------
\* The invariant holds in every reachable state.
LEMMA Invariance == Spec => []SInv
  <1>1. SInv /\ [Next]_vars => SInv'
    BY NumberingStep, LoopStep, AloneStep DEF SInv
  <1>2. QED
    BY InitSInv, <1>1, PTL DEF Spec

\* A running scheduler has a goroutine that will retrain unless its context is
\* done, even when a Start overtakes a Stop (scheduler.go, Start and run).
THEOREM RunningIsAlive == Spec => []RunningHasLoop
  <1>1. SInv => RunningHasLoop
    BY DEF SInv
  <1>2. QED
    BY Invariance, <1>1, PTL

\* While no Start overlaps a Stop, there is at most one retraining goroutine and
\* no channel is closed twice (scheduler.go, Stop and run).
THEOREM OneLoop == Spec => []OneLoopUnlessOverlapped
  <1>1. SInv => OneLoopUnlessOverlapped
    <2> SUFFICES ASSUME SInv, ~overlapped
                 PROVE  Cardinality(Alive) <= 1 /\ ~panicked
      BY DEF OneLoopUnlessOverlapped
    <2>1. ~panicked /\ Alive \subseteq {starts}
      BY DEF SInv, Alone, Alive
    <2>2. IsFiniteSet({starts}) /\ Cardinality({starts}) = 1
      BY FS_Singleton
    <2>3. Cardinality(Alive) <= 1
      BY <2>1, <2>2, FS_Subset
    <2>4. QED
      BY <2>1, <2>3
  <1>2. QED
    BY Invariance, <1>1, PTL

\* While no Start overlaps a Stop, a Stop that returns leaves no goroutine
\* behind (scheduler.go, Stop waits for doneCh).
THEOREM StopWaits == Spec => StopWaitsUnlessOverlapped
  <1>1. SInv /\ [Next]_vars => [(~overlapped /\ \E c \in Callers : Returns(c)) => Alive = {}]_vars
    <2> SUFFICES ASSUME SInv, Next, ~overlapped, NEW c \in Callers, Returns(c)
                 PROVE  Alive = {}
      BY DEF vars, fields, channels, loopVars, stopVars, history, Returns
    <2>1. StopReturn(c)
      BY DEF SInv, Shapes, Next, Returns, Start, StopClose, StopReadDone, StopReturn, Cancel,
             LoopBegin, LoopEnter, LoopTick, LoopRetrained, LoopExit, stopVars
    <2>2. waiting[c] = starts /\ starts \in Gens
      BY <2>1, GenIsInt DEF SInv, Shapes, Alone, StopReturn
    <2>3. loop[starts] = "exited"
      BY <2>1, <2>2 DEF SInv, Alone, StopReturn, Received
    <2>4. QED
      BY <2>2, <2>3 DEF SInv, Alone, Alive
  <1>2. QED
    BY Invariance, <1>1, PTL DEF Spec, StopWaitsUnlessOverlapped
-----------------------------------------------------------------------------
(* Types: every channel that is closed is one that a Start has made.       *)

\* A goroutine in its loop will close a channel that was made: it read doneCh
\* after the Start that made the goroutine.
DeferredIsMade ==
    \A g \in Gens : loop[g] \in {"enter", "select", "retrain"} => deferred[g] \in Gens

TInv == TypeOK /\ DeferredIsMade

LEMMA InitTInv == Init => TInv
  <1> SUFFICES ASSUME Init PROVE TInv
    OBVIOUS
  <1>1. starts \in 0..MaxStarts /\ 0 \in 0..MaxStarts /\ 0 \in 0..starts
    BY GenIsInt DEF Init
  <1>2. selecting \in [Gens -> 0..MaxStarts] /\ deferred \in [Gens -> 0..MaxStarts]
    BY <1>1 DEF Init
  <1>3. stopping \in [Callers -> 0..MaxStarts] /\ waiting \in [Callers -> 0..MaxStarts]
    BY <1>1 DEF Init
  <1>4. /\ loop \in [Gens -> {"none", "spawned", "enter", "select", "retrain", "exited"}]
        /\ stop \in [Callers -> {"idle", "closed", "receive"}]
    BY DEF Init
  <1>5. QED
    BY <1>1, <1>2, <1>3, <1>4 DEF Init, TInv, TypeOK, DeferredIsMade

\* The current channels are those of the last Start, which a Start has made if
\* there is a goroutine or the scheduler runs.
LEMMA TypeStep ==
    ASSUME Numbering, TInv, [Next]_vars
    PROVE  TInv'
  <1> USE GenIsInt DEF TInv, TypeOK, DeferredIsMade
  <1>1. ASSUME NEW c \in Callers, Start(c)
        PROVE  TInv'
    <2>1. starts' = starts + 1 /\ starts + 1 \in Gens /\ running'
      BY <1>1 DEF Start
    <2>2. stopCh' = starts' /\ doneCh' = starts' /\ starts' \in 0..MaxStarts
      BY <1>1, <2>1 DEF Start, NewDone
    <2>3. overlapped' \in BOOLEAN
      BY <1>1 DEF Start
    <2>4. loop' \in [Gens -> {"none", "spawned", "enter", "select", "retrain", "exited"}]
      BY <1>1, <2>1 DEF Start
    <2>5. QED
      BY <1>1, <2>1, <2>2, <2>3, <2>4 DEF Start, channels, stopVars
  <1>2. ASSUME NEW c \in Callers, StopClose(c)
        PROVE  TInv'
    <2>1. stopCh \in Gens
      BY <1>2 DEF StopClose, Numbering
    <2>2. QED
      BY <1>2, <2>1 DEF StopClose, RunningAfterStop, ClosedByStop, loopVars, history
  <1>3. ASSUME NEW c \in Callers, StopReadDone(c) \/ StopReturn(c)
        PROVE  TInv'
    BY <1>3 DEF StopReadDone, StopReturn, fields, channels, loopVars, history
  <1>4. ASSUME NEW g \in Gens, Cancel(g)
        PROVE  TInv'
    BY <1>4 DEF Cancel, fields, loopVars, stopVars, history
  <1>5. ASSUME NEW g \in Gens, LoopBegin(g)
        PROVE  TInv'
    <2>1. doneCh \in Gens
      BY <1>5 DEF LoopBegin, LoopMove, Numbering
    <2>2. QED
      BY <1>5, <2>1 DEF LoopBegin, LoopMove, fields, channels, stopVars, history
  <1>6. ASSUME NEW g \in Gens, LoopEnter(g) \/ LoopTick(g) \/ LoopRetrained(g)
        PROVE  TInv'
    BY <1>6 DEF LoopEnter, LoopTick, LoopRetrained, LoopMove, fields, channels, stopVars, history
  <1>7. ASSUME NEW g \in Gens, LoopExit(g)
        PROVE  TInv'
    <2>1. doneClosed' \subseteq Gens /\ panicked' \in BOOLEAN
      BY <1>7 DEF LoopExit, LoopMove
    <2>2. QED
      BY <1>7, <2>1 DEF LoopExit, LoopMove, fields, stopVars
  <1>8. CASE UNCHANGED vars
    BY <1>8 DEF vars, fields, channels, loopVars, stopVars, history
  <1>9. QED
    BY <1>1, <1>2, <1>3, <1>4, <1>5, <1>6, <1>7, <1>8 DEF Next

\* Every variable keeps its range: no goroutine closes a nil channel, and Stop
\* closes the channel of a Start (scheduler.go, Stop and run).
THEOREM SchedulerTypeCorrect == Spec => []TypeOK
  <1>1. SInv /\ TInv /\ [Next]_vars => TInv'
    BY TypeStep DEF SInv
  <1>2. Spec => []TInv
    BY Invariance, InitTInv, <1>1, PTL DEF Spec
  <1>3. TInv => TypeOK
    BY DEF TInv
  <1>4. QED
    BY <1>2, <1>3, PTL
=============================================================================
