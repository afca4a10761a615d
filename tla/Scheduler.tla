----------------------------- MODULE Scheduler -----------------------------
(***************************************************************************)
(* The retrain scheduler (internal/decision/scheduler/scheduler.go): Start *)
(* makes two channels and a goroutine, Stop closes the one and waits for   *)
(* the goroutine to close the other.  The fields stopCh and doneCh belong  *)
(* to the mutex in Start but not in Stop and run, which read them whenever *)
(* they get to it: a goroutine can meet the channels of a later Start.     *)
(*                                                                         *)
(* The goroutine, context and channels of the g-th Start are called g.     *)
(* Calls that return at once (Start when running, Stop when not) change    *)
(* nothing and are stuttering steps.  What Retrain does belongs to the     *)
(* prediction model; the retrain statistics are left out.                  *)
(***************************************************************************)
EXTENDS Integers, FiniteSets

CONSTANTS
    Callers,    \* goroutines that call Start and Stop
    MaxStarts   \* bound: calls of Start that find the scheduler stopped

ASSUME SchedulerAssumption == MaxStarts \in Nat

VARIABLES
    running,
    stopCh, doneCh,     \* the fields; 0 when nil
    starts,             \* goroutines started so far
    stopClosed,         \* stop channels that are closed
    doneClosed,         \* done channels that are closed
    ctxDone,            \* goroutines whose context is done
    loop,               \* where each goroutine is in run
    selecting,          \* the stop channel its select waits on
    deferred,           \* the done channel its defer will close
    stop,               \* where each caller is in Stop
    stopping,           \* the goroutine it told to stop
    waiting,            \* the done channel it receives from
    panicked,           \* a closed channel was closed again
    overlapped          \* history: a Start ran while a Stop had not returned

fields == <<running, stopCh, doneCh, starts>>
channels == <<stopClosed, doneClosed, ctxDone>>
loopVars == <<loop, selecting, deferred>>
stopVars == <<stop, stopping, waiting>>
history == <<panicked, overlapped>>
vars == <<fields, channels, loopVars, stopVars, history>>

Gens == 1..MaxStarts
Alive == {g \in Gens : loop[g] \notin {"none", "exited"}}

Init ==
    /\ running = FALSE
    /\ stopCh = 0 /\ doneCh = 0 /\ starts = 0
    /\ stopClosed = {} /\ doneClosed = {} /\ ctxDone = {}
    /\ loop = [g \in Gens |-> "none"]
    /\ selecting = [g \in Gens |-> 0]
    /\ deferred = [g \in Gens |-> 0]
    /\ stop = [c \in Callers |-> "idle"]
    /\ stopping = [c \in Callers |-> 0]
    /\ waiting = [c \in Callers |-> 0]
    /\ panicked = FALSE /\ overlapped = FALSE
-----------------------------------------------------------------------------
(* The decisions of the code, each preceded by a slip in it that the       *)
(* mutation runs put in its place.                                         *)

StartAlways == TRUE
\* Start does nothing when the scheduler is running.
CanStart == ~running

DoneNotMade == doneCh
\* Start makes a new done channel.
NewDone == starts + 1

StillRunning == running
\* Stop marks the scheduler stopped.
RunningAfterStop == FALSE

NoneClosed == stopClosed
\* Stop closes the stop channel it finds under the mutex.
ClosedByStop == stopClosed \cup {stopCh}

NotReceiving(c) == TRUE
\* Stop returns when the done channel it read is closed.
Received(c) == waiting[c] \in doneClosed
-----------------------------------------------------------------------------
Start(c) ==
    /\ ~panicked
    /\ stop[c] = "idle"
    /\ CanStart
    /\ starts < MaxStarts
    /\ starts' = starts + 1
    /\ running' = TRUE
    /\ stopCh' = starts + 1
    /\ doneCh' = NewDone
    /\ loop' = [loop EXCEPT ![starts + 1] = "spawned"]
    /\ overlapped' = (overlapped \/ \E d \in Callers : stop[d] # "idle")
    /\ UNCHANGED <<channels, selecting, deferred, stopVars, panicked>>

\* Stop, under the mutex.
StopClose(c) ==
    /\ ~panicked
    /\ stop[c] = "idle"
    /\ running
    /\ running' = RunningAfterStop
    /\ stopClosed' = ClosedByStop
    /\ stop' = [stop EXCEPT ![c] = "closed"]
    /\ stopping' = [stopping EXCEPT ![c] = stopCh]
    /\ UNCHANGED <<stopCh, doneCh, starts, doneClosed, ctxDone, loopVars, waiting, history>>

\* Stop, after the unlock: it reads the field doneCh as it is now.
StopReadDone(c) ==
    /\ ~panicked
    /\ stop[c] = "closed"
    /\ stop' = [stop EXCEPT ![c] = "receive"]
    /\ waiting' = [waiting EXCEPT ![c] = doneCh]
    /\ UNCHANGED <<fields, channels, loopVars, stopping, history>>

StopReturn(c) ==
    /\ ~panicked
    /\ stop[c] = "receive"
    /\ Received(c)
    /\ stop' = [stop EXCEPT ![c] = "idle"]
    /\ stopping' = [stopping EXCEPT ![c] = 0]
    /\ waiting' = [waiting EXCEPT ![c] = 0]
    /\ UNCHANGED <<fields, channels, loopVars, history>>

\* The context of a Start ends.
Cancel(g) ==
    /\ ~panicked
    /\ loop[g] # "none"
    /\ g \notin ctxDone
    /\ ctxDone' = ctxDone \cup {g}
    /\ UNCHANGED <<fields, stopClosed, doneClosed, loopVars, stopVars, history>>
-----------------------------------------------------------------------------
(* The goroutine of the g-th Start.                                        *)

LoopMove(g, from, to) ==
    /\ ~panicked
    /\ loop[g] = from
    /\ loop' = [loop EXCEPT ![g] = to]

\* The argument of the deferred close is evaluated here.
LoopBegin(g) ==
    /\ LoopMove(g, "spawned", "enter")
    /\ deferred' = [deferred EXCEPT ![g] = doneCh]
    /\ UNCHANGED <<fields, channels, selecting, stopVars, history>>

\* A select evaluates its channels when it is entered.
LoopEnter(g) ==
    /\ LoopMove(g, "enter", "select")
    /\ selecting' = [selecting EXCEPT ![g] = stopCh]
    /\ UNCHANGED <<fields, channels, deferred, stopVars, history>>

\* The ticker fires and the model needs no retraining, or it does.
LoopTick(g) ==
    /\ LoopMove(g, "select", "enter") \/ LoopMove(g, "select", "retrain")
    /\ UNCHANGED <<fields, channels, selecting, deferred, stopVars, history>>

LoopRetrained(g) ==
    /\ LoopMove(g, "retrain", "enter")
    /\ UNCHANGED <<fields, channels, selecting, deferred, stopVars, history>>

\* run returns; closing a channel twice panics.
LoopExit(g) ==
    /\ LoopMove(g, "select", "exited")
    /\ selecting[g] \in stopClosed \/ g \in ctxDone
    /\ doneClosed' = doneClosed \cup {deferred[g]}
    /\ panicked' = (deferred[g] \in doneClosed)
    /\ UNCHANGED <<fields, stopClosed, ctxDone, selecting, deferred, stopVars, overlapped>>
-----------------------------------------------------------------------------
Next ==
    \/ \E c \in Callers : Start(c) \/ StopClose(c) \/ StopReadDone(c) \/ StopReturn(c)
    \/ \E g \in Gens : \/ Cancel(g)
                       \/ LoopBegin(g) \/ LoopEnter(g) \/ LoopTick(g)
                       \/ LoopRetrained(g) \/ LoopExit(g)

Spec == Init /\ [][Next]_vars

(***************************************************************************)
(* Goroutines that can run do, Retrain returns, and a select that finds    *)
(* both the ticker and another channel ready picks at random, so it does   *)
(* not pick the ticker forever.                                            *)
(***************************************************************************)
Fairness ==
    /\ \A c \in Callers : WF_vars(StopReadDone(c) \/ StopReturn(c))
    /\ \A g \in Gens :
          /\ WF_vars(LoopBegin(g) \/ LoopEnter(g) \/ LoopRetrained(g))
          /\ SF_vars(LoopExit(g))

FairSpec == Spec /\ Fairness
-----------------------------------------------------------------------------
(* Properties.                                                             *)

\* Every variable keeps its range; the channels exist while the scheduler runs.
TypeOK ==
    /\ running \in BOOLEAN
    /\ starts \in 0..MaxStarts
    /\ stopCh \in 0..starts /\ doneCh \in 0..starts
    /\ running => stopCh = starts /\ doneCh = starts
    /\ stopClosed \subseteq Gens /\ doneClosed \subseteq Gens /\ ctxDone \subseteq Gens
    /\ loop \in [Gens -> {"none", "spawned", "enter", "select", "retrain", "exited"}]
    /\ selecting \in [Gens -> 0..MaxStarts] /\ deferred \in [Gens -> 0..MaxStarts]
    /\ stop \in [Callers -> {"idle", "closed", "receive"}]
    /\ stopping \in [Callers -> 0..MaxStarts] /\ waiting \in [Callers -> 0..MaxStarts]
    /\ panicked \in BOOLEAN /\ overlapped \in BOOLEAN

\* A running scheduler has a goroutine that will retrain, unless the context it
\* was started with is done: even the goroutines that picked up the channels of
\* another Start leave the current one alone.
RunningHasLoop ==
    running => (stopCh \in Alive /\ stopCh \notin stopClosed) \/ stopCh \in ctxDone

\* As long as no Start overlaps a Stop, there is never a second retraining
\* goroutine and no channel is closed twice.
OneLoopUnlessOverlapped ==
    ~overlapped => Cardinality(Alive) <= 1 /\ ~panicked

\* A caller's Stop returns.
Returns(c) == stop[c] = "receive" /\ stop'[c] = "idle"

\* As long as no Start overlaps a Stop, a Stop that returns leaves no goroutine
\* behind, not even one in the middle of a retraining.
StopWaitsUnlessOverlapped ==
    [][(~overlapped /\ \E c \in Callers : Returns(c)) => Alive = {}]_vars

\* As long as no Start overlaps a Stop, every Stop returns.
StopReturns ==
    \A c \in Callers : (stop[c] = "closed") ~> (stop[c] = "idle" \/ overlapped)

\* scheduler.go:64, "Stop stops the scheduler and waits for it to finish": the
\* goroutine that a Stop told to stop is gone when it returns.  (The code does
\* not keep this.)
StopWaitsForItsLoop ==
    [][\A c \in Callers : Returns(c) => loop[stopping[c]] = "exited"]_vars
=============================================================================
