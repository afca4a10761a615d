------------------------------ MODULE Storage ------------------------------
(***************************************************************************)
(* The persistence of learned statistics (internal/storage/storage.go) as  *)
(* the daemon uses it (internal/cli/start.go): Load once, Start the flush  *)
(* loop, UpdateTaskStats from the model's observer, Stop.                  *)
(*                                                                         *)
(* saveLocked holds the mutex from its first step to its last, so inside   *)
(* the process a save is one critical section; its file-system steps are   *)
(* separate because any of them can fail and because the process can die   *)
(* between them.  What a TaskData holds is an opaque value; UpdatedAt and  *)
(* logging are left out.  The file system keeps what was written:          *)
(* saveLocked never calls fsync, and what a power cut leaves of an         *)
(* unsynced file is not modelled.                                          *)
(***************************************************************************)
EXTENDS Integers

CONSTANTS
    Tasks,      \* task names
    Stats,      \* the values a TaskData can take
    NoStats,    \* no entry for the task
    Stoppers,   \* goroutines that call Stop
    MaxFaults   \* bound: file-system calls that fail

ASSUME StorageAssumption ==
    /\ NoStats \notin Stats
    /\ Stoppers # {}
    /\ MaxFaults \in Nat

VARIABLES
    data,       \* s.data.TaskStats
    dirty,
    file,       \* capfox_data.json
    temp,       \* capfox_data.json.tmp
    save,       \* the step saveLocked is at; "no" when the mutex is free
    saver,      \* who called Save last: "flush" or "stop"
    life,       \* "down", "new", "loaded", "started"
    cancelled,  \* the flush loop's context is done
    loop,       \* where flushLoop is; "exited" once done is closed
    once,       \* stopOnce: "new", "waiting" for done, "save", "done"
    stopErr,    \* the error of the final save
    stop,       \* where each Stop call is
    unread,     \* history: this process failed to open an existing file
    faults

diskVars == <<file, temp>>
saveVars == <<save, saver>>
loopVars == <<cancelled, loop>>
stopVars == <<once, stopErr, stop>>
lifeVars == <<life, unread>>
vars == <<data, dirty, diskVars, saveVars, loopVars, stopVars, lifeVars, faults>>

Bodies == [Tasks -> Stats \cup {NoStats}]
Empty == [t \in Tasks |-> NoStats]

\* What can stand under a file name: a snapshot, nothing, text that does not
\* decode, a document without task_stats, a document of a later version.
File(kind, body) == [kind |-> kind, body |-> body]
NoFile == File("missing", Empty)
Files == {File("data", b) : b \in Bodies}
            \cup {File(k, Empty) : k \in {"missing", "corrupt", "null", "newer"}}

Init ==
    /\ data = Empty /\ dirty = FALSE
    /\ save = "no" /\ saver = "flush"
    /\ cancelled = FALSE /\ loop = "none"
    /\ once = "new" /\ stopErr = "none" /\ stop = [s \in Stoppers |-> "new"]
    /\ life = "down" /\ unread = FALSE
    /\ file \in Files /\ temp = NoFile
    /\ faults = 0
-----------------------------------------------------------------------------
(* The decisions of the code, each preceded by slips in it that the        *)
(* mutation runs put in its place.                                         *)

ViewNil(f) == IF f.kind = "null" THEN [t \in {} |-> NoStats] ELSE f.body
\* What Load makes of a file it can open, or finds missing.
View(f) == IF f.kind = "data" THEN f.body ELSE Empty

FreshData == Empty
\* Load replaces the data by what it decoded.
LoadedData == View(file)

AlwaysFree == TRUE
\* s.mu can be taken: saveLocked is the only critical section with steps.
MutexFree == save = "no"

WrittenInPlace == File("corrupt", Empty)
\* Encoding goes to the temporary file and leaves the data file alone.
FileWhileEncoding == file

ErrorSwallowed == "nil"
\* A failed step of saveLocked is returned to its caller.
ErrorOfFault == "failed"

LoopGivesUp(err) == IF err = "nil" THEN "idle" ELSE "exited"
\* flushLoop only logs the error of a save.
LoopAfterSave(err) == "idle"

DoneNotClosed == "none"
\* flushLoop closes done on its way out.
LoopReturned == "exited"

NotWaitingForLoop == TRUE
\* Stop goes on when it has received from done.
LoopDone == loop = "exited"
-----------------------------------------------------------------------------
(* The life of a process: New, Load, Start; it ends at any point.          *)

New ==
    /\ life = "down"
    /\ life' = "new"
    /\ unread' = FALSE
    /\ UNCHANGED <<data, dirty, diskVars, saveVars, loopVars, stopVars, faults>>

Load ==
    /\ life = "new"
    /\ life' = "loaded"
    /\ data' = LoadedData
    /\ UNCHANGED <<dirty, diskVars, saveVars, loopVars, stopVars, unread, faults>>

\* Any other error of os.Open is returned; runStart logs it and goes on with
\* the empty data of New.
LoadUnreadable ==
    /\ life = "new"
    /\ file.kind # "missing"
    /\ faults < MaxFaults
    /\ faults' = faults + 1
    /\ life' = "loaded"
    /\ unread' = TRUE
    /\ UNCHANGED <<data, dirty, diskVars, saveVars, loopVars, stopVars>>

Start ==
    /\ life = "loaded"
    /\ life' = "started"
    /\ loop' = "idle"
    /\ UNCHANGED <<data, dirty, diskVars, saveVars, cancelled, stopVars, unread, faults>>

\* Killed, crashed, or main has returned: only the files remain.
ProcessEnds ==
    /\ life # "down"
    /\ life' = "down"
    /\ data' = Empty /\ dirty' = FALSE
    /\ save' = "no" /\ saver' = "flush"
    /\ cancelled' = FALSE /\ loop' = "none"
    /\ once' = "new" /\ stopErr' = "none" /\ stop' = [s \in Stoppers |-> "new"]
    /\ UNCHANGED <<diskVars, unread, faults>>

UpdateTaskStats(t, v) ==
    /\ life = "started"
    /\ MutexFree
    /\ data' = [data EXCEPT ![t] = v]
    /\ dirty' = TRUE
    /\ UNCHANGED <<diskVars, saveVars, loopVars, stopVars, lifeVars, faults>>

\* Part of the API; the daemon itself does not call it.
MarkDirty ==
    /\ life = "started"
    /\ MutexFree
    /\ dirty' = TRUE
    /\ UNCHANGED <<data, diskVars, saveVars, loopVars, stopVars, lifeVars, faults>>
-----------------------------------------------------------------------------
(* Save, called by flushLoop and by Stop.                                  *)

\* Whose Save call is next to take the mutex.
Wants(who) ==
    \/ who = "flush" /\ loop = "save"
    \/ who = "stop" /\ once = "save"

SaveLock(who) ==
    /\ Wants(who)
    /\ MutexFree
    /\ save' = "create"
    /\ saver' = who
    /\ UNCHANGED <<data, dirty, diskVars, loopVars, stopVars, lifeVars, faults>>

SaveCreate ==
    /\ save = "create"
    /\ save' = "encode"
    /\ temp' = File("corrupt", Empty)
    /\ UNCHANGED <<data, dirty, file, saver, loopVars, stopVars, lifeVars, faults>>

SaveEncode ==
    /\ save = "encode"
    /\ save' = "rename"
    /\ temp' = File("data", data)
    /\ file' = FileWhileEncoding
    /\ UNCHANGED <<data, dirty, saver, loopVars, stopVars, lifeVars, faults>>

\* saveLocked returns err to the flush loop or to Stop, and the mutex is freed.
SaveReturns(err) ==
    /\ save' = "no"
    /\ loop' = IF saver = "flush" THEN LoopAfterSave(err) ELSE loop
    /\ once' = IF saver = "stop" THEN "done" ELSE once
    /\ stopErr' = IF saver = "stop" THEN err ELSE stopErr
    /\ UNCHANGED <<saver, cancelled, stop>>

SaveRename ==
    /\ save = "rename"
    /\ file' = temp
    /\ temp' = NoFile
    /\ dirty' = FALSE
    /\ SaveReturns("nil")
    /\ UNCHANGED <<data, lifeVars, faults>>

\* A step fails: the temporary file, if created, is removed.
SaveFault ==
    /\ save # "no"
    /\ faults < MaxFaults
    /\ faults' = faults + 1
    /\ temp' = IF save = "create" THEN temp ELSE NoFile
    /\ SaveReturns(ErrorOfFault)
    /\ UNCHANGED <<data, dirty, file, lifeVars>>
-----------------------------------------------------------------------------
(* flushLoop and Stop.  The context ends by Stop or with its parent.       *)

FlushTick ==
    /\ loop = "idle"
    /\ MutexFree
    /\ dirty
    /\ loop' = "save"
    /\ UNCHANGED <<data, dirty, diskVars, saveVars, cancelled, stopVars, lifeVars, faults>>

FlushExit ==
    /\ loop = "idle"
    /\ cancelled
    /\ loop' = LoopReturned
    /\ UNCHANGED <<data, dirty, diskVars, saveVars, cancelled, stopVars, lifeVars, faults>>

ParentCancelled ==
    /\ life = "started"
    /\ ~cancelled
    /\ cancelled' = TRUE
    /\ UNCHANGED <<data, dirty, diskVars, saveVars, loop, stopVars, lifeVars, faults>>

\* The first caller enters stopOnce.Do; later ones wait inside it.
StopCall(s) ==
    /\ life = "started"
    /\ stop[s] = "new"
    /\ stop' = [stop EXCEPT ![s] = "called"]
    /\ IF once = "new"
       THEN once' = "waiting" /\ cancelled' = TRUE
       ELSE UNCHANGED <<once, cancelled>>
    /\ UNCHANGED <<data, dirty, diskVars, saveVars, loop, stopErr, lifeVars, faults>>

StopLoopDone ==
    /\ once = "waiting"
    /\ LoopDone
    /\ once' = "save"
    /\ UNCHANGED <<data, dirty, diskVars, saveVars, loopVars, stopErr, stop, lifeVars, faults>>

StopReturn(s) ==
    /\ stop[s] = "called"
    /\ once = "done"
    /\ stop' = [stop EXCEPT ![s] = "returned"]
    /\ UNCHANGED <<data, dirty, diskVars, saveVars, loopVars, once, stopErr, lifeVars, faults>>
-----------------------------------------------------------------------------
Next ==
    \/ New \/ Load \/ LoadUnreadable \/ Start \/ ProcessEnds
    \/ \E t \in Tasks, v \in Stats : UpdateTaskStats(t, v)
    \/ MarkDirty
    \/ \E who \in {"flush", "stop"} : SaveLock(who)
    \/ SaveCreate \/ SaveEncode \/ SaveRename \/ SaveFault
    \/ FlushTick \/ FlushExit \/ ParentCancelled
    \/ StopLoopDone
    \/ \E s \in Stoppers : StopCall(s) \/ StopReturn(s)

Spec == Init /\ [][Next]_vars

(***************************************************************************)
(* Goroutines that can run do run, the ticker fires, and sync.RWMutex lets *)
(* a blocked writer in before later readers and writers: the waiting Save  *)
(* gets the mutex although UpdateTaskStats keeps taking it.  A select that *)
(* finds both the ticker and the context ready picks at random, so it does *)
(* not pick the ticker forever.  Nobody has to call Stop, and a process    *)
(* may end at any time or never.                                           *)
(***************************************************************************)
Fairness ==
    /\ SF_vars(FlushTick)
    /\ \A who \in {"flush", "stop"} : SF_vars(SaveLock(who))
    /\ WF_vars(SaveCreate \/ SaveEncode \/ SaveRename)
    /\ SF_vars(FlushExit)
    /\ WF_vars(StopLoopDone)
    /\ \A s \in Stoppers : WF_vars(StopReturn(s))

FairSpec == Spec /\ Fairness
-----------------------------------------------------------------------------
(* Properties.                                                             *)

\* Every variable keeps its range: the map is never nil and the file is always
\* something Load can be asked to read.
TypeOK ==
    /\ data \in Bodies
    /\ dirty \in BOOLEAN
    /\ file \in Files /\ temp \in Files
    /\ save \in {"no", "create", "encode", "rename"}
    /\ saver \in {"flush", "stop"}
    /\ life \in {"down", "new", "loaded", "started"}
    /\ cancelled \in BOOLEAN
    /\ loop \in {"none", "idle", "save", "exited"}
    /\ once \in {"new", "waiting", "save", "done"}
    /\ stopErr \in {"none", "nil", "failed"}
    /\ stop \in [Stoppers -> {"new", "called", "returned"}]
    /\ unread \in BOOLEAN
    /\ faults \in 0..MaxFaults

\* When the dirty flag is down, the file holds what memory holds: no update
\* slips in between the encoding of a save and the reset of the flag.  The
\* exception is a process that could not open the file.
CleanMeansSaved ==
    (life \in {"loaded", "started"} /\ ~dirty /\ ~unread) => View(file) = data

\* Once a Stop call has returned, no flush of this process touches the file,
\* whatever is still being observed.
StopIsFinal ==
    [][(\E s \in Stoppers : stop[s] = "returned") => UNCHANGED file]_vars

\* A Stop that reports success leaves every update made before its save in the
\* file, those since the last flush included.
FinalSaveIsComplete ==
    [][(once # "done" /\ once' = "done" /\ stopErr' = "nil") => View(file') = data]_vars

\* A task with statistics in the file keeps statistics there, across saves,
\* failed saves and restarts, unless a process could not open the file.
ForgetsOnlyUnreadable ==
    [][~unread => \A t \in Tasks : View(file)[t] # NoStats => View(file')[t] # NoStats]_vars

\* With the flush loop running, an update does not stay unsaved forever: a
\* save that fails is tried again at a later tick.
DirtyEventuallySaved ==
    (life = "started" /\ dirty) ~> (~dirty \/ cancelled \/ life = "down")

\* Every Stop call returns: the loop closes done, the final save ends, and
\* the callers waiting inside stopOnce.Do are released.
StopReturns ==
    \A s \in Stoppers : (stop[s] = "called") ~> (stop[s] = "returned" \/ life = "down")

Store == INSTANCE SnapshotStore
            WITH memory <- data, durable <- View(file), running <- (life \in {"loaded", "started"})

\* The storage implements SnapshotStore: temporary file, rename, dirty flag and
\* flush loop amount to replacing one whole snapshot by another in one step.
SnapshotSpec == Store!Spec
=============================================================================
