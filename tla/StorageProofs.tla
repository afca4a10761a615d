---------------------------- MODULE StorageProofs ----------------------------
(***************************************************************************)
(* What holds of the storage for any tasks and values, any number of       *)
(* callers of Stop and of failing file-system calls.                       *)
(***************************************************************************)
EXTENDS Storage, TLAPS

\* The flush loop and Stop act only in a started process, so only there is a
\* save under way.
SavesWhenStarted ==
    /\ loop # "none" => life = "started"
    /\ once # "new" => life = "started"
    /\ save # "no" => life = "started"

\* From the end of the encoding to the rename the temporary file holds what
\* memory holds: the mutex keeps updates out.
TempIsCurrent == save = "rename" => temp = File("data", data)

\* A process that has loaded nothing yet has empty data.
EmptyBeforeLoad == life \in {"down", "new"} => data = Empty

\* What can stand in the files and in memory, and the stages of a process.
Shapes ==
    /\ life \in {"down", "new", "loaded", "started"}
    /\ data \in Bodies
    /\ file.kind = "data" => file.body \in Bodies

SInv ==
    /\ SavesWhenStarted
    /\ TempIsCurrent
    /\ EmptyBeforeLoad
    /\ Shapes
    /\ CleanMeansSaved
-----------------------------------------------------------------------------
\* Load makes of a file what was written to it, and of any file a snapshot.
LEMMA ViewFacts ==
    /\ \A b : View(File("data", b)) = b
    /\ Empty \in Bodies
    /\ \A f : (f.kind = "data" => f.body \in Bodies) => View(f) \in Bodies
  BY DEF View, File, Empty, Bodies

\* The initial state satisfies the invariant.
LEMMA InitSInv == Init => SInv
  <1> SUFFICES ASSUME Init PROVE SInv
    OBVIOUS
  <1>1. SavesWhenStarted /\ TempIsCurrent /\ EmptyBeforeLoad /\ CleanMeansSaved
    BY DEF Init, SavesWhenStarted, TempIsCurrent, EmptyBeforeLoad, CleanMeansSaved
  <1>2. file.kind = "data" => file.body \in Bodies
    BY DEF Init, Files, File
  <1>3. QED
    BY <1>1, <1>2, ViewFacts DEF Init, SInv, Shapes

\* Every step keeps the invariant.
LEMMA SInvStep ==
    ASSUME SInv, [Next]_vars
    PROVE  SInv'
  <1> USE ViewFacts DEF SInv, SavesWhenStarted, TempIsCurrent, EmptyBeforeLoad, Shapes, CleanMeansSaved
  <1>1. CASE New
    BY <1>1 DEF New, diskVars, saveVars, loopVars, stopVars
  <1>2. CASE Load
    BY <1>2 DEF Load, LoadedData, diskVars, saveVars, loopVars, stopVars
  <1>3. CASE LoadUnreadable
    BY <1>3 DEF LoadUnreadable, diskVars, saveVars, loopVars, stopVars
  <1>4. CASE Start
    BY <1>4 DEF Start, diskVars, saveVars, stopVars
  <1>5. CASE ProcessEnds
    BY <1>5 DEF ProcessEnds, diskVars
  <1>6. ASSUME NEW t \in Tasks, NEW v \in Stats, UpdateTaskStats(t, v)
        PROVE  SInv'
    <2>1. data' \in Bodies
      BY <1>6 DEF UpdateTaskStats, Bodies
    <2>2. QED
      BY <1>6, <2>1 DEF UpdateTaskStats, MutexFree, diskVars, saveVars, loopVars, stopVars, lifeVars
  <1>7. CASE MarkDirty
    BY <1>7 DEF MarkDirty, diskVars, saveVars, loopVars, stopVars, lifeVars
  <1>8. ASSUME NEW who, SaveLock(who)
        PROVE  SInv'
    BY <1>8 DEF SaveLock, Wants, diskVars, loopVars, stopVars, lifeVars
  <1>9. CASE SaveCreate
    BY <1>9 DEF SaveCreate, loopVars, stopVars, lifeVars
  <1>10. CASE SaveEncode
    BY <1>10 DEF SaveEncode, FileWhileEncoding, loopVars, stopVars, lifeVars
  <1>11. CASE SaveRename
    <2>1. file' = File("data", data) /\ data' = data
      BY <1>11 DEF SaveRename
    <2>2. View(file') = data' /\ file'.body = data
      BY <2>1 DEF File
    <2>3. SavesWhenStarted'
      BY <1>11 DEF SaveRename, SaveReturns, LoopAfterSave, lifeVars
    <2>4. QED
      BY <1>11, <2>1, <2>2, <2>3 DEF SaveRename, SaveReturns, lifeVars
  <1>12. CASE SaveFault
    BY <1>12 DEF SaveFault, SaveReturns, LoopAfterSave, lifeVars
  <1>13. CASE FlushTick
    BY <1>13 DEF FlushTick, diskVars, saveVars, stopVars, lifeVars
  <1>14. CASE FlushExit
    BY <1>14 DEF FlushExit, LoopReturned, diskVars, saveVars, stopVars, lifeVars
  <1>15. CASE ParentCancelled
    BY <1>15 DEF ParentCancelled, diskVars, saveVars, stopVars, lifeVars
  <1>16. CASE StopLoopDone
    BY <1>16 DEF StopLoopDone, diskVars, saveVars, loopVars, lifeVars
  <1>17. ASSUME NEW s \in Stoppers, StopCall(s)
         PROVE  SInv'
    BY <1>17 DEF StopCall, diskVars, saveVars, lifeVars
  <1>18. ASSUME NEW s \in Stoppers, StopReturn(s)
         PROVE  SInv'
    BY <1>18 DEF StopReturn, diskVars, saveVars, loopVars, lifeVars
  <1>19. CASE UNCHANGED vars
    BY <1>19 DEF vars, diskVars, saveVars, loopVars, stopVars, lifeVars
  <1>20. QED
    BY <1>1, <1>2, <1>3, <1>4, <1>5, <1>6, <1>7, <1>8, <1>9, <1>10, <1>11, <1>12, <1>13, <1>14,
       <1>15, <1>16, <1>17, <1>18, <1>19 DEF Next

\* The invariant holds in every reachable state.
LEMMA Invariance == Spec => []SInv
  BY InitSInv, SInvStep, PTL DEF Spec

\* When the dirty flag is down the data file holds what memory holds (storage.go,
\* saveLocked and UpdateTaskStats).
THEOREM CleanIsSaved == Spec => []CleanMeansSaved
  <1>1. SInv => CleanMeansSaved
    BY DEF SInv
  <1>2. QED
    BY Invariance, <1>1, PTL
-----------------------------------------------------------------------------
\* The initial states of the storage are initial states of the abstract store.
LEMMA StoreInit == Init => Store!Init
  <1> SUFFICES ASSUME Init PROVE Store!Init
    OBVIOUS
  <1>1. file.kind = "data" => file.body \in Bodies
    BY DEF Init, Files, File
  <1>2. View(file) \in Bodies
    BY <1>1, ViewFacts
  <1>3. QED
    BY <1>2 DEF Init, Bodies, Empty, Store!Init, Store!Snapshots, Store!Nothing

\* A step of the storage is one step of the abstract store, or none: Load and a
\* failed Load begin a process, the rename replaces the snapshot, and the rest
\* of a save, the flush loop and Stop do not show.
LEMMA StoreStep ==
    ASSUME SInv, [Next]_vars
    PROVE  [Store!Next]_(Store!storeVars)
  <1> DEFINE Hidden == UNCHANGED <<data, View(file), life \in {"loaded", "started"}>>
  <1>0. Hidden => UNCHANGED Store!storeVars
    BY DEF Store!storeVars
  <1>1. CASE New
    <2>1. Hidden
      BY <1>1 DEF New, diskVars, View
    <2>2. QED
      BY <1>0, <2>1
  <1>2. CASE Load
    <2>1. Store!Begin(View(file))
      BY <1>2 DEF Load, LoadedData, diskVars, View, Store!Begin
    <2>2. QED
      BY <2>1 DEF Store!Next
  <1>3. CASE LoadUnreadable
    <2>1. data = Store!Nothing
      BY <1>3 DEF LoadUnreadable, SInv, EmptyBeforeLoad, Empty, Store!Nothing
    <2>2. Store!Begin(Store!Nothing)
      BY <1>3, <2>1 DEF LoadUnreadable, diskVars, View, Store!Begin
    <2>3. QED
      BY <2>2 DEF Store!Next
  <1>4. CASE ProcessEnds
    <2>1. data' = Empty /\ View(file)' = View(file) /\ life' = "down"
      BY <1>4 DEF ProcessEnds, diskVars, View
    <2>2. CASE life = "new"
      <3>1. Hidden
        BY <2>1, <2>2 DEF SInv, EmptyBeforeLoad
      <3>2. QED
        BY <1>0, <3>1
    <2>3. CASE life \in {"loaded", "started"}
      <3>1. Store!End
        BY <2>1, <2>3 DEF Store!End, Store!Nothing, Empty
      <3>2. QED
        BY <3>1 DEF Store!Next
    <2>4. life \in {"new", "loaded", "started"}
      BY <1>4 DEF ProcessEnds, SInv, Shapes
    <2>5. QED
      BY <2>2, <2>3, <2>4
  <1>5. ASSUME NEW t \in Tasks, NEW v \in Stats, UpdateTaskStats(t, v)
        PROVE  Store!Next
    <2>1. Store!Put(t, v)
      BY <1>5 DEF UpdateTaskStats, diskVars, lifeVars, View, Store!Put
    <2>2. QED
      BY <2>1 DEF Store!Next
  <1>6. CASE SaveRename
    <2>1. file' = File("data", data) /\ data' = data /\ life' = life /\ life = "started"
      BY <1>6 DEF SaveRename, SInv, TempIsCurrent, SavesWhenStarted, lifeVars
    <2>2. View(file)' = data
      BY <2>1 DEF View, File
    <2>3. Store!Persist
      BY <2>1, <2>2 DEF Store!Persist
    <2>4. QED
      BY <2>3 DEF Store!Next
  <1>7. CASE Start
    <2>1. Hidden
      BY <1>7 DEF Start, diskVars, View
    <2>2. QED
      BY <1>0, <2>1
  <1>8. CASE \/ MarkDirty \/ SaveCreate \/ SaveEncode \/ SaveFault
             \/ \E who \in {"flush", "stop"} : SaveLock(who)
    <2>1. UNCHANGED <<data, file, life>>
      BY <1>8 DEF MarkDirty, SaveLock, SaveCreate, SaveEncode, FileWhileEncoding, SaveFault,
                  diskVars, lifeVars
    <2>2. Hidden
      BY <2>1 DEF View
    <2>3. QED
      BY <1>0, <2>2
  <1>9. CASE \/ FlushTick \/ FlushExit \/ ParentCancelled \/ StopLoopDone
             \/ \E s \in Stoppers : StopCall(s) \/ StopReturn(s)
    <2>1. UNCHANGED <<data, file, life>>
      BY <1>9 DEF FlushTick, FlushExit, ParentCancelled, StopLoopDone, StopCall, StopReturn,
                  diskVars, lifeVars
    <2>2. Hidden
      BY <2>1 DEF View
    <2>3. QED
      BY <1>0, <2>2
  <1>10. CASE UNCHANGED vars
    <2>1. Hidden
      BY <1>10 DEF vars, diskVars, lifeVars, View
    <2>2. QED
      BY <1>0, <2>1
  <1>11. QED
    BY <1>1, <1>2, <1>3, <1>4, <1>5, <1>6, <1>7, <1>8, <1>9, <1>10 DEF Next

\* The storage implements SnapshotStore (storage.go, Load and saveLocked): the
\* temporary file, the rename, the dirty flag and the flush loop amount to
\* replacing one whole snapshot by another in one step, a crash included.
THEOREM ImplementsStore == Spec => SnapshotSpec
  <1>1. Spec => []SInv
    BY Invariance
  <1>2. QED
    BY <1>1, StoreInit, StoreStep, PTL DEF Spec, SnapshotSpec, Store!Spec
-----------------------------------------------------------------------------
(* Types, and what Stop leaves behind.                                     *)

\* Whoever holds the mutex for a save called Save and has not returned from it.
SaverWaits ==
    save # "no" => \/ saver = "flush" /\ loop = "save"
                   \/ saver = "stop" /\ once = "save"

\* Stop saves when the flush loop has ended, and a call of it returns after that
\* save.
StopOrder ==
    /\ once \in {"save", "done"} => loop = "exited"
    /\ \A s \in Stoppers : stop[s] = "returned" => once = "done"

\* A task in the file is in memory, once the file has been read.
NothingForgotten ==
    life \in {"loaded", "started"} /\ ~unread =>
        \A t \in Tasks : View(file)[t] # NoStats => data[t] # NoStats

StopInv == TypeOK /\ SaverWaits /\ StopOrder /\ NothingForgotten

\* What a save writes, and an empty file, can be read.
LEMMA FileKinds ==
    /\ \A b \in Bodies : File("data", b) \in Files
    /\ File("corrupt", Empty) \in Files /\ NoFile \in Files
  BY DEF Files, NoFile

LEMMA InitStopInv == Init => StopInv
  <1> SUFFICES ASSUME Init PROVE StopInv
    OBVIOUS
  <1>1. temp \in Files /\ faults \in 0..MaxFaults
    BY FileKinds, StorageAssumption DEF Init
  <1>2. TypeOK
    BY <1>1, ViewFacts DEF Init, TypeOK
  <1>3. SaverWaits /\ StopOrder /\ NothingForgotten
    BY DEF Init, SaverWaits, StopOrder, NothingForgotten
  <1>4. QED
    BY <1>2, <1>3 DEF StopInv

LEMMA TypeStep ==
    ASSUME TypeOK, [Next]_vars
    PROVE  TypeOK'
  <1> USE ViewFacts, FileKinds, StorageAssumption DEF TypeOK
  <1>1. CASE New
    <2>1. unread' \in BOOLEAN /\ life' = "new"
      BY <1>1, Zenon DEF New
    <2>2. UNCHANGED <<data, dirty, file, temp, save, saver, cancelled, loop, once, stopErr, stop, faults>>
      BY <1>1, Zenon DEF New, diskVars, saveVars, loopVars, stopVars
    <2>3. QED
      BY <2>1, <2>2
  <1>2. CASE Start
    BY <1>2 DEF Start, diskVars, saveVars, stopVars
  <1>3. CASE Load
    <2>1. View(file) \in Bodies
      BY DEF Files, File
    <2>2. QED
      BY <1>3, <2>1 DEF Load, LoadedData, diskVars, saveVars, loopVars, stopVars
  <1>4. CASE LoadUnreadable
    BY <1>4 DEF LoadUnreadable, diskVars, saveVars, loopVars, stopVars
  <1>5. CASE ProcessEnds
    BY <1>5 DEF ProcessEnds, diskVars
  <1>6. ASSUME NEW t \in Tasks, NEW v \in Stats, UpdateTaskStats(t, v)
        PROVE  TypeOK'
    <2>1. data' \in Bodies
      BY <1>6 DEF UpdateTaskStats, Bodies
    <2>2. QED
      BY <1>6, <2>1 DEF UpdateTaskStats, diskVars, saveVars, loopVars, stopVars, lifeVars
  <1>7. CASE MarkDirty
    BY <1>7 DEF MarkDirty, diskVars, saveVars, loopVars, stopVars, lifeVars
  <1>8. ASSUME NEW who \in {"flush", "stop"}, SaveLock(who)
        PROVE  TypeOK'
    BY <1>8 DEF SaveLock, diskVars, loopVars, stopVars, lifeVars
  <1>9. CASE SaveCreate
    BY <1>9 DEF SaveCreate, loopVars, stopVars, lifeVars
  <1>10. CASE SaveEncode
    BY <1>10 DEF SaveEncode, FileWhileEncoding, loopVars, stopVars, lifeVars
  <1>11. CASE SaveRename
    BY <1>11 DEF SaveRename, SaveReturns, LoopAfterSave, lifeVars
  <1>12. CASE SaveFault
    BY <1>12 DEF SaveFault, SaveReturns, LoopAfterSave, ErrorOfFault, lifeVars
  <1>13. CASE FlushTick \/ FlushExit \/ ParentCancelled \/ StopLoopDone
    <2>1. CASE FlushTick
      BY <2>1 DEF FlushTick, diskVars, saveVars, stopVars, lifeVars
    <2>2. CASE FlushExit
      BY <2>2 DEF FlushExit, LoopReturned, diskVars, saveVars, stopVars, lifeVars
    <2>3. CASE ParentCancelled
      BY <2>3 DEF ParentCancelled, diskVars, saveVars, stopVars, lifeVars
    <2>4. CASE StopLoopDone
      BY <2>4 DEF StopLoopDone, diskVars, saveVars, loopVars, lifeVars
    <2>5. QED
      BY <1>13, <2>1, <2>2, <2>3, <2>4
  <1>14. ASSUME NEW s \in Stoppers, StopCall(s) \/ StopReturn(s)
         PROVE  TypeOK'
    <2>1. CASE StopCall(s)
      <3>1. stop' \in [Stoppers -> {"new", "called", "returned"}]
        BY <2>1 DEF StopCall
      <3>2. once' \in {"new", "waiting", "save", "done"} /\ cancelled' \in BOOLEAN
        BY <2>1 DEF StopCall
      <3>3. QED
        BY <2>1, <3>1, <3>2 DEF StopCall, diskVars, saveVars, lifeVars
    <2>2. CASE StopReturn(s)
      BY <2>2 DEF StopReturn, diskVars, saveVars, loopVars, lifeVars
    <2>3. QED
      BY <1>14, <2>1, <2>2
  <1>15. CASE UNCHANGED vars
    BY <1>15 DEF vars, diskVars, saveVars, loopVars, stopVars, lifeVars
  <1>16. QED
    BY <1>1, <1>2, <1>3, <1>4, <1>5, <1>6, <1>7, <1>8, <1>9, <1>10, <1>11, <1>12, <1>13, <1>14, <1>15
       DEF Next

LEMMA StopOrderStep ==
    ASSUME TypeOK, SInv, SaverWaits, StopOrder, [Next]_vars
    PROVE  SaverWaits' /\ StopOrder'
  <1> USE DEF SaverWaits, StopOrder
  <1>1. CASE UNCHANGED <<saveVars, loop, once, stop>>
    BY <1>1 DEF saveVars
  <1>2. CASE Start
    <2>1. once = "new" /\ save = "no"
      BY <1>2 DEF Start, SInv, SavesWhenStarted
    <2>2. QED
      BY <1>2, <2>1 DEF Start, saveVars, stopVars
  <1>3. CASE ProcessEnds
    BY <1>3 DEF ProcessEnds
  <1>4. ASSUME NEW who \in {"flush", "stop"}, SaveLock(who)
        PROVE  SaverWaits' /\ StopOrder'
    BY <1>4 DEF SaveLock, Wants, loopVars, stopVars
  <1>5. CASE SaveCreate \/ SaveEncode
    BY <1>5 DEF SaveCreate, SaveEncode, loopVars, stopVars
  <1>6. CASE SaveRename \/ SaveFault
    <2>1. PICK err : SaveReturns(err) /\ save # "no"
      BY <1>6 DEF SaveRename, SaveFault
    <2>2. QED
      BY <2>1 DEF SaveReturns, LoopAfterSave, TypeOK
  <1>7. CASE FlushTick \/ FlushExit \/ StopLoopDone
    BY <1>7 DEF FlushTick, FlushExit, LoopReturned, StopLoopDone, LoopDone, MutexFree, saveVars,
                stopVars, loopVars, TypeOK
  <1>8. ASSUME NEW s \in Stoppers, StopCall(s) \/ StopReturn(s)
        PROVE  SaverWaits' /\ StopOrder'
    BY <1>8 DEF StopCall, StopReturn, saveVars, loopVars, TypeOK
  <1>9. QED
    BY <1>1, <1>2, <1>3, <1>4, <1>5, <1>6, <1>7, <1>8
       DEF Next, vars, New, Load, LoadUnreadable, UpdateTaskStats, MarkDirty, ParentCancelled,
           loopVars, stopVars

\* An update puts a task in memory and nothing but the end of a process takes it
\* out; a save makes the file what memory is.
LEMMA NothingForgottenStep ==
    ASSUME TypeOK, SInv, NothingForgotten, [Next]_vars
    PROVE  NothingForgotten'
  <1> USE DEF NothingForgotten
  <1>1. CASE New \/ ProcessEnds
    BY <1>1 DEF New, ProcessEnds
  <1>2. CASE Load
    BY <1>2 DEF Load, LoadedData, diskVars
  <1>3. CASE LoadUnreadable
    BY <1>3 DEF LoadUnreadable
  <1>4. ASSUME NEW t \in Tasks, NEW v \in Stats, UpdateTaskStats(t, v)
        PROVE  NothingForgotten'
    <2>1. v # NoStats /\ life' = life /\ unread' = unread /\ file' = file /\ life = "started"
      BY <1>4, StorageAssumption DEF UpdateTaskStats, lifeVars, diskVars
    <2>2. \A u \in Tasks : data'[u] = IF u = t THEN v ELSE data[u]
      BY <1>4 DEF UpdateTaskStats, TypeOK, Bodies
    <2>3. QED
      BY <2>1, <2>2
  <1>5. CASE SaveRename
    <2>1. View(file') = data /\ data' = data
      BY <1>5, ViewFacts DEF SaveRename, SInv, TempIsCurrent
    <2>2. QED
      BY <2>1
  <1>6. CASE Start
    BY <1>6 DEF Start, diskVars
  <1>7. CASE UNCHANGED <<data, file, life, unread>>
    BY <1>7
  <1>8. QED
    BY <1>1, <1>2, <1>3, <1>4, <1>5, <1>6, <1>7
       DEF Next, vars, MarkDirty, SaveLock, SaveCreate, SaveEncode, FileWhileEncoding, SaveFault,
           FlushTick, FlushExit, ParentCancelled, StopLoopDone, StopCall, StopReturn, diskVars,
           lifeVars

\* The invariant holds in every reachable state.
LEMMA StopInvariance == Spec => [](SInv /\ StopInv)
  <1>1. SInv /\ StopInv /\ [Next]_vars => StopInv'
    BY TypeStep, StopOrderStep, NothingForgottenStep DEF StopInv
  <1>2. QED
    BY Invariance, InitStopInv, <1>1, PTL DEF Spec

\* Type correctness: whatever fails and whenever the process dies, both files
\* hold something that Load can be asked to read.
THEOREM StorageTypeCorrect == Spec => []TypeOK
  <1>1. StopInv => TypeOK
    BY DEF StopInv
  <1>2. QED
    BY StopInvariance, <1>1, PTL

\* The rename is the only step that changes the data file, and it makes it what
\* memory is.
LEMMA OnlyRenameWrites ==
    ASSUME SInv, [Next]_vars, file' # file
    PROVE  SaveRename /\ View(file') = data
  <1>1. SaveRename
    BY DEF Next, vars, New, Load, LoadUnreadable, Start, ProcessEnds, UpdateTaskStats, MarkDirty,
       SaveLock, SaveCreate, SaveEncode, FileWhileEncoding, SaveFault, FlushTick, FlushExit,
       ParentCancelled, StopLoopDone, StopCall, StopReturn, diskVars
  <1>2. QED
    BY <1>1, ViewFacts DEF SaveRename, SInv, TempIsCurrent

\* Once a Stop call has returned, this process writes the file no more: the flush
\* loop has ended and the final save is over (storage.go, Stop and flushLoop).
THEOREM StopEndsWriting == Spec => StopIsFinal
  <1> DEFINE Final == (\E s \in Stoppers : stop[s] = "returned") => UNCHANGED file
  <1>1. SInv /\ StopInv /\ [Next]_vars => Final
    <2> SUFFICES ASSUME SInv, StopInv, [Next]_vars, NEW s \in Stoppers, stop[s] = "returned"
                 PROVE  file' = file
      OBVIOUS
    <2>1. save = "no"
      BY DEF StopInv, SaverWaits, StopOrder
    <2>2. QED
      BY <2>1, OnlyRenameWrites DEF SaveRename
  <1>2. SInv /\ StopInv /\ [Next]_vars => [Final]_vars
    BY <1>1
  <1>3. Spec => [][Final]_vars
    BY StopInvariance, <1>2, PTL DEF Spec
  <1>4. QED
    BY <1>3 DEF StopIsFinal

\* A Stop that reports success has written every update made before its save
\* (storage.go, Stop and saveLocked).
THEOREM SuccessMeansSaved == Spec => FinalSaveIsComplete
  <1> DEFINE Complete == once # "done" /\ once' = "done" /\ stopErr' = "nil" => View(file') = data
  <1>1. SInv /\ StopInv /\ [Next]_vars => Complete
    <2> SUFFICES ASSUME SInv, [Next]_vars, once # "done", once' = "done", stopErr' = "nil"
                 PROVE  View(file') = data
      OBVIOUS
    <2>1. SaveRename \/ SaveFault
      BY DEF Next, vars, New, Load, LoadUnreadable, Start, ProcessEnds, UpdateTaskStats, MarkDirty,
         SaveLock, SaveCreate, SaveEncode, FlushTick, FlushExit, ParentCancelled, StopLoopDone,
         StopCall, StopReturn, stopVars
    <2>2. ~SaveFault
      BY DEF SaveFault, SaveReturns, ErrorOfFault
    <2>3. QED
      BY <2>1, <2>2, ViewFacts DEF SaveRename, SInv, TempIsCurrent
  <1>2. SInv /\ StopInv /\ [Next]_vars => [Complete]_vars
    BY <1>1
  <1>3. Spec => [][Complete]_vars
    BY StopInvariance, <1>2, PTL DEF Spec
  <1>4. QED
    BY <1>3 DEF FinalSaveIsComplete

\* No task in the file goes out of it, across saves, failed saves, crashes and
\* restarts, unless a process could not open the file (storage.go, Load and
\* saveLocked).
THEOREM NoTaskForgotten == Spec => ForgetsOnlyUnreadable
  <1> DEFINE Kept == ~unread =>
                        \A t \in Tasks : View(file)[t] # NoStats => View(file')[t] # NoStats
  <1>1. SInv /\ StopInv /\ [Next]_vars => Kept
    <2> SUFFICES ASSUME SInv, StopInv, [Next]_vars, ~unread, NEW t \in Tasks, View(file)[t] # NoStats
                 PROVE  View(file')[t] # NoStats
      OBVIOUS
    <2>1. CASE file' = file
      BY <2>1
    <2>2. CASE file' # file
      <3>1. SaveRename /\ View(file') = data
        BY <2>2, OnlyRenameWrites
      <3>2. life = "started"
        BY <3>1 DEF SaveRename, SInv, SavesWhenStarted
      <3>3. QED
        BY <3>1, <3>2 DEF StopInv, NothingForgotten
    <2>3. QED
      BY <2>1, <2>2
  <1>2. SInv /\ StopInv /\ [Next]_vars => [Kept]_vars
    BY <1>1
  <1>3. Spec => [][Kept]_vars
    BY StopInvariance, <1>2, PTL DEF Spec
  <1>4. QED
    BY <1>3 DEF ForgetsOnlyUnreadable
=============================================================================
