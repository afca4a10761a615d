--------------------------- MODULE SnapshotStore ---------------------------
(***************************************************************************)
(* What the data file promises: the disk holds, at every moment, one whole *)
(* snapshot of the statistics, the process replaces it by its memory in    *)
(* one step, and a process that starts finds the last snapshot or, when it *)
(* cannot use the file, nothing.                                           *)
(***************************************************************************)

CONSTANTS Tasks, Stats, NoStats

VARIABLES
    memory,     \* the statistics of the running process
    durable,    \* the snapshot that a start would find
    running     \* there is a process

storeVars == <<memory, durable, running>>

Snapshots == [Tasks -> Stats \cup {NoStats}]
Nothing == [t \in Tasks |-> NoStats]

Init ==
    /\ durable \in Snapshots
    /\ memory = Nothing
    /\ running = FALSE

Begin(found) ==
    /\ ~running
    /\ running' = TRUE
    /\ memory' = found
    /\ UNCHANGED durable

Put(t, v) ==
    /\ running
    /\ memory' = [memory EXCEPT ![t] = v]
    /\ UNCHANGED <<durable, running>>

Persist ==
    /\ running
    /\ durable' = memory
    /\ UNCHANGED <<memory, running>>

End ==
    /\ running
    /\ running' = FALSE
    /\ memory' = Nothing
    /\ UNCHANGED durable

Next ==
    \/ \E found \in {durable, Nothing} : Begin(found)
    \/ \E t \in Tasks, v \in Stats : Put(t, v)
    \/ Persist
    \/ End

Spec == Init /\ [][Next]_storeVars
=============================================================================
