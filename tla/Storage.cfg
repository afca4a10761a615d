CONSTANTS
    Tasks = {build, train}
    Stats = {v1, v2}
    NoStats = NoStats
    Stoppers = {s1, s2}
    MaxFaults = 1
SPECIFICATION FairSpec
INVARIANTS
    TypeOK
    CleanMeansSaved
PROPERTIES
    StopIsFinal
    FinalSaveIsComplete
    ForgetsOnlyUnreadable
    SnapshotSpec
    DirtyEventuallySaved
    StopReturns
