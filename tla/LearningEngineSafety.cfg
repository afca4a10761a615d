CONSTANTS
    Calls = {c1, c2, c3}
    Tasks = {build}
    MaxWorkers = 1
    IdModulus = 2
    MaxSecond = 1
    Stoppers = {s1}
    TimedStoppers = {s2}
    NoCall = NoCall
    NoId = NoId
SYMMETRY CallSymmetry
SPECIFICATION Spec
INVARIANTS
    TypeOK
    Accounting
    AtMostOnce
    LostOnlyByCollision
    PendingIsServed
    OnlyLateCallsOutliveStop
PROPERTIES
    FrozenAfterStop
    LedgerSpec
