CONSTANTS
    Callers = {a, b}
    MaxStarts = 3
SPECIFICATION FairSpec
INVARIANTS
    TypeOK
    RunningHasLoop
    OneLoopUnlessOverlapped
PROPERTIES
    StopWaitsUnlessOverlapped
    StopReturns
CHECK_DEADLOCK FALSE
