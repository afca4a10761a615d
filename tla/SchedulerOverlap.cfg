CONSTANTS
    Callers = {a, b}
    MaxStarts = 3
SPECIFICATION Spec
PROPERTIES
    StopWaitsForItsLoop
CHECK_DEADLOCK FALSE
