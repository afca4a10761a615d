CONSTANTS
    Calls = {c1, c2}
    Tasks = {build}
    MaxWorkers = 1
    IdModulus = 1
    MaxSecond = 1
    Stoppers = {s1}
    TimedStoppers = {s2}
    NoCall = NoCall
    NoId = NoId
SPECIFICATION FairSpec
PROPERTIES
    EveryNotificationMeasured
    StopReturns
