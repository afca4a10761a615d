CONSTANTS
    Tasks = {build, train}
    Workers = {w1, w2}
    MaxCount = 3
    NoTask = NoTask
SPECIFICATION FairSpec
INVARIANTS
    TypeOK
    NewestStatsKept
    CompletedShutdownKeepsAll
PROPERTIES
    DiskNeverRegresses
    ShutdownCompletes
