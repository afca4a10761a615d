CONSTANTS
    Clients = {c1}
    Commands <- MCCommands
    Machine <- MCMachine
    Failures <- MCFailures
    Files <- MCFiles
    Edits <- MCEdits
    MaxTime = 2
SPECIFICATION FairSpec
INVARIANTS
    TypeOK
    ReloadNotLost
    OneMoment
    DebugNeverOpen
PROPERTIES
    SignalsTakeEffect
    BackOnlyOverInjection
