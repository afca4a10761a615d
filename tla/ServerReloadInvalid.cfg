CONSTANTS
    Clients = {}
    Commands <- MCCommands
    Machine <- MCMachine
    Failures <- MCFailures
    Files <- MCFiles
    Edits <- MCEdits
    MaxTime = 1
SPECIFICATION Spec
PROPERTY InvalidConfigNotApplied
