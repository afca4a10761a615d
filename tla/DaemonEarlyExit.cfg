CONSTANTS
    Tasks = {build}
    Workers = {w1, w2}
    MaxCount = 3
    NoTask = NoTask
SPECIFICATION Spec
PROPERTIES
    SignalledExitSaves
