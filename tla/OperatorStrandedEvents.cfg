SPECIFICATION Spec
CONSTANTS
    p1 = p1
    Pods <- NoPods
    PluginChoices <- WithOrWithoutPlugin
    RollOuts <- All
    MaxUID = 1
    MaxEdits = 2
    MaxRemovals = 0
    MaxFaults = 0
INVARIANT NoStrandedEvents
CHECK_DEADLOCK FALSE
