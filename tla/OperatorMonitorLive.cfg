SPECIFICATION DeployedFairSpec
CONSTANTS
    p1 = p1
    Pods <- NoPods
    PluginChoices <- WithOrWithoutPlugin
    RollOuts <- All
    MaxUID = 1
    MaxEdits = 2
    MaxRemovals = 0
    MaxFaults = 1
INVARIANT MonitorIsRemoved
PROPERTY OperandsConverge
PROPERTY DeletionCompletes
CHECK_DEADLOCK FALSE
