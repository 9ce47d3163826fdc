SPECIFICATION FairSpec
CONSTANTS
    p1 = p1
    Pods <- OnePod
    PluginChoices <- WithoutPlugin
    RollOuts <- All
    MaxUID = 1
    MaxEdits = 1
    MaxRemovals = 1
    MaxFaults = 1
PROPERTY DeletionCompletes
PROPERTY GatedPodsAreReleased
PROPERTY OperandsConverge
CHECK_DEADLOCK FALSE
