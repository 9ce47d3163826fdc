SPECIFICATION Spec
CONSTANTS
    p1 = p1
    Pods <- OnePod
    PluginChoices <- WithoutPlugin
    RollOuts <- SomeOrAll
    MaxUID = 2
    MaxEdits = 2
    MaxRemovals = 0
    MaxFaults = 1
INVARIANT TypeOK
INVARIANT WebhookNeverOutlivesCPPC
INVARIANT OnlyLatePodsAreOrphaned
CHECK_DEADLOCK FALSE
