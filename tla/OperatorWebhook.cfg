SPECIFICATION DeployedOperatorFairSpec
CONSTANTS
    p1 = p1
    Pods <- NoPods
    PluginChoices <- WithoutPlugin
    RollOuts <- All
    MaxUID = 1
    MaxEdits = 4
    MaxRemovals = 1
    MaxFaults = 1
PROPERTY WebhookFollowsController
CHECK_DEADLOCK FALSE
