SPECIFICATION FairSpec
CONSTANTS
    e1 = e1
    e2 = e2
    n1 = n1
    n2 = n2
    Events <- OneEvent
    Nodes <- TwoNodes
    MaxPods = 2
    Attempts = 3
    MaxEdits = 2
    MaxFaults = 2
INVARIANTS TypeOK OnlyPodsOfTheNode HandledForAReason OneConflictAtMost CountedOnce
PROPERTY EventsAreHandled
CHECK_DEADLOCK FALSE
