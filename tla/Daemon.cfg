SPECIFICATION FairSpec
CONSTANTS
    maxEvents = 2
    RingSize = 2
    MaxRecords = 4
INVARIANT TypeOK
INVARIANT NoSendOnClosedChannel
INVARIANT ReleasedOnReturn
PROPERTY ShutdownEnds
CHECK_DEADLOCK FALSE
