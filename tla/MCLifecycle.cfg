SPECIFICATION FairSpec
CONSTANTS
    MaxCalls = 3
    MaxTags = 2
    MaxChanges = 2
INVARIANTS
    TypeOK
    OneBaseStream
    ClosedIsSilent
    EventStreamRecorded
PROPERTIES
    CancelledDeleted
    Reopened
    RequestReturns
    ShutdownEnds
CHECK_DEADLOCK FALSE
