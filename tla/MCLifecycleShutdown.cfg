SPECIFICATION FairSpec
CONSTANTS
    MaxCalls = 3
    MaxTags = 2
    MaxChanges = 2
PROPERTIES
    ShutdownReturns
CHECK_DEADLOCK FALSE
