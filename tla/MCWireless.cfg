SPECIFICATION FairSpec
CONSTANTS
    s1 = s1
    s2 = s2
    Senders = {s1, s2}
    MaxCalls = 3
INVARIANTS
    TypeOK
    OneWrite
    OneStream
PROPERTIES
    WriteEnds
    CancelledDeleted
