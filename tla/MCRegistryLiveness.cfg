SPECIFICATION FairSpec
CONSTANTS
    d1 = d1
    d2 = d2
    m1 = m1
    m2 = m2
    Devices = {d1, d2}
    Managers = {m1}
    NoManager = NoManager
    Kind <- FrameKind
    Requested <- OnlyD1
    MaxCalls = 2
    MaxEvents = 1
    MaxDrops = 1
PROPERTIES
    CancelledCallsDeleted
    RequestsReturn
