SPECIFICATION Spec
CONSTANTS
    d1 = d1
    d2 = d2
    m1 = m1
    m2 = m2
    Devices = {d1, d2}
    Managers = {m1, m2}
    NoManager = NoManager
    Kind <- BothKinds
    Requested <- AllDevices
    MaxCalls = 7
    MaxEvents = 2
    MaxDrops = 0
INVARIANTS
    TypeOK
    TagsLive
    StorageCoverage
    StorageExact
    CqRecordedLive
    NoOrphan
    FrameCurrent
CONSTRAINT
    OneRequest
