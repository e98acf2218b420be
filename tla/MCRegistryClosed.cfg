SPECIFICATION Spec
CONSTANTS
    d1 = d1
    d2 = d2
    m1 = m1
    m2 = m2
    Devices = {d1}
    Managers = {m1}
    NoManager = NoManager
    Kind <- DeviceKind
    Requested <- AllDevices
    MaxCalls = 3
    MaxEvents = 2
    MaxDrops = 0
INVARIANTS
    ClosedRequestStopped
