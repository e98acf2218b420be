SPECIFICATION Spec
CONSTANTS
    r1 = r1
    r2 = r2
    Readers = {r1, r2}
    BufferSize = 3
    IndexLimit = 10
    MaxPackets = 13
SYMMETRY Symmetry
INVARIANTS
    LatestIsMostRecent
