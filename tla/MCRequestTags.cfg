CONSTANTS
    t1 = t1
    t2 = t2
    t3 = t3
    Threads <- ThreadSet
    MaxRequests = 4
SPECIFICATION Spec
SYMMETRY Symmetry
INVARIANTS TypeOK QueryServed Reachable StorageKept
PROPERTIES TagsFresh
