SPECIFICATION Spec
CONSTANTS
    h1 = h1
    h2 = h2
    Devices = {"d1"}
    Slots = {1}
    Handles = {h1, h2}
    Counts = {0, 1}
    Generations = {1, 2}
INVARIANTS
    TypeOK
    OneOwner
    NothingLost
SYMMETRY SymmetryHandles
CONSTRAINT OneAtATime
