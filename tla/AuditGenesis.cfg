CONSTANTS
    Writers = {w1, w2, w3}
    MaxRetries = 2
    Faults = {}
    Stored <- StoredAlike
SYMMETRY Symmetry
SPECIFICATION Spec
CHECK_DEADLOCK FALSE
INVARIANTS
    GenesisOnlyForFirstRow
