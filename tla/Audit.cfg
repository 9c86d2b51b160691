\* Redis healthy, inserts that fail, crashes, and fewer retries than tasks.
CONSTANTS
    Writers = {w1, w2, w3, w4}
    MaxRetries = 2
    Faults = {"insert", "crash"}
    Stored <- StoredAlike
SYMMETRY Symmetry
SPECIFICATION Spec
CHECK_DEADLOCK FALSE
INVARIANTS
    RacesLostToLinks
    ChainAccounted
