\* Every fault, Redis restarts included.
CONSTANTS
    Writers = {w1, w2}
    MaxRetries = 3
    Faults = {"redis", "reply", "insert", "crash", "restart"}
    Stored <- StoredAlike
SPECIFICATION FairSpec
CHECK_DEADLOCK FALSE
PROPERTIES
    EveryTaskEnds
