\* Every fault except a Redis restart; retries may run out.
CONSTANTS
    Writers = {w1, w2, w3}
    MaxRetries = 2
    Faults = {"redis", "reply", "insert", "crash"}
    Stored <- StoredAlike
SYMMETRY Symmetry
SPECIFICATION Spec
CHECK_DEADLOCK FALSE
INVARIANTS
    TypeOK
    NoFork
    LinkedRowsOnChain
PROPERTIES
    HeadOnlyGrows
    ImplementsHashChain
