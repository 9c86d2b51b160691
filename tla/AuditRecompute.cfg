\* The columns of llm_audit_logs keep less than was hashed.
CONSTANTS
    Writers = {w1, w2}
    MaxRetries = 2
    Faults = {}
    Stored <- StoredAlike
SYMMETRY Symmetry
SPECIFICATION Spec
CHECK_DEADLOCK FALSE
INVARIANTS
    RowHashRecomputable
