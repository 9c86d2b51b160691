CONSTANTS
    Requests = {r1, r2}
    Keys = {k1}
    ReferencePrompts = 2
    MaxCrashes = 0
    ClickHouseResponds = TRUE
SYMMETRY Symmetry
SPECIFICATION Spec
CHECK_DEADLOCK FALSE
INVARIANTS
    AnswerNotRejected
