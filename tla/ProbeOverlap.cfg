\* A primary call may outlive the recovery timeout.
CONSTANTS
    Requests = {r1, r2, r3}
    FailureThreshold = 2
    RecoveryTimeout = 2
    CallDeadline = 3
SYMMETRY Symmetry
SPECIFICATION Spec
INVARIANTS
    AtMostOneProbe
