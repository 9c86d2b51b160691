\* Four requests against a quota of two, over three windows and their expiry.
CONSTANTS
    Requests = {r1, r2, r3, r4}
    Limit = 2
    WindowSeconds = 2
    MaxDelay = 2
    MaxTime = 5
    Faults = {"down", "reply"}
SYMMETRY Symmetry
SPECIFICATION Spec
CHECK_DEADLOCK FALSE
INVARIANTS
    TypeOK
    WindowQuota
    QuotaUsedWhenDenied
