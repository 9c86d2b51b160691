\* Calls may outlive the recovery timeout, as with the handler's unbounded await.
CONSTANTS
    Requests = {r1, r2, r3}
    FailureThreshold = 2
    RecoveryTimeout = 2
    CallDeadline = 3
SPECIFICATION FairSpec
INVARIANTS
    TypeOK
    TrippedIffThreshold
    ProbeBacked
    StragglersAreOld
PROPERTIES
    OutageNotExtended
    SingleProbe
    ProbeSlotFreed
    RecoversWithPrimary
    OpenIsTemporary
