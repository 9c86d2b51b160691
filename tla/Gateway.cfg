CONSTANTS
    Requests = {r1, r2}
    Keys = {k1, k2}
    ReferencePrompts = 2
    MaxCrashes = 1
    ClickHouseResponds = TRUE
    MaxRetries = 2
    Faults = {"insert"}
    Stored <- StoredAlike
SPECIFICATION AuditedSpec
CHECK_DEADLOCK FALSE
INVARIANTS
    TypeOK
    CacheHoldsPrimaryAnswers
    RecordedBeforeReuse
    ScoredInFull
    ReusedAnswersAudited
PROPERTIES
    EveryRequestAnswered
    AnswerRecorded
