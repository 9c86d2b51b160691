CONSTANTS
    Requests = {r1}
    Keys = {k1}
    ReferencePrompts = 2
    MaxCrashes = 0
    ClickHouseResponds = FALSE
SPECIFICATION FairSpec
CHECK_DEADLOCK FALSE
PROPERTIES
    EveryRequestAnswered
