SPECIFICATION FairSpec
CONSTANTS
    Workers = {w1}
    Targets <- DocumentTargets
    KindOf <- MCKindOf
    Base <- MCBase
    None = None
    LiveModelCalls = TRUE
    MaxJobs = 2
    MaxHalts = 2
    Callers = {a1}
PROPERTIES
    ImplementsLifecycle
    JobsSettle
CHECK_DEADLOCK FALSE
