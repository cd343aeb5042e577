SPECIFICATION Spec
CONSTANTS
    Workers = {w1}
    Targets <- AllTargets
    KindOf <- MCKindOf
    Base <- MCBase
    None = None
    LiveModelCalls = TRUE
    MaxJobs = 3
    MaxHalts = 1
    Callers = {a1}
INVARIANTS
    AtMostOneActive
    FinishedJobMatchesTarget
CHECK_DEADLOCK FALSE
