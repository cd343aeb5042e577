SPECIFICATION Spec
CONSTANTS
    Workers = {w1, w2}
    Targets <- DocumentTargets
    KindOf <- MCKindOf
    Base <- MCBase
    None = None
    LiveModelCalls = TRUE
    MaxJobs = 2
    MaxHalts = 0
    Callers = {a1}
SYMMETRY WorkerSymmetry
INVARIANTS
    TypeOK
    ModelWorkNotRepeated
    ModelJobHasOneWorker
CHECK_DEADLOCK FALSE
