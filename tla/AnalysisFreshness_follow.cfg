SPECIFICATION FairSpec
CONSTANTS
    p1 = p1
    p2 = p2
    Projects = {p1}
    AutoAnalyze = {p1}
    EditKinds <- SchedulingEdits
    None = None
    MaxRuns = 5
    MaxManual = 0
    MaxVersions = 2
    MaxHalts = 1
    Callers = {c1}
PROPERTIES
    LatestFollowsInputs
CHECK_DEADLOCK FALSE
