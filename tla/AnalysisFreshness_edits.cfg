SPECIFICATION Spec
CONSTANTS
    p1 = p1
    p2 = p2
    Projects = {p1, p2}
    AutoAnalyze = {p1}
    EditKinds <- TimestampedEdits
    None = None
    MaxRuns = 2
    MaxManual = 1
    MaxVersions = 2
    MaxHalts = 1
    Callers = {c1}
INVARIANTS
    TypeOK
    FreshResults
CHECK_DEADLOCK FALSE
