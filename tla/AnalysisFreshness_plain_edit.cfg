SPECIFICATION Spec
CONSTANTS
    p1 = p1
    p2 = p2
    Projects = {p1}
    AutoAnalyze = {}
    EditKinds <- PlainEdits
    None = None
    MaxRuns = 2
    MaxManual = 2
    MaxVersions = 1
    MaxHalts = 0
    Callers = {c1}
INVARIANTS
    FreshResults
CHECK_DEADLOCK FALSE
