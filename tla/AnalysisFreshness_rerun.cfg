SPECIFICATION Spec
CONSTANTS
    p1 = p1
    p2 = p2
    Projects = {p1}
    AutoAnalyze = {p1}
    EditKinds <- TimestampedEdits
    None = None
    MaxRuns = 4
    MaxManual = 0
    MaxVersions = 3
    MaxHalts = 2
    Callers = {c1}
PROPERTIES
    NoRerunOfSameInputs
CHECK_DEADLOCK FALSE
