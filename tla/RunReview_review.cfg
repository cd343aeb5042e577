SPECIFICATION Spec
CONSTANTS
    MaxClauses = 3
    Extracted = {1, 2}
    Amendments = {2}
    Targets = {t1}
    Callers = {c1}
    None = None
    MaxRequests = 2
    MaxResumes = 1
INVARIANTS
    TypeOK
    CompletedRunHasNothingOpen
    DecisionsFollowVersions
    PlacesLinkedToClausesInForce
    NoCycle
    RelinkingEnds
PROPERTIES
    UnrelatedConclusionsKept
CHECK_DEADLOCK FALSE
