SPECIFICATION Spec
CONSTANTS
    f1 = f1
    f2 = f2
    f3 = f3
    Fields = {f1, f2, f3}
    PageOf <- MCPageOf
    Signatures = {}
    Detected = {f1, f2}
    Matched <- MCMatched
    MaxInputs = 1
    MaxRequirements = 1
    MaxMoves = 1
    Movable = {f1}
    MaxBuilds = 2
INVARIANTS
    TypeOK
    FinishedDraftIsComplete
    DraftedPlanIsFresh
PROPERTIES
    ConfirmedValuesKept
    ReviewsSurviveRebuild
