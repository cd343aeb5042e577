SPECIFICATION Spec
CONSTANTS
    acme = acme
    rival = rival
    ann = ann
    bob = bob
    dam = dam
    weir = weir
    c1 = c1
    c2 = c2
    None = None
    Requirements <- MCRequirements
    Records <- MCRecords
    MaxRecords = 2
    LeastRecalled = 1
    MostRecalled = 2
    Bidder = acme
    AsOf <- Today
    Answers <- MCAnswers
INVARIANTS
    TypeOK
    RecheckIsExact
    MetIsProvenAndQuoted
    ModelNeverOverridesRules
    MoreEvidenceNeverRefutes
CHECK_DEADLOCK FALSE
