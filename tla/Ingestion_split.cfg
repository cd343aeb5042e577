SPECIFICATION Spec
CONSTANTS
    s1 = s1
    e1 = e1
    Roles = {"tender"}
    Layout <- MCLayout
    Scanned = {2}
    Transcript = 3
    Statements = {s1}
    Facts = {"fact"}
    Embeddings = {e1}
    MaxRevision = 2
    MaxTextVersion = 1
    Corrected = {2}
    MaxVersions = 2
    MaxAttempts = 2
    MaxBlocks = 2
    MaxChars = 3
    Overlap = 1
    Window = 3
    Stride = 2
INVARIANT
    ReadingSavedWithBatch
