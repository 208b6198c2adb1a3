SPECIFICATION FairSpec
CONSTANTS
    u1 = u1
    u2 = u2
    a = a
    b = b
    s = s
    Uploads = {u1, u2}
    Texts = {a, b, s}
    Sensitive = {s}
    TextOf <- Gated
    Deletions = {x1}
    Slots = 2
    MaxTries = 1
    MaxFaults = 1
    NoDoc = NoDoc
    NoText = NoText
    NoJob = NoJob
    NoRows = NoRows
INVARIANTS
    EmbeddedHasPoint
    NoOrphans
PROPERTIES
    VersionCounts
    OriginalKept
    JobEnds
CHECK_DEADLOCK FALSE
