SPECIFICATION Spec
CONSTANTS
    u1 = u1
    u2 = u2
    a = a
    b = b
    s = s
    Uploads = {u1, u2, u3}
    Texts = {a, b, s}
    Sensitive = {s}
    TextOf <- BackAgain
    Deletions = {}
    Slots = 1
    MaxTries = 2
    MaxFaults = 1
    NoDoc = NoDoc
    NoText = NoText
    NoJob = NoJob
    NoRows = NoRows
INVARIANTS
    SearchIsStamped
CHECK_DEADLOCK FALSE
