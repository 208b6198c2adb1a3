SPECIFICATION FairSpec
CONSTANTS
    Memories = {1, 2}
    Chunks = {3, 4, 5}
    Texts = {plain, card}
    Secret = {card}
    Runs = {n1}
    Batch = 2
    MaxFaults = 1
    NoText = NoText
    Previews = {p1}
    Confirms = {c1, c2}
    NoPreview = NoPreview
INVARIANTS
    ClearedWasScanned
    TokenDeletesOnce
PROPERTIES
    DeletesWhatWasShown
    RowsAreScanned
CONSTRAINT Bound
CHECK_DEADLOCK FALSE
