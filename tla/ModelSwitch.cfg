SPECIFICATION FairSpec
CONSTANTS
    f = f
    t = t
    Memories = {m1}
    Pins = {f, t}
    Dim <- Sizes
    EnvPin = f
    Runs = {w1}
    Bridges = {b1}
    Deletions = {d1}
    MaxRev = 2
    MaxFaults = 1
    Saves = {1, 2}
    Unborn = Unborn
    NoRow = NoRow
    NoPoint = NoPoint
    NoVector = NoVector
    NoPage = NoPage
INVARIANTS
    SearchIsOfRow
    EmbeddedIsFound
    NoOrphans
PROPERTIES
    PendingIsEmbedded
CHECK_DEADLOCK FALSE
