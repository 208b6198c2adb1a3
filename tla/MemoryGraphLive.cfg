SPECIFICATION FairSpec
CONSTANTS
    Memories = {m1}
    Legacy = {}
    Episodes = {e1, e2, e3}
    Backfills = {b1}
    Rebuilds = {}
    Sweepers = {w1, w2}
    Bulks = {d1}
    MaxRev = 2
    MaxRestores = 0
    MaxFaults = 1
    NoRow = NoRow
    NoEpisode = NoEpisode
    Unborn = Unborn
INVARIANTS
    CompletedIsGone
PROPERTIES
    RemovalHappens
    PendingIsSynced
CHECK_DEADLOCK FALSE
