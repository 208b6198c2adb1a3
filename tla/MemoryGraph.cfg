SPECIFICATION Spec
CONSTANTS
    Memories = {m1}
    Legacy = {m1}
    Episodes = {e1, e2}
    Backfills = {b1, b2}
    Rebuilds = {r1}
    Sweepers = {w1}
    Bulks = {d1}
    MaxRev = 2
    MaxRestores = 1
    MaxFaults = 1
    NoRow = NoRow
    NoEpisode = NoEpisode
    Unborn = Unborn
SYMMETRY UUIDs
INVARIANTS
    CurrentEpisode
    DeletedIsQueued
    CurrentKept
CHECK_DEADLOCK FALSE
