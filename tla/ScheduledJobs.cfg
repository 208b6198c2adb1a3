SPECIFICATION FairSpec
CONSTANTS
    Catalog = {sync}
    Retired = {archive}
    Crons = {hourly, daily, never}
    Default = hourly
    Bad = never
    Requests = {r1, r2}
    Workers = {w1}
    Slots = {s1}
    MaxFaults = 1
    NoRow = NoRow
    NoCron = NoCron
    NoJob = NoJob
INVARIANTS
    InStep
    PausedIsQuiet
    RetiredIsUnscheduled
PROPERTIES
    EnabledRuns
CHECK_DEADLOCK FALSE
