SPECIFICATION Spec
CONSTANTS
    Versions <- MCVersions
    Major <- MCMajor
    Contracts <- MCContracts
    NoPath = NoPath
INVARIANTS
    PathIsDeclared
PROPERTIES
    ReplanningIsResuming
CHECK_DEADLOCK FALSE
