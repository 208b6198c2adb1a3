SPECIFICATION Spec
CONSTANTS
    a = a
    b = b
    Versions <- MCVersions
    Path <- MCPath
    NoPath = NoPath
    Offers <- MCOffers
    FirstVersion = 1
    MaxFaults = 4
    NoFile = NoFile
    NoRelease = NoRelease
INVARIANTS
    RollbackPoint
    DoneIsNotRedone
    CheckpointIsValid
    CompleteIsDeployed
PROPERTIES
    HopsAreDeclared
    CheckpointsKept
    JourneySpec
