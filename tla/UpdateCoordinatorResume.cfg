SPECIFICATION Spec
CONSTANTS
    a = a
    b = b
    Versions <- MCVersions
    Path <- MCPath
    NoPath = NoPath
    Offers <- MCOffers
    FirstVersion = 1
    MaxFaults = 1
    NoFile = NoFile
    NoRelease = NoRelease
INVARIANTS
    RetryResumes
