SPECIFICATION Spec
CONSTANTS
    Clients = {c1}
    m1 = m1
    m2 = m2
    m3 = m3
    k1 = k1
    k2 = k2
    k3 = k3
    a = a
    b = b
    t = t
    Memories = {m1, m2, m3}
    Keys = {k1, k2, k3}
    Contents = {a, b}
    Terms = {t}
    LegacyRows = {m1}
    Witnessed = {m1}
    LegacyContent <- MCLegacyContent
    Requests <- MCRequests
    Backups <- MCBackups
    NoRow = NoRow
    NoClass = NoClass
    NoDep = NoDep
    NoMemory = NoMemory
    NoContent = NoContent
    NoRequest = NoRequest
    Keep = Keep
INVARIANTS
    NextRevisionFree
