\* Two processes of one endpoint, one request given up, one rotation each.
SPECIFICATION MCFairSpec
CONSTANTS
    adm = adm
    e1 = e1
    p1 = p1
    p2 = p2
    g1 = g1
    on = on
    t1 = t1
    t2 = t2
    d1 = d1
    d2 = d2
    m1 = m1
    Principals = {adm}
    RoleOf <- MCRoleOf
    TokenIDs = {t1, t2}
    DeviceIDs = {d1, d2}
    Groups = {g1}
    PolicyIDs = {on}
    Bodies = {on}
    ReportingBodies = {on}
    Metadata = {m1}
    Keys = {k1}
    MaxVersion = 2
    MaxRevision = 1
    MaxAudit = 4
    MaxMinted = 3
    None = None
    Endpoints = {e1}
    Procs = {p1, p2}
    HomeOf <- MCHomeOf
    LateSlots = {l1}
    MaxTimeouts = 1
    MaxRotations = 2
INVARIANTS
    EndpointKeepsAccess
PROPERTIES
    RevokedIsFinal
    StableIdentity
    ReportsConverge
