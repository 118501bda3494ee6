\* Two operators, two tokens and devices, one policy that may be recreated.
SPECIFICATION Spec
CONSTANTS
    adm = adm
    op = op
    out = out
    Principals = {adm, op, out}
    RoleOf <- MCRoleOf
    TokenIDs = {t1, t2}
    DeviceIDs = {d1, d2}
    Groups = {g1, g2}
    PolicyIDs = {p1}
    Bodies = {b1, b2}
    Metadata = {m1}
    Keys = {k1}
    MaxVersion = 1
    MaxRevision = 3
    MaxAudit = 4
    MaxMinted = 3
    None = None
SYMMETRY Symmetry
INVARIANTS
    ServerTypeOK
    OneTokenOneDevice
    AssignmentsResolve
    AuditAccountsForState
PROPERTIES
    NoLostUpdate
