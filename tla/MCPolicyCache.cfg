SPECIFICATION Spec
CONSTANTS
    Procs = {p1, p2}
    Readers = {r1}
    PolicyIDs = {a, b}
    Bodies = {x, y}
    NoBody = NoBody
    NoDoc = NoDoc
    MaxRemembered = 2
    MaxRev = 2
    MayRecreate = TRUE
SYMMETRY Symmetry
INVARIANTS
    TypeOK
    LedgerCoversPolicy
PROPERTIES
    LoadNeverRollsBack
    ImplementsRegister
