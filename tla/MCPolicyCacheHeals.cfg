SPECIFICATION FairSpec
CONSTANTS
    Procs = {p1, p2}
    Readers = {}
    PolicyIDs = {a, b}
    Bodies = {x}
    NoBody = NoBody
    NoDoc = NoDoc
    MaxRemembered = 2
    MaxRev = 2
    MayRecreate = FALSE
PROPERTIES
    Converges
