SPECIFICATION Spec
CONSTANTS
    c1 = c1
    c2 = c2
    FindingIDs = {c1}
    NoFinding = NoFinding
    EventIDs <- MCEventIDs
    Severities = {"warn"}
    Ingesters = {i1, i2}
    CheckOrder <- MCOneCheck
    Statuses = {"ok", "warn", "skip"}
    Serialised = FALSE
    MaxScans = 3
    MaxCrashes = 1
INVARIANTS
    OncePerScan
PROPERTIES
    UsesAtomicJournal
CHECK_DEADLOCK FALSE
