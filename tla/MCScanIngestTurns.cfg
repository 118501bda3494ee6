SPECIFICATION FairSpec
CONSTANTS
    c1 = c1
    c2 = c2
    FindingIDs = {c1, c2}
    NoFinding = NoFinding
    EventIDs <- MCEventIDs
    Severities = {"warn"}
    Ingesters = {i1}
    CheckOrder <- MCCheckOrder
    Statuses = {"ok", "warn", "skip"}
    Serialised = TRUE
    MaxScans = 3
    MaxCrashes = 2
INVARIANTS
    CompletedIsComplete
    MirrorsLastScan
PROPERTIES
    OnlyOKResolves
    AttemptsComplete
CHECK_DEADLOCK FALSE
