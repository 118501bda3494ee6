SPECIFICATION Spec
CONSTANTS
    f1 = f1
    f2 = f2
    Procs = {p1, p2}
    NoProc = NoProc
    FindingIDs = {f1, f2}
    NoFinding = NoFinding
    EventIDs = {1, 2, 3, 4, 5}
    Severities = {"warn", "critical"}
    Events <- MCEvents
    NoEvent = NoEvent
SYMMETRY ProcSymmetry
INVARIANTS
    TypeOK
    EventIDsUnique
    AckedDurable
    ReplayAccepts
    LifecycleConsistent
    ProjectionSummarisesLog
PROPERTIES
    ImplementsAtomicJournal
    RebuildInvisible
