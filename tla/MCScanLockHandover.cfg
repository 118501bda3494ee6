SPECIFICATION Spec
CONSTANTS
    Shells = {m1, s1, s2}
    Monitors = {m1}
    NoOwner = NoOwner
    MaxAttempts = 2
    Mortal = {}
    KillPoints = {}
    WorkerKillPoints = {}
    MaxKills = 2
    MayOrphan = FALSE
    MayStall = FALSE
INVARIANTS
    MutualExclusion
