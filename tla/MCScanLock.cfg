SPECIFICATION FairSpec
CONSTANTS
    Shells = {m1, m2}
    Monitors = {m1, m2}
    NoOwner = NoOwner
    MaxAttempts = 2
    Mortal = {m2}
    KillPoints <- KillsOutsideRename
    WorkerKillPoints <- KillsWhileNamed
    MaxKills = 2
    MayOrphan = TRUE
    MayStall = FALSE
INVARIANTS
    LiveExclusion
PROPERTIES
    ScansGoOn
