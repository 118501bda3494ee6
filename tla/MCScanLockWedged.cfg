SPECIFICATION FairSpec
CONSTANTS
    Shells = {m1, s1}
    Monitors = {m1}
    NoOwner = NoOwner
    MaxAttempts = 2
    Mortal = {s1}
    KillPoints <- KillsInRename
    WorkerKillPoints = {}
    MaxKills = 2
    MayOrphan = FALSE
    MayStall = FALSE
PROPERTIES
    ScansGoOn
