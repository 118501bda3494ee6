\* Two threads of one process or of two, two faults, three bundles and a forged one.
SPECIFICATION MCFairSpec
CONSTANTS
    t1 = t1
    pr1 = pr1
    Threads = {t1, t2}
    Processes = {pr1, pr2}
    Bundles <- MCBundles
    Trusted <- MCTrusted
    MaxAttempts = 2
    MaxFaults = 2
    None = None
INVARIANTS
    CurrentResolves
    AckedStays
    ReadsAreWhole
PROPERTIES
    NoEquivocation
    NewestSettles
