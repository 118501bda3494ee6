\* Three files, two overlapping roots; totals smaller than the files together.
SPECIFICATION MCSpec
CONSTANTS
    a = a
    b = b
    c = c
    Paths = {a, b, c}
    Walks <- MCWalks
    Sizes = {1, 2, 3}
    MaxFileBytes = 2
    MaxTotalBytes = 2
    MaxDepth = 1
    MaxFiles = 2
    MaxFindings = 1
    Chunk = 1
    Shared = {b}
CHECK_DEADLOCK FALSE
INVARIANTS
    BudgetsHold
    SilenceMeansInspected
    StatsAddUp
    AlarmsAreReal
PROPERTIES
    Terminates
