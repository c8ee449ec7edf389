SPECIFICATION FairSpec
CONSTANTS
    Task = {}
    Counted = {}
    Run = {r1, r2}
    Scheduler = {s1, s2}
    Proc = {p1, p2}
    NoOne = NoOne
    Orphan = Orphan
    Faults = {}
    MaxCrashes = 1
INVARIANTS TypeOK LeaseExcludes OneAnalysis LaunchedOnce
PROPERTIES ImplementsJobQueue EveryRunSettles
CHECK_DEADLOCK FALSE
