SPECIFICATION Spec
CONSTANTS
    Task = {}
    Counted = {}
    Run = {r1}
    Scheduler = {s1, s2}
    Proc = {p1, p2}
    NoOne = NoOne
    Orphan = Orphan
    Faults = {"lease_lapse"}
    MaxCrashes = 0
PROPERTIES NoRelaunchWhileBeating
CHECK_DEADLOCK FALSE
