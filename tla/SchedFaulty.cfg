SPECIFICATION Spec
CONSTANTS
    Task = {}
    Counted = {}
    Run = {r1}
    Scheduler = {s1, s2}
    Proc = {p1, p2}
    NoOne = NoOne
    Orphan = Orphan
    Faults = {"lease_lapse", "heartbeat_lapse", "slow_boot"}
    MaxCrashes = 1
SYMMETRY Interchangeable
INVARIANTS AckedIsSettled RunningSetExact
PROPERTIES VerdictIsFinal
CHECK_DEADLOCK FALSE
