SPECIFICATION FairSpec
CONSTANTS
    Key <- Keys
    Tag <- Tags
    TagOf <- KeyTag
    Target <- KeyTarget
    Run <- TwoRuns
    Plan <- TwoPlans
    NoOne = NoOne
    Lifetime = 1
    Allowance = 1
    MinimumAge = 1
    KeepLatest = 1
    Skew = 0
    MaxTime = 3
    LastStart = 1
    MaxRestores = 1
PROPERTIES JobsEnd PinsReclaimed
CHECK_DEADLOCK FALSE
