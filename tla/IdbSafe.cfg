SPECIFICATION Spec
CONSTANTS
    Key <- Keys
    Tag <- Tags
    TagOf <- KeyTag
    Target <- KeyTarget
    Run <- TwoRuns
    Plan <- TwoPlans
    NoOne = NoOne
    Lifetime = 1
    Allowance = 1
    MinimumAge = 1
    KeepLatest = 1
    Skew = 1
    MaxTime = 3
    LastStart = 1
    MaxRestores = 1
INVARIANTS TypeOK SelectionRestorable HintNeverDangles
PROPERTIES ImplementsPinStore
CHECK_DEADLOCK FALSE
