SPECIFICATION Spec
CONSTANTS
    Task <- Plan
    Counted <- Nodes
    MaxRevision = 2
    MaxLosses = 3
    EarlyLoss = TRUE
    Takeover = FALSE
INVARIANTS SnapshotsReplayed
CHECK_DEADLOCK FALSE
