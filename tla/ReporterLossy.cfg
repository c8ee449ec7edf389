SPECIFICATION FairSpec
CONSTANTS
    Task <- Plan
    Counted <- Nodes
    MaxRevision = 3
    MaxLosses = 2
    EarlyLoss = FALSE
    Takeover = TRUE
INVARIANTS TypeOK SnapshotsReplayed StoreAgrees ClosedCleanIsComplete
PROPERTIES ImplementsRunRecord CatchesUp
CHECK_DEADLOCK FALSE
