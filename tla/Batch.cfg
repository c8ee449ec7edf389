SPECIFICATION FairSpec
CONSTANTS
    ParallelCount = 3
    SerialCount = 2
    MaxConcurrency = 2
    MayInterrupt = TRUE
INVARIANTS TypeOK SerialAlone GateConserved NodesAccounted SuccessIsTotal OwnedTreesSwept
PROPERTIES ImplementsWorkPlan BatchEnds
