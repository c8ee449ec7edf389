SPECIFICATION Spec
CONSTANTS
    ParallelCount = 2
    SerialCount = 1
    MaxConcurrency = 2
    MayInterrupt = TRUE
INVARIANTS CancelLeavesNoTree
