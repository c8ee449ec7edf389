SPECIFICATION FairSpec
CONSTANTS
    Task = {t1, t2}
    MaxEvents = 5
    MaxLen = 2
    BatchSize = 2
    MaxFaults = 2
INVARIANTS TypeOK NothingMissed
PROPERTIES PageCatchesUp
CHECK_DEADLOCK FALSE
