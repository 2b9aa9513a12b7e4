SPECIFICATION FairSpec
CONSTANTS
    Workers = {w1, w2}
    MaxRetries = 1
    MaxReingest = 2
    MaxTimeouts = 2
    MaxDeletes = 1
    MaxFaults = 1
CHECK_DEADLOCK FALSE
INVARIANTS
    CopiesNeedOverlap
    ReadyIsServed
PROPERTIES
    DeletedStaysDeleted
    IngestionSettles
