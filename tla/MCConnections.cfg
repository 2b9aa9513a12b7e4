SPECIFICATION FairSpec
CONSTANTS
    MaxRows = 2
    MaxSecrets = 2
    MaxAttempts = 2
    Workers = {w1}
    MaxFaults = 1
CHECK_DEADLOCK FALSE
INVARIANTS
    DoneMeansGone
    NoOrphanedSecret
    LostOnlyToPredecessor
PROPERTY CleanupSettles
