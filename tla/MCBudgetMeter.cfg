CONSTANTS
    t1 = t1
    t2 = t2
    s1 = s1
    s2 = s2
    s3 = s3
    NoSession = NoSession
    Turns <- MCTurns
    Sessions <- MCSessions
    Thresholds <- MCThresholds
    PaidPeriods <- MCPaidPeriods
    Cap = 1
    LastPeriod = 2
    MaxFaults = 1
SPECIFICATION FairSpec
INVARIANTS
    ExactlyOnce
    CacheNeverOvercounts
    NoEarlyDenial
    OvershootBounded
    AlertsJustified
    AlertsOnce
    AlertsComplete
PROPERTIES
    ImplementsLedger
    TurnsFinish
