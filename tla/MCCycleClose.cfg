CONSTANTS
    t1 = t1
    s1 = s1
    s2 = s2
    h1 = h1
    h2 = h2
    NoSession = NoSession
    Turns <- MCTurns
    Sessions <- MCSessions
    Thresholds = {}
    PaidPeriods = {1, 2}
    Hooks <- MCTwoHooks
    Cap = 1
    UnitSize = 1
    LastPeriod = 2
    MaxFaults = 1
SPECIFICATION CSpec
INVARIANTS
    ClaimsAreCounted
    OneCloseStands
SYMMETRY MCSymmetry
