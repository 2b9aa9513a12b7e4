CONSTANTS
    t1 = t1   s1 = s1  s2 = s2  h1 = h1  h2 = h2
    NoSession = NoSession
    Turns <- MCTurns
    Sessions <- MCSessions
    Thresholds = {}
    Hooks <- MCHooks
    Cap = 1
    UnitSize = 1
    PaidPeriods = {1, 2}
    LastPeriod = 2
    MaxFaults = 0
SPECIFICATION CSpec
INVARIANTS ClosesBilledCycle
