SPECIFICATION FairSpec
CONSTANTS
    Turns = {t1, t2}
    Desks = {d1}
    Sweepers = {s1}
    Contacts = 1
    Timeout = 1
    MaxEvents = 2
    MaxFaults = 1
    NoTurn = NoTurn
INVARIANTS
    SpokenOver
PROPERTIES
    TurnsEnd
    EndsOldRows
    SessionEnds
