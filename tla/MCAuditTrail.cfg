SPECIFICATION FairSpec
CONSTANTS
    a1 = a1
    a2 = a2
    i1 = i1
    NoInst = NoInst
    Everything = Everything
    NoView = NoView
    Free = Free
    Writers = {w1}
    Runs = {r1, r2}
    Admins = {a1, a2}
    Insts = {i1}
    History <- MCHistory
    Window <- MCWindow
    BatchSize = 2
    MaxRows = 4
    MaxRecords = 2
    Horizon = 1
    MaxFaults = 1
INVARIANTS
    PredecessorInView
    ColdIsFindable
PROPERTIES
    DueIsArchived
    
