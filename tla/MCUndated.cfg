SPECIFICATION Spec
CONSTANTS
    Instances = {i1, i2}
    Grace = 2
    MaxReturns = 2
    MaxFaults = 1
INVARIANTS GraceIsDated
