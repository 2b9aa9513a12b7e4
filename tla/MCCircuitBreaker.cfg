CONSTANTS
    d1 = d1  d2 = d2
    Dispatchers <- MCDispatchers
    Threshold = 3
    Attempts = 2
    FailureWindow = 2
    OpenDuration = 2
    MaxAge = 1
    MaxFaults = 1
SPECIFICATION FairSpec
INVARIANTS OpenIsDated OpenRefuses
PROPERTIES NeverWedged
