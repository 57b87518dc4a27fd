SPECIFICATION Spec
CONSTANTS
    N = 2
    Recheck = 3
    CpTimeout = 2
    Expiry = 2
    MaxLag = 1
    MaxSkew = 1
    Skew <- FirstAhead
    FaultSets = {{}, {"crash","trap","list","rm","lost"}}
    MaxTime = 7
CHECK_DEADLOCK FALSE
INVARIANTS TypeOK MutualExclusion FirstWhileWorking SomeoneObtains
PROPERTIES GiveUpMeansAnother MutexSpec
