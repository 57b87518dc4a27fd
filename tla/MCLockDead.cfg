SPECIFICATION Spec
CONSTANTS
    N = 2
    Recheck = 2
    CpTimeout = 3
    Expiry = 3
    MaxLag = 1
    MaxSkew = 0
    Skew <- InStep
    FaultSets = {{"crash"}}
    MaxTime = 8
CHECK_DEADLOCK FALSE
PROPERTY DeadLockIsBroken
