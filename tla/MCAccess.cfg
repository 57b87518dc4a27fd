SPECIFICATION Spec
CONSTANTS
    Procs = {"c1", "c2", "s"}
    Sessions = {"s"}
    MinLeft = 3
    ProxyLeft = 2
    Sleep = 3
    MaxRun = 1
    Life = 5
    MaxTime = 8
    MaxCalls = 2
    MaxTries = 1
    Settings <- MCSettings
CHECK_DEADLOCK FALSE
INVARIANTS CredentialsInHand RequestsCarry SessionCovers DoorSuits
