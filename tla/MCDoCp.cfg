SPECIFICATION FairSpec
CONSTANTS
    NPairs = 2
    Kinds <- AllKinds
    MaxRetries = 2
    DefaultRetries = 3
    FaultSets = {{},
                 {"bad", "signal", "256", "exists", "rm_odd", "writer", "fork"},
                 {"bad", "signal", "rm", "rm_odd", "256", "writer"},
                 {"bad", "rm", "reader", "slow", "writer", "exists"}}
CHECK_DEADLOCK FALSE
INVARIANTS TypeOK SuccessMeansCopied AllTriesUsed NothingLeftRunning
PROPERTIES Termination
