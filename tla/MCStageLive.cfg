SPECIFICATION FairSpec
CONSTANTS
    Clients = {c1, c2}
    Calls <- LiveCalls
    FaultSets = {{}}
    NoEntry = NoEntry
CHECK_DEADLOCK FALSE
PROPERTIES Termination AcquirerDrains
