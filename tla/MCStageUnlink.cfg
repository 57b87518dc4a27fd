SPECIFICATION Spec
CONSTANTS
    Clients = {c1}
    Calls <- OverwriteCalls
    FaultSets = {{}}
    NoEntry = NoEntry
CHECK_DEADLOCK FALSE
PROPERTY SourceKept
