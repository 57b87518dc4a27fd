SPECIFICATION FairSpec
CONSTANTS
    Clients = {c1, c2}
    Calls <- HandoffCalls
    FaultSets = {{}}
    NoEntry = NoEntry
CHECK_DEADLOCK FALSE
PROPERTY HandedOffIsCopied
