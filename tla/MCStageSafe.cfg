SPECIFICATION Spec
CONSTANTS
    Clients = {c1, c2}
    Calls <- SafeCalls
    FaultSets = {{}, {"crash", "trap", "stage"}, {"rm", "list"}}
    NoEntry = NoEntry
SYMMETRY ClientSymmetry
CHECK_DEADLOCK FALSE
INVARIANTS TypeOK NoLoss StagedIsQueued QueuedMeansReady
PROPERTIES SourceKept
