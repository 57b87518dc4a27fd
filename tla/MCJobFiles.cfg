SPECIFICATION Spec
CONSTANTS
    p1 = p1
    p2 = p2
    o1 = o1
    o2 = o2
    Procs = {p1, p2}
    Outputs = {o1, o2}
    Inputs = {"in"}
    None = None
    Settings <- AllSettings
    MaxCalls = 5
CHECK_DEADLOCK FALSE
INVARIANTS Remembered LinesAreFiles CopiedBack DirsMade
