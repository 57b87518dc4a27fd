SPECIFICATION FairSpec
CONSTANTS
    Jobs = {j1}
    Files = {f1}
    NoFile = NoFile
    Junk = Junk
    Settings <- DataDispatcher
    SamTries = 2
CHECK_DEADLOCK FALSE
PROPERTY JobsEnd
