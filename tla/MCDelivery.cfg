SPECIFICATION FairSpec
CONSTANTS
    Jobs = {j1, j2}
    Files = {f1, f2}
    NoFile = NoFile
    Junk = Junk
    Settings <- AllSettings
    SamTries = 2
CHECK_DEADLOCK FALSE
INVARIANTS TypeOK DoneWasConsumed ReportArrives NothingForgotten EndedMeansFinished EndTold
PROPERTIES AllFilesFinished
