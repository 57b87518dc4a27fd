SPECIFICATION Spec
CONSTANTS
    Macros <- MCMacros
    RefTo <- MCRefTo
    Holds <- MCHolds
    Protocols <- MCProtocols
    PartOf <- MCPartOf
    PartsOf <- MCPartsOf
    PatternOf <- MCPatternOf
    Cwd <- MCCwd
    Groups <- MCGroups
    Exists <- MCExists
    ListFiles <- MCListFiles
    Files <- MCFiles
    Options <- MCOptions
    Spellings <- MCSpellings
    Ends <- MCEnds
    Forces <- MCForces
    Commands <- MCCommands
    Vias <- MCVias
    Trees <- MCTrees
    Searches <- MCSearches
    Users <- MCUsers
    MaxDepth = 3
CHECK_DEADLOCK FALSE
INVARIANTS ReadAsWritten FileAnswers ProtocolSuits PairsAsAsked ViaAgree ListsAll FailureTold
