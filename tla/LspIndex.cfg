SPECIFICATION FairSpec
CONSTANTS
    Files <- MCFiles
    Texts = {1, 2}
    InitialDisks <- MCInitialDisks
    Configs <- MCConfigs
    Ignores <- MCIgnores
    AltConfig = "strict"
    Fetches = {1}
    Absent = Absent
    Closed = Closed
    Nil = Nil
    NoEntry = NoEntry
    MaxEdits = 3
    MaxConfigEdits = 1
    MaxSettings = 1
    MaxAsks = 1
    MaxTimeouts = 1
    MaxInbox = 2
INVARIANTS OpenBufferWins IndexIsCurrent
PROPERTIES ReloadsSettle
CHECK_DEADLOCK FALSE
