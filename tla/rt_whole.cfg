SPECIFICATION RTFairSpec
CONSTANTS
    f1 = f1
    f2 = f2
    NoFile = NoFile
    NoCommand = NoCommand
    Files <- OneFile
    MovedIn <- OneFile
    LinesPerFile <- OneLine
    GapLines <- ThatLine
    LongLines <- Nothing
    OverrunLines <- Nothing
    MayBeGone <- OneFile
    ReportsMayFail = TRUE
    UserInputs <- ReportAndToggles
    Paced = TRUE
    MaxCommands = 3
    MaxUIStarts = 1
    MaxRTStarts = 2
    IpcCapacity = 1
    QueueCap = 1
    MaxStreams = 2
INVARIANT SettledPauseHolds
INVARIANT NoLineInTwoLives
 
CHECK_DEADLOCK FALSE
