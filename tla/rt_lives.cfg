SPECIFICATION RTSpec
CONSTANTS
    f1 = f1
    f2 = f2
    NoFile = NoFile
    NoCommand = NoCommand
    Files <- TwoFiles
    MovedIn <- OneFile
    LinesPerFile <- ThreeAndOne
    GapLines <- Nothing
    LongLines <- Nothing
    OverrunLines <- LastOfFirst
    MayBeGone <- Nothing
    ReportsMayFail = FALSE
    UserInputs <- ReportOrPause
    Paced = TRUE
    MaxCommands = 1
    MaxUIStarts = 1
    MaxRTStarts = 2
    IpcCapacity = 1
    QueueCap = 1
    MaxStreams = 2
INVARIANT RTTypeOK
PROPERTY ImplementsLifeLogs
PROPERTY FaultHasACause
PROPERTY WedgedUntilRTEnds
CHECK_DEADLOCK FALSE
