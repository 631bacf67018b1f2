SPECIFICATION FairSpec
CONSTANTS
    f1 = f1
    f2 = f2
    NoFile = NoFile
    Files <- TwoFiles
    MovedIn <- SecondOnly
    LinesPerFile <- TwoAndThree
    GapLines <- SecondOfFirst
    LongLines <- SecondOfSecond
    OverrunLines <- ThirdOfSecond
    MayBeGone <- FirstOnly
    ReportsMayFail = TRUE
    QueueCap = 1
    MaxStreams = 2
    MaxToggles = 2
INVARIANT TypeOK
INVARIANT LinesInPartAreLongOrLast
INVARIANT CrashHasACause
INVARIANT PauseAdmitsOneRead
INVARIANT StuckOnlyUnderLoad
PROPERTY WedgedForever
PROPERTY ImplementsLineLog
PROPERTY CompleteFilesAreAggregated
CHECK_DEADLOCK FALSE
