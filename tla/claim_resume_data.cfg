SPECIFICATION FairSpec
CONSTANTS
    UserInputs <- ToggleInputs
    Paced = TRUE
    MaxCommands = 3
    MaxUIStarts = 1
    MaxRTStarts = 1
    IpcCapacity = 2
    QueueCap = 2
    NoCommand = NoCommand
PROPERTY ResumeReleasesDataWatcher
CHECK_DEADLOCK FALSE
