SPECIFICATION Spec
CONSTANTS
    UserInputs <- MixedInputs
    Paced = FALSE
    MaxCommands = 3
    MaxUIStarts = 1
    MaxRTStarts = 1
    IpcCapacity = 2
    QueueCap = 2
    NoCommand = NoCommand
INVARIANT EveryReportWasRequested
CHECK_DEADLOCK FALSE
