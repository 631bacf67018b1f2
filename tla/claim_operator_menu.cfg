SPECIFICATION Spec
CONSTANTS
    UserInputs <- MenuInputs
    Paced = TRUE
    MaxCommands = 3
    MaxUIStarts = 1
    MaxRTStarts = 1
    IpcCapacity = 2
    QueueCap = 2
    NoCommand = NoCommand
INVARIANT OperatorIsTheOneChosen
CHECK_DEADLOCK FALSE
