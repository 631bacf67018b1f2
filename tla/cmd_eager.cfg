SPECIFICATION FairSpec
CONSTANTS
    UserInputs <- EagerInputs
    Paced = FALSE
    MaxCommands = 3
    MaxUIStarts = 2
    MaxRTStarts = 1
    IpcCapacity = 2
    QueueCap = 1
    NoCommand = NoCommand
INVARIANT ReadsNeverOlder
INVARIANT AtMostOneReport
PROPERTY RequestsFinish
CHECK_DEADLOCK FALSE
