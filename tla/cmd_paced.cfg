SPECIFICATION Spec
CONSTANTS
    UserInputs <- PacedInputs
    Paced = TRUE
    MaxCommands = 4
    MaxUIStarts = 2
    MaxRTStarts = 2
    IpcCapacity = 2
    QueueCap = 2
    NoCommand = NoCommand
INVARIANT TypeOK
INVARIANT HonouredWhenPaced
INVARIANT MenuUserStaysInTable
INVARIANT PauseStateAgrees
INVARIANT SelfDeadlockNeedsTwoPauses
INVARIANT StuckNeedsManyToggles
PROPERTY ImplementsService
CHECK_DEADLOCK FALSE
