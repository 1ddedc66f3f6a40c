CONSTANTS
    Cap = 1
    MaxIterations = 2
    MaxRetries = 0
    RetryTicks = 1
    MaxChunks = 1
    MaxCalls = 2
    Readers = {"reply", "child"}
    ModelFaults = {"fatal"}
    StoreMayFail = TRUE
    SilentClose = TRUE

SPECIFICATION FairSpec
INVARIANT TellsInv
INVARIANT TerminalIsLast
INVARIANT DoneIsStored
INVARIANT CallsAnswered
 
PROPERTY KeepsContract
PROPERTY ChildTurnEnds
PROPERTY ReplyIsTold
CHECK_DEADLOCK FALSE
