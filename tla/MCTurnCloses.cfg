CONSTANTS
    Cap = 3
    MaxIterations = 1
    MaxRetries = 0
    RetryTicks = 1
    MaxChunks = 3
    MaxCalls = 0
    Readers = {"reply"}
    ModelFaults = {"fatal"}
    StoreMayFail = FALSE
    SilentClose = FALSE

SPECIFICATION FairSpec
PROPERTY ChannelCloses
CHECK_DEADLOCK FALSE
