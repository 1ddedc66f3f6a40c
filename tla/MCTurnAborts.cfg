CONSTANTS
    Cap = 2
    MaxIterations = 1
    MaxRetries = 0
    RetryTicks = 1
    MaxChunks = 1
    MaxCalls = 0
    Readers = {"reply"}
    ModelFaults = {"fatal"}
    StoreMayFail = FALSE
    SilentClose = FALSE

SPECIFICATION Spec
INVARIANT CancelIsAbort
CHECK_DEADLOCK FALSE
