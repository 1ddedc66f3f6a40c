CONSTANTS
    Cap = 1
    MaxIterations = 1
    MaxRetries = 1
    RetryTicks = 2
    MaxChunks = 2
    MaxCalls = 0
    Readers = {"reply", "child"}
    ModelFaults = {"unavailable"}
    StoreMayFail = FALSE
    SilentClose = TRUE

SPECIFICATION Spec
INVARIANT AttemptsAreTold
INVARIANT AbortIsFaithful
INVARIANT StreamDrained
CHECK_DEADLOCK FALSE
