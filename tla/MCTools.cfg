CONSTANTS
    c1 = c1
    c2 = c2
    s1 = s1
    Commands = {c1, c2}
    Sessions = {s1}
    Home <- CallsHome
    Detached = {c2}
    QueueCap = 1

    Spawns = {t1}
    Awaiters = {a1}
    Parent = parent
    MaxParent = 3
    MaxOwn = 3
    MaxPatches = 1
    MaxFailures = 1

SPECIFICATION ToolsSpec
INVARIANT ApprovalsInv
INVARIANT ConsentNeeded
INVARIANT OneAnswer
INVARIANT PromptAnnounced
INVARIANT ThreadsSound
PROPERTY CallsReturn
PROPERTY AwaitReturns

CHECK_DEADLOCK FALSE
