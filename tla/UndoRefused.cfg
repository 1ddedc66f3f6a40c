CONSTANTS
    Files = {"f", "g"}
    MaxTurns = 2
    MaxUndos = 3
    MaxRequests = 1
    Troubles = {"fails"}

SPECIFICATION UndoSpec
INVARIANT UndoneIsReverted

CHECK_DEADLOCK FALSE
