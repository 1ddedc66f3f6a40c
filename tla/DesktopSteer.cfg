CONSTANTS
    MaxMessages = 3
    Risky = {"steer_others"}

SPECIFICATION DeskSpec
INVARIANT TakenIsSent

CHECK_DEADLOCK FALSE
