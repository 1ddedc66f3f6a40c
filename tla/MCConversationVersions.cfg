CONSTANTS
    Requests = {r1, r2}
    MaxServed = 4
    MaxMessages = 4
    MaxEvents = 0
    MaxVersion = 3
    MaxRestarts = 0

SYMMETRY RequestSymmetry

SPECIFICATION Spec
INVARIANT VersionsFollowBranch

CHECK_DEADLOCK FALSE
