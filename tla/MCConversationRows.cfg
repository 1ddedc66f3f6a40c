CONSTANTS
    Requests = {r1, r2}
    MaxServed = 3
    MaxMessages = 3
    MaxEvents = 2
    MaxVersion = 3
    MaxRestarts = 1

SYMMETRY RequestSymmetry

SPECIFICATION Spec
INVARIANT TimelineSound
PROPERTY BranchIsFaithful
PROPERTY TimelineKept

CHECK_DEADLOCK FALSE
