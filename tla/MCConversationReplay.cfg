CONSTANTS
    Requests = {r1, r2}
    MaxServed = 2
    MaxMessages = 2
    MaxEvents = 1
    MaxVersion = 1
    MaxRestarts = 1

SYMMETRY RequestSymmetry

SPECIFICATION Spec
PROPERTY TimelineStable

CHECK_DEADLOCK FALSE
