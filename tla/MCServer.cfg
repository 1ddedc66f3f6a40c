CONSTANTS
    Requests = {r1, r2}
    MaxServed = 4
    MaxMessages = 4
    MaxEvents = 0
    MaxVersion = 3
    MaxRestarts = 0

    Paths = {"ignore", "code", "secret", "note", "cache", "fresh"}
    IgnoreFile = "ignore"
    Hidden = {"secret"}
    Folder = {"cache", "fresh"}
    FirstTracked = {"ignore", "code"}
    FirstUntracked = {"secret", "cache"}
    Users = {1, 2}
    OnlyUser = 1
    Keep = 1
    MaxCheckpoints = 3
    MaxEdits = 3
    MaxFaults = 1
    Risky = {}

    Callers = {c1, c2}
    MaxProcesses = 1
    MaxOutput = 2
    MaxPolls = 2

SYMMETRY RequestSymmetry

SPECIFICATION ServerSpec
INVARIANT PointersFollow
INVARIANT RestoreIsFaithful
INVARIANT CheckpointsPinned
INVARIANT SessionsSound
PROPERTY KeepsTranscript

CHECK_DEADLOCK FALSE
