CONSTANTS
    Paths = {"a", "b"}
    Original <- MCOriginal
    NewText = {"x", "y"}
    NoFile = NoFile
    Blank = Blank
    HeaderNumbers = {TRUE}
    MaxPatches = 3
    MaxLines = 4
    o1 = o1
    o2 = o2
    o3 = o3
    Calls = {c1, c2}
    MaxItems = 6
    MaxQueue = 1
    MaxTransient = 1
    MaxLoads = 2
    MaxMessages = 3
    Risky = {}
    Workspaces = {1, 2}
    PageSize = 2
    MaxChanges = 6
    MaxCalls = 1
    UsesOthers = FALSE
    MaxListCalls = 3
    Files = {"f", "g"}
    MaxTurns = 2
    MaxUndos = 3
    MaxRequests = 1
    Troubles = {"fails", "restored"}
    Convs = {1, 2}
    FeedRows <- MCFeedRows
    MaxVersion = 2
    MaxClients = 2
    MaxInbox = 2
    Chats = {1, 2}
    MaxAsks = 2
    Home <- MCHome
    RootOf <- MCRootOf
    Named <- MCNamed
    Hits <- MCHits
    MaxJumps = 2
    MaxSearches = 2
    Repos <- MCRepos
    MaxPending = 2
    MaxActs = 3

SPECIFICATION Spec
INVARIANT CombinedPatchAgrees
INVARIANT FeedShowsTimeline
INVARIANT LiveMatchesHistory
INVARIANT SettledFeed
 
INVARIANT CachesFresh
INVARIANT TakenIsSent
INVARIANT StreamsFollowed
 
INVARIANT TunnelSound
 
INVARIANT NavigationSound
INVARIANT WorktreesSound
PROPERTY OneStore

CHECK_DEADLOCK FALSE
